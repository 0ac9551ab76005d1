--------------------------- MODULE ApplePickupMC ---------------------------
(* An instance of ApplePickup: two SKUs of one category, of which the first *)
(* is asked for in both stores or in the second alone, and the other only   *)
(* shows up in a catalogue.  A minute is a unit; a cooldown is cut to one.  *)
EXTENDS ApplePickup

Category == <<"iphone", "iphone">>
Wanted == {<<{1, 2}, {}>>, <<{2}, {}>>}
Shown == {{1}, {1, 2}}
Slot == {[interval |-> 1, lease |-> 2]}
=============================================================================
