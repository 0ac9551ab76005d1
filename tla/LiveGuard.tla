----------------------------- MODULE LiveGuard -----------------------------
(***************************************************************************)
(* The lease a LIVE run holds (core/live.py, LiveGuard), the two clocks it *)
(* is measured on, and the signal files that revoke it.                    *)
(*                                                                         *)
(* The lease is in the memory of one process and ends with it.  The signal *)
(* files are written and cleared from any other terminal, without a lock.  *)
(* The wall clock may be set by its user; the monotonic clock never goes   *)
(* back and stands still while the machine sleeps.  since is a history: the *)
(* time that really passed since the lease was taken, and which of the two *)
(* clocks told it.                                                         *)
(*                                                                         *)
(* A forked process and an unreadable signal directory disarm like a       *)
(* present signal and are not told apart from it.                          *)
(***************************************************************************)
EXTENDS Integers

CONSTANTS
  None,
  Hours,              (* the durations a lease may be asked for            *)
  Settings,           (* what the wall clock may be set to                 *)
  MaxTime             (* bound of both clocks                              *)

(* What is assumed of the constants: the module that instantiates this one  *)
(* states it.                                                               *)
GuardAssumption ==
  /\ MaxTime \in Nat
  /\ Hours \subseteq Nat \ {0}
  /\ Settings \subseteq 0 .. MaxTime
  /\ None \notin [armed : Nat, deadline : Nat, until : Nat]

VARIABLES now, mono, signals, guard, since

Time == 0 .. MaxTime
Lease == [armed : Time, deadline : Nat, until : Nat]
Since == [elapsed : Time, wall : BOOLEAN, mono : BOOLEAN]
Fresh == [elapsed |-> 0, wall |-> TRUE, mono |-> TRUE]

Init ==
  /\ now = 0
  /\ mono = 0
  /\ signals = {}
  /\ guard = None
  /\ since = Fresh

(* Mutant of Expired: the lease ends by the wall clock alone. *)
ExpiredByWall == now >= guard.until

Expired ==
  \/ mono < guard.armed
  \/ mono >= guard.deadline
  \/ now >= guard.until

(* LiveGuard._refresh keeps the lease. *)
Stands == guard # None /\ "disarm" \notin signals /\ ~Expired

(* LiveGuard.arm with a preflight that passes. *)
Arm(d) ==
  /\ "disarm" \notin signals
  /\ mono + d <= MaxTime
  /\ guard' = [armed |-> mono, deadline |-> mono + d, until |-> now + d]
  /\ since' = Fresh

(* LiveGuard.disarm; the history is of leases only. *)
Disarm ==
  /\ guard' = None
  /\ since' = Fresh

-----------------------------------------------------------------------------
(* Other terminals: disarm, stop, stop-all; clear-disarm, resume-monitoring. *)
Write(kinds) ==
  /\ ~ kinds \subseteq signals
  /\ signals' = signals \cup kinds
  /\ UNCHANGED <<now, mono, guard, since>>

Clear(kind) ==
  /\ kind \in signals
  /\ signals' = signals \ {kind}
  /\ UNCHANGED <<now, mono, guard, since>>

(* The history is kept while there is a lease. *)
Told(s) == since' = IF guard = None THEN Fresh ELSE s

Longer(t) == IF t < MaxTime THEN t + 1 ELSE t

(* A unit of time passes on both clocks.  At its bound the wall clock stops. *)
Tick ==
  /\ mono < MaxTime
  /\ mono' = mono + 1
  /\ now' = Longer(now)
  /\ Told([elapsed |-> Longer(since.elapsed), mono |-> since.mono,
           wall |-> since.wall /\ now < MaxTime])
  /\ UNCHANGED <<signals, guard>>

(* The machine sleeps for a unit of time. *)
Sleep ==
  /\ now < MaxTime
  /\ now' = now + 1
  /\ Told([elapsed |-> Longer(since.elapsed), mono |-> FALSE, wall |-> since.wall])
  /\ UNCHANGED <<mono, signals, guard>>

SetClock(t) ==
  /\ now' = t
  /\ Told([since EXCEPT !.wall = FALSE])
  /\ UNCHANGED <<mono, signals, guard>>

Outside ==
  \/ Write({"disarm"}) \/ Write({"stop"}) \/ Write({"disarm", "stop"})
  \/ Clear("disarm") \/ Clear("stop")
  \/ Tick \/ Sleep
  \/ \E t \in Settings : SetClock(t)

Next ==
  \/ Outside
  \/ \E d \in Hours : Arm(d) /\ UNCHANGED <<now, mono, signals>>
  \/ Disarm /\ UNCHANGED <<now, mono, signals>>

guardVars == <<now, mono, signals, guard, since>>
Spec == Init /\ [][Next]_guardVars

-----------------------------------------------------------------------------
TypeOK ==
  /\ now \in Time /\ mono \in Time
  /\ signals \subseteq {"disarm", "stop"}
  /\ guard \in Lease \cup {None}
  /\ since \in Since

(* A lease that still stands was taken less than its duration ago, by the   *)
(* time that really passed, as long as one of the clocks told it: setting   *)
(* the wall clock back does not prolong it, nor does the sleep of the       *)
(* machine; only both together do.                                          *)
LeaseIsShort ==
  Stands /\ (since.wall \/ since.mono)
    => since.elapsed < guard.deadline - guard.armed
=============================================================================
