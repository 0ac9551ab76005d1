------------------------- MODULE OrderSubmissionMC -------------------------
(* Instances of OrderSubmission: what the runs of the cli are started for. *)
EXTENDS OrderSubmission

All == {"precheck", "smoke", "reconcile"}
=============================================================================
