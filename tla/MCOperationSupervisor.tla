----------------------- MODULE MCOperationSupervisor -----------------------
(***************************************************************************)
(* An instance of OperationSupervisor for TLC: a synchronous pull and a    *)
(* run of one session.                                                     *)
(***************************************************************************)
EXTENDS OperationSupervisor

CONSTANTS r1, r2, s1, l1

MCSessionOf == [r \in Requests |-> s1]
MCLauncherOf == [r \in Requests |-> l1]
MCKindOf == [r \in Requests |-> IF r = r1 THEN "sync" ELSE "run"]
=============================================================================
