------------------------------- MODULE TaskIds -------------------------------
(***************************************************************************)
(* The identities every module shares: the ids TaskRunner.submit draws     *)
(* with uuid.uuid4() (src/app/queueing.py), one per accepted upload and    *)
(* never used twice.                                                       *)
(***************************************************************************)
EXTENDS FiniteSets

CONSTANT Tasks

ASSUME TasksAssumption == IsFiniteSet(Tasks)
==============================================================================
