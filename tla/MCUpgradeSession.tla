-------------------------- MODULE MCUpgradeSession --------------------------
(***************************************************************************)
(* Small instances of UpgradeSession: the phases in their order, as in the *)
(* script of the simulator's documentation (orch-simulator.cpp:185-198),   *)
(* after a task that is none of the operations, which the script passes    *)
(* over with an error that is not initialised.                             *)
(***************************************************************************)
EXTENDS UpgradeSession

Tasks == <<"GetState", "PrepareUpgrade", "Upgrade", "Finalize">>
=============================================================================
