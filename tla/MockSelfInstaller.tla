-------------------------- MODULE MockSelfInstaller --------------------------
(***************************************************************************)
(* The self-installer behind the UpdaterWrapper, as the repository's own   *)
(* one does it (fake-selfinstaller/mock_selfinstaller.cpp): an accepted    *)
(* phase gets a detached thread, which works for a while and then, for     *)
(* each of the packages, stores its state in the one g_state that all      *)
(* threads and GetState() share, reads g_state again, unlocked, and has    *)
(* the wrapper publish what it has read.  Nothing orders the threads.  The *)
(* codes of the calls are left open, as the interface leaves them to the   *)
(* vendor.                                                                 *)
(***************************************************************************)
EXTENDS Naturals

CONSTANT PARTITIONS   \* packages a phase is called with

ASSUME PARTITIONSAssumption == PARTITIONS \in Nat

VARIABLES
    state,     \* g_state.state_
    threads    \* the detached threads of the box's process

UpdateStates ==
    {"IDLE", "DOWNLOADING", "DOWNLOAD_DONE", "PREPARATION", "PREPARATION_DONE",
     "ACTIVATION", "ACTIVATION_DONE", "FINAILIZE", "FINAILIZE_DONE", "ROLLBACK",
     "ROLLBACK_DONE", "ERROR"}

Phases == {"PrepareUpgrade", "Upgrade", "Finalize"}

InstallerInit == state = "IDLE" /\ threads = {}

\* The threads end with the process, and its next one starts with a g_state of its own.
InstallerRestarts == state' = "IDLE" /\ threads' = {}

\* Mutant: the switch falls through to the state of the phase that follows.
DoneStateFallsThrough(op) ==
    CASE op = "PrepareUpgrade" -> "ACTIVATION_DONE"
      [] op \in {"Upgrade", "Finalize"} -> "FINAILIZE_DONE"

\* The switch over MOCK_ACTION, whose eRollback has no case and no caller.
DoneState(op) ==
    CASE op = "PrepareUpgrade" -> "PREPARATION_DONE"
      [] op = "Upgrade" -> "ACTIVATION_DONE"
      [] op = "Finalize" -> "FINAILIZE_DONE"

Thread(op, call) ==
    [op |-> op, call |-> call, left |-> PARTITIONS, stored |-> FALSE, said |-> "nothing"]

\* PrepareUpgrade(), Upgrade() and Finalize() start a thread and say OK at once.
Begun(op, call) ==
    IF op \in Phases /\ PARTITIONS > 0 THEN threads \cup {Thread(op, call)} ELSE threads

\* mock_action() of one package up to the call of ReportStatus().
StoreState(t) ==
    /\ t \in threads /\ t.op \in Phases /\ ~t.stored
    /\ state' = DoneState(t.op)
    /\ threads' = (threads \ {t}) \cup {[t EXCEPT !.stored = TRUE]}

\* ReportStatus() is passed g_state itself: it is read when the publication is packed,
\* which another thread may have stored in by then.
ReadState(t) ==
    /\ t \in threads /\ t.stored /\ t.said = "nothing"
    /\ threads' = (threads \ {t}) \cup {[t EXCEPT !.said = state]}
    /\ UNCHANGED state

\* And from there to the next package or the end of the thread.
Reported(t) ==
    (threads \ {t}) \cup
        {u \in {[t EXCEPT !.stored = FALSE, !.said = "nothing", !.left = @ - 1]} : u.left > 0}

=============================================================================
