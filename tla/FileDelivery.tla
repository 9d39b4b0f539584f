---------------------------- MODULE FileDelivery ----------------------------
(***************************************************************************)
(* What a download service owes its caller: a job is delivered only when   *)
(* every package it wants is complete and verified on the local disk, a    *)
(* package that is complete stays so, and a job ends once, delivered,      *)
(* failed, or lost with the process that ran it.                           *)
(***************************************************************************)
CONSTANTS
    Jobs,
    Packages,
    Wanted     \* [Jobs -> SUBSET Packages]

VARIABLES job,   \* [Jobs -> how far the job is]
          good   \* the packages complete and verified on disk

Init == job = [j \in Jobs |-> "new"] /\ good \subseteq Packages

Running(j) == job[j] = "running"

Accept(j) ==
    /\ job[j] = "new"
    /\ job' = [job EXCEPT ![j] = "running"]
    /\ UNCHANGED good

Obtain(p) ==
    /\ p \notin good /\ \E j \in Jobs : Running(j) /\ p \in Wanted[j]
    /\ good' = good \cup {p}
    /\ UNCHANGED job

Deliver(j) ==
    /\ Running(j) /\ Wanted[j] \subseteq good
    /\ job' = [job EXCEPT ![j] = "delivered"]
    /\ UNCHANGED good

\* A job that makes no sense fails without having run.
Fail(j) ==
    /\ job[j] \in {"new", "running"}
    /\ job' = [job EXCEPT ![j] = "failed"]
    /\ UNCHANGED good

\* The process dies under its jobs.
Lose ==
    /\ job' = [j \in Jobs |-> IF Running(j) THEN "lost" ELSE job[j]]
    /\ UNCHANGED good

Next ==
    \/ \E j \in Jobs : Accept(j) \/ Deliver(j) \/ Fail(j)
    \/ \E p \in Packages : Obtain(p)
    \/ Lose

Spec == Init /\ [][Next]_<<job, good>>

=============================================================================
