------------------------------ MODULE DlcProxy ------------------------------
(***************************************************************************)
(* DLCProxy::DistributeFile() (cgw/dlc-proxy/dlc-proxy.cpp): the gateway   *)
(* box fetches a file from the DLC's https server for the orchestrator.    *)
(* The caller's thread asks for the size and removes an earlier copy; a    *)
(* detached thread downloads and hands one DistributeResult to the         *)
(* orchestrator, which learns nothing else.                                *)
(***************************************************************************)
EXTENDS HttpsDownload

CONSTANTS
    Request,     \* [Workers -> the package each call names]
    Leftovers,   \* [Files -> what an earlier call may have left there]
    OnePerFile,  \* TRUE: no call for a file while an earlier one is running
    LONGEST      \* bound of the model: no attempt begins on a file longer than this

ASSUME RequestAssumption == Request \in [Workers -> Packages]
ASSUME LeftoversAssumption ==
    /\ Leftovers \in [Files ->
          SUBSET [exists : BOOLEAN, len : Nat, of : Contents, writers : {{}}]]
    /\ \A f \in Files : \A l \in Leftovers[f] : ~l.exists => l.len = 0
ASSUME OnePerFileAssumption == OnePerFile \in BOOLEAN
ASSUME LONGESTAssumption == LONGEST \in Nat

VARIABLE worker   \* [Workers -> the call's and then the thread's locals]

vars == <<files, xfer, process, worker>>

disk == <<files, xfer, process>>

Path(w) == LocalFile[Request[w]]
Local(w) == files[Path(w)]
Want(w) == Size[Request[w]]

Waiting == [pc |-> "idle", current |-> 0, result |-> "none"]

Active(w) == worker[w].pc \notin {"idle", "end", "lost"}

Init ==
    /\ files \in [Files -> UNION {Leftovers[f] : f \in Files}]
    /\ \A f \in Files : files[f] \in Leftovers[f]
    /\ xfer = [w \in Workers |-> NoTransfer]
    /\ process = "up"
    /\ worker = [w \in Workers |-> Waiting]

At(w, label) == Up /\ worker[w].pc = label

Goto(w, label) == worker' = [worker EXCEPT ![w].pc = label]

Return(w, result) ==
    worker' = [worker EXCEPT ![w].pc = "end", ![w].result = result]

DieIn(cause) == Die(cause) /\ UNCHANGED worker
-----------------------------------------------------------------------------
\* GetFileSize(): without an answer of status 200 the call returns false.  One
\* without a length is asserted not to come; what stoull() makes of it goes to the
\* caller, who has been refused then too.
DistributeFile(w) ==
    /\ At(w, "idle")
    /\ OnePerFile => \A v \in Workers : Active(v) => Path(v) # Path(w)
    /\ \E answer \in {"size", "no length", "error"} :
          IF answer = "size" THEN Goto(w, "exists") /\ UNCHANGED disk
          ELSE IF answer = "no length" /\ AssertFails(FALSE) THEN DieIn("abort")
          ELSE Return(w, "refused") /\ UNCHANGED disk

\* Mutant: an earlier copy that has the size of the package is taken for it.
ExistsOfThatSize(w) ==
    /\ At(w, "exists")
    /\ Goto(w, IF ~Local(w).exists THEN "download"
               ELSE IF Local(w).len = Want(w) THEN "measure" ELSE "remove")
    /\ UNCHANGED disk

Exists(w) ==
    /\ At(w, "exists")
    /\ Goto(w, IF Local(w).exists THEN "remove" ELSE "download")
    /\ UNCHANGED disk

Remove(w) ==
    /\ At(w, "remove")
    /\ files' = [files EXCEPT ![Path(w)] = NoFile]
    /\ Goto(w, "download")
    /\ UNCHANGED <<xfer, process>>

Download(w) ==
    /\ At(w, "download")
    /\ \/ /\ Local(w).len <= LONGEST
          /\ DownloadFrom(w, Request[w], worker[w].current)
       \/ Transfer(w, Request[w])
    /\ UNCHANGED worker

DownloadSucceeds(w) ==
    /\ At(w, "download") /\ xfer[w].phase = "ok"
    /\ Goto(w, "measure")
    /\ xfer' = [xfer EXCEPT ![w] = NoTransfer]
    /\ UNCHANGED <<files, process>>

\* repeat_count is compared with MAX_REPEAT_COUNT and never changed.
DownloadFails(w) ==
    /\ At(w, "download") /\ xfer[w].phase = "failed"
    /\ IF ~Local(w).exists
       THEN DieIn("terminate")
       ELSE IF AssertFails(Local(w).len < Want(w))
       THEN DieIn("abort")
       ELSE /\ worker' = [worker EXCEPT ![w].current = Local(w).len]
            /\ xfer' = [xfer EXCEPT ![w] = NoTransfer]
            /\ UNCHANGED <<files, process>>

\* Mutant: the thread does not end with its result.
DistributeResultTwice(w) ==
    /\ At(w, "measure") /\ Local(w).exists
    /\ worker' = [worker EXCEPT ![w].result =
                      IF Local(w).len = Want(w) THEN "true" ELSE "false"]
    /\ UNCHANGED disk

\* IOrchestrator::DistributeResult(): the size alone decides.
DistributeResult(w) ==
    /\ At(w, "measure")
    /\ IF ~Local(w).exists
       THEN DieIn("terminate")
       ELSE /\ Return(w, IF Local(w).len = Want(w) THEN "true" ELSE "false")
            /\ UNCHANGED disk
-----------------------------------------------------------------------------
Killed == Up /\ DieIn("killed")

Restart ==
    /\ ~Up
    /\ process' = "up"
    /\ files' = [f \in Files |-> [files[f] EXCEPT !.writers = {}]]
    /\ xfer' = [w \in Workers |-> NoTransfer]
    /\ worker' = [w \in Workers |->
                    IF Active(w) THEN [worker[w] EXCEPT !.pc = "lost"] ELSE worker[w]]

Work(w) ==
    \/ Exists(w) \/ Remove(w) \/ Download(w) \/ DownloadSucceeds(w)
    \/ DownloadFails(w) \/ DistributeResult(w)

Next ==
    \/ \E w \in Workers : DistributeFile(w) \/ Work(w)
    \/ Killed
    \/ Restart

\* The caller's thread and the detached one keep being scheduled, and the
\* client's time-outs end a transfer that stalls.
Fairness == \A w \in Workers : WF_vars(Work(w))

Spec == Init /\ [][Next]_vars
LiveSpec == Spec /\ Fairness
-----------------------------------------------------------------------------
Labels == {"idle", "exists", "remove", "download", "measure", "end", "lost"}

\* Every variable keeps its type, and a result comes with the end of its call.
TypeOK ==
    /\ HttpsTypeOK
    /\ worker \in [Workers ->
          [pc : Labels, current : Nat, result : {"none", "refused", "true", "false"}]]
    /\ \A w \in Workers : worker[w].result # "none" => worker[w].pc = "end"

TellsTrue(w) == worker[w].result = "none" /\ worker'[w].result = "true"

\* The orchestrator is told true only while the local file is the package, byte
\* for byte (dlc-proxy-public.h:36-37).  The code looks at the size alone
\* (dlc-proxy.cpp:123-127), and the body of an error answer counts in it.
TrueMeansGood ==
    [][\A w \in Workers : TellsTrue(w) => Md5Good(Local(w), Request[w])']_vars

\* What the size does tell: when no failed attempt has left a byte behind, the
\* orchestrator is told true only of the package itself, whatever an earlier call had
\* left, whatever failed on the way and however the server answers a range
\* (dlc-proxy.cpp:93-127).
FreshTrueMeansGood ==
    [][\A w \in Workers :
          TellsTrue(w) /\ worker[w].current = 0 => Md5Good(Local(w), Request[w])']_vars

\* Every accepted call is followed by its DistributeResult, unless the process
\* dies first (dlc-proxy-public.h:80-81).
Answered ==
    \A w \in Workers : Active(w) ~> (worker[w].result # "none" \/ ~Up)

=============================================================================
