---------------------------- MODULE SelfUpdater ----------------------------
(***************************************************************************)
(* UpdaterWrapper::Distribute() (updaterwrapper/updaterwrapper.cpp): the   *)
(* self-updater of one box accepts Distribute requests and runs each in a  *)
(* detached thread that fetches the package into saved_path_ and publishes *)
(* one DistributeResult.  Workers race over the local files; the process   *)
(* may die at any moment and be restarted, the files staying on disk.      *)
(* The box is any but the IDCM, whose case of the handler fetches nothing. *)
(***************************************************************************)
EXTENDS HttpsDownload

CONSTANTS
    Request,           \* [Workers -> Packages]: the package each call names
    MAX_REPEAT_COUNT,
    Leftovers,         \* [Files -> what an earlier run may have left there]
    OnePerFile         \* TRUE: the orchestrator never asks for a file while
                       \* an earlier request for the same file is running

ASSUME RequestAssumption == Request \in [Workers -> Packages]
ASSUME MaxRepeatAssumption == MAX_REPEAT_COUNT \in Nat \ {0}
ASSUME LeftoversAssumption ==
    /\ Leftovers \in [Files ->
          SUBSET [exists : BOOLEAN, len : Nat, of : Contents, writers : {{}}]]
    /\ \A f \in Files : \A l \in Leftovers[f] : ~l.exists => l.len = 0
ASSUME OnePerFileAssumption == OnePerFile \in BOOLEAN

VARIABLE worker   \* [Workers -> the thread's program counter and locals]

vars == <<files, xfer, process, worker>>

Path(w) == LocalFile[Request[w]]
Local(w) == files[Path(w)]
Want(w) == Size[Request[w]]

Waiting == [pc |-> "idle", from |-> 0, repeat |-> 0, result |-> "none"]

Active(w) == worker[w].pc \notin {"idle", "end", "lost"}

\* The constructor has found saved_path_ to be a directory that can be read and
\* written: otherwise it throws, and there is no such process.
Init ==
    /\ files \in [Files -> UNION {Leftovers[f] : f \in Files}]
    /\ \A f \in Files : files[f] \in Leftovers[f]
    /\ xfer = [w \in Workers |-> NoTransfer]
    /\ process = "up"
    /\ worker = [w \in Workers |-> Waiting]

At(w, label) == Up /\ worker[w].pc = label

Goto(w, label) == worker' = [worker EXCEPT ![w].pc = label]

StartFrom(w, n) == worker' = [worker EXCEPT ![w].pc = "download", ![w].from = n]

\* StatusCallback(): the DistributeResult is published and the thread ends.
Publish(w, result) ==
    worker' = [worker EXCEPT ![w].pc = "end", ![w].result = result]

DieIn(cause) == Die(cause) /\ UNCHANGED worker
-----------------------------------------------------------------------------
\* The RPC handler: the thread is started and detached, true is returned.
Distribute(w) ==
    /\ At(w, "idle")
    /\ OnePerFile => \A v \in Workers : Active(v) => Path(v) # Path(w)
    /\ Goto(w, "exists")
    /\ UNCHANGED <<files, xfer, process>>

Exists(w) ==
    /\ At(w, "exists")
    /\ IF Local(w).exists THEN Goto(w, "size") ELSE StartFrom(w, 0)
    /\ UNCHANGED <<files, xfer, process>>

\* Mutant: a file of the right size is removed unread.
CompareSizeRemoving(w) ==
    /\ At(w, "size")
    /\ IF ~Local(w).exists
       THEN DieIn("terminate")
       ELSE /\ \/ Local(w).len >= Want(w) /\ Goto(w, "remove")
               \/ Local(w).len < Want(w) /\ StartFrom(w, Local(w).len)
            /\ UNCHANGED <<files, xfer, process>>

\* boostfs::file_size() throws when the file has gone, and nobody catches it.
CompareSize(w) ==
    /\ At(w, "size")
    /\ IF ~Local(w).exists
       THEN DieIn("terminate")
       ELSE /\ \/ Local(w).len = Want(w) /\ Goto(w, "md5")
               \/ Local(w).len > Want(w) /\ Goto(w, "remove")
               \/ Local(w).len < Want(w) /\ StartFrom(w, Local(w).len)
            /\ UNCHANGED <<files, xfer, process>>

\* md5sum() hands a null FILE* to feof() when the file has gone.  A bad file of
\* the right size is not removed: the download resumes at its end.
CheckMd5(w) ==
    /\ At(w, "md5")
    /\ IF ~Local(w).exists
       THEN DieIn("segv")
       ELSE /\ IF Md5Good(Local(w), Request[w])
               THEN Publish(w, "done")
               ELSE StartFrom(w, Want(w))
            /\ UNCHANGED <<files, xfer, process>>

RemoveOversized(w) ==
    /\ At(w, "remove")
    /\ IF AssertFails(Local(w).exists)
       THEN DieIn("abort")
       ELSE /\ files' = [files EXCEPT ![Path(w)] = NoFile]
            /\ StartFrom(w, 0)
            /\ UNCHANGED <<xfer, process>>

Download(w) ==
    /\ At(w, "download")
    /\ \/ DownloadFrom(w, Request[w], worker[w].from)
       \/ Transfer(w, Request[w])
    /\ UNCHANGED worker

DownloadSucceeds(w) ==
    /\ At(w, "download") /\ xfer[w].phase = "ok"
    /\ worker' = [worker EXCEPT ![w].pc = "report", ![w].repeat = @ + 1]
    /\ xfer' = [xfer EXCEPT ![w] = NoTransfer]
    /\ UNCHANGED <<files, process>>

\* Mutant: one attempt too many.
ResumeOnceMore(w) ==
    worker' = [worker EXCEPT
        ![w].pc = IF worker[w].repeat < MAX_REPEAT_COUNT THEN "download" ELSE "giveup",
        ![w].repeat = @ + 1,
        ![w].from = Local(w).len]

\* Mutant: the position of the first attempt is used again.
ResumeStale(w) ==
    worker' = [worker EXCEPT
        ![w].pc = IF worker[w].repeat + 1 < MAX_REPEAT_COUNT
                  THEN "download" ELSE "giveup",
        ![w].repeat = @ + 1]

\* Mutant: the attempts are not counted.
ResumeUncounted(w) ==
    worker' = [worker EXCEPT
        ![w].pc = IF worker[w].repeat < MAX_REPEAT_COUNT THEN "download" ELSE "giveup",
        ![w].from = Local(w).len]

\* The next attempt resumes from the file's size, unless that was the last one.
Resume(w) ==
    worker' = [worker EXCEPT
        ![w].pc = IF worker[w].repeat + 1 < MAX_REPEAT_COUNT
                  THEN "download" ELSE "giveup",
        ![w].repeat = @ + 1,
        ![w].from = Local(w).len]

DownloadFails(w) ==
    /\ At(w, "download") /\ xfer[w].phase = "failed"
    /\ IF ~Local(w).exists
       THEN DieIn("terminate")
       ELSE /\ Resume(w)
            /\ xfer' = [xfer EXCEPT ![w] = NoTransfer]
            /\ UNCHANGED <<files, process>>

\* The log line of either outcome takes the file's size once more.
Report(w) ==
    /\ Up /\ worker[w].pc \in {"report", "giveup"}
    /\ IF ~Local(w).exists
       THEN DieIn("terminate")
       ELSE /\ Publish(w, IF worker[w].pc = "report" THEN "done" ELSE "fail")
            /\ UNCHANGED <<files, xfer, process>>
-----------------------------------------------------------------------------
\* Power loss, an A/B switch or an exit of the self-installer.
Killed == Up /\ DieIn("killed")

\* The threads are gone, and with them the results they had not published.
Restart ==
    /\ ~Up
    /\ process' = "up"
    /\ files' = [f \in Files |-> [files[f] EXCEPT !.writers = {}]]
    /\ xfer' = [w \in Workers |-> NoTransfer]
    /\ worker' = [w \in Workers |->
                    IF Active(w) THEN [worker[w] EXCEPT !.pc = "lost"] ELSE worker[w]]

Work(w) ==
    \/ Exists(w) \/ CompareSize(w) \/ CheckMd5(w) \/ RemoveOversized(w)
    \/ Download(w) \/ DownloadSucceeds(w) \/ DownloadFails(w) \/ Report(w)

Next ==
    \/ \E w \in Workers : Distribute(w) \/ Work(w)
    \/ Killed
    \/ Restart

\* A detached thread keeps being scheduled, and the client's time-outs end a
\* transfer that stalls.  Nothing promises a caller, a death or a restart.
Fairness == \A w \in Workers : WF_vars(Work(w))

Spec == Init /\ [][Next]_vars
LiveSpec == Spec /\ Fairness
-----------------------------------------------------------------------------
Labels ==
    {"idle", "exists", "size", "md5", "remove", "download", "report", "giveup",
     "end", "lost"}

WorkerStates ==
    [pc : Labels, from : Nat, repeat : 0..MAX_REPEAT_COUNT,
     result : {"none", "done", "fail"}]

\* Every variable keeps its type; a worker never counts more than
\* MAX_REPEAT_COUNT attempts (updaterwrapper.cpp:306-319).
TypeOK == HttpsTypeOK /\ worker \in [Workers -> WorkerStates]

PublishesDone(w) == worker[w].result = "none" /\ worker'[w].result = "done"

\* An eDONE result is published only while the local file is the package, byte
\* for byte.  Nothing after the download compares sizes or checksums
\* (updaterwrapper.cpp:323-328): it must follow from the resume positions.
DoneIsVerified ==
    [][\A w \in Workers : PublishesDone(w) => Md5Good(Local(w), Request[w])']_vars

\* An eDONE result is published only while the local file has the package's
\* size, whatever an earlier run left there and whatever body an error answer
\* carries, in a build whose assertions are compiled in and with a server that
\* answers a range with that range (updaterwrapper.cpp:265-328).  With one that
\* answers it 200 and the whole file it is not so in either build
\* (https_download.cpp:215-216).
DoneIsExact ==
    [][\A w \in Workers : PublishesDone(w) => Local(w)'.len = Want(w)]_vars

\* A package that has come complete is not spoilt by a later request, a retry
\* or a restart (updaterwrapper.cpp:267-276).
GoodFileIsKept ==
    [][\A p \in Packages :
          Md5Good(files[LocalFile[p]], p) => Md5Good(files[LocalFile[p]], p)']_vars

\* No byte on disk is fetched twice: retries and restarts only ever add to the
\* local files (updaterwrapper.cpp:278-290, 315).
FilesNeverShrink ==
    [][\A f \in Files : files[f].len <= files'[f].len]_vars

\* Every accepted request is answered, unless the process dies first
\* (updaterwrapper.cpp:311-335).
Answered ==
    \A w \in Workers : Active(w) ~> (worker[w].result # "none" \/ ~Up)

RequestState(w) ==
    CASE worker[w].result = "done" -> "delivered"
      [] worker[w].result = "fail" -> "failed"
      [] worker[w].pc = "idle" -> "new"
      [] OTHER -> IF Active(w) /\ Up THEN "running" ELSE "lost"

Delivery == INSTANCE FileDelivery WITH
    Jobs <- Workers,
    Wanted <- [w \in Workers |-> {Request[w]}],
    job <- [w \in Workers |-> RequestState(w)],
    good <- {p \in Packages : Md5Good(files[LocalFile[p]], p)}

\* The self-updater is a file delivery: a request is delivered only when its
\* package is good, a good package stays good, and a request ends once.
Delivers == Delivery!Spec
-----------------------------------------------------------------------------
(***************************************************************************)
(* The setting in which the absence of a check after the download does no  *)
(* harm: one request at a time for a file, no two packages of one filename,*)
(* a server whose packages match their checksums, that answers a range     *)
(* with that range and whose errors have no body, and a directory that     *)
(* holds only parts of the packages.                                       *)
(***************************************************************************)
Clean ==
    /\ OnePerFile
    /\ Damaged = {} /\ ErrorBodies \subseteq {0} /\ RANGES
    /\ \A p, q \in Packages : LocalFile[p] = LocalFile[q] => p = q
    /\ \A p \in Packages : \A l \in Leftovers[LocalFile[p]] :
          PrefixOf(l, p) /\ l.len <= Size[p]

\* At most one thread works on a file (the orchestrator's part of OnePerFile,
\* which every step of the threads preserves).
OneWorkerPerFile ==
    \A v, w \in Workers : Active(v) /\ Active(w) /\ v # w => Path(v) # Path(w)

FilesArePrefixes ==
    \A p \in Packages :
        LET f == files[LocalFile[p]]
        IN  PrefixOf(f, p) /\ f.len <= Size[p] /\ (~f.exists => f.len = 0)

\* What a thread knows of its file, step by step.
Knows(w) ==
    /\ xfer[w].phase # "idle" => worker[w].pc = "download"
    /\ worker[w].pc # "remove"
    /\ worker[w].pc \in {"md5", "report"} => Local(w).len = Want(w)
    /\ worker[w].pc = "download" /\ xfer[w].phase = "idle" =>
          worker[w].from = Local(w).len /\ Local(w).len < Want(w)
    /\ xfer[w].phase = "body" /\ xfer[w].good =>
          /\ xfer[w].content = Request[w]
          /\ w \in Local(w).writers /\ Local(w).exists
          /\ xfer[w].pos = Local(w).len
          /\ xfer[w].pos + xfer[w].left = Want(w)
    /\ xfer[w].phase = "body" /\ ~xfer[w].good =>
          xfer[w].left = 0 /\ Local(w).len < Want(w)
    /\ xfer[w].phase = "failed" => Local(w).len < Want(w)
    /\ xfer[w].phase = "ok" => Local(w).len = Want(w)

\* In the clean setting: the files hold prefixes of their packages, and every
\* thread's position is the end of its file (updaterwrapper.cpp:262-336).
CleanInv == OneWorkerPerFile /\ FilesArePrefixes /\ \A w \in Workers : Knows(w)

=============================================================================
