--------------------------- MODULE DownloadClient ---------------------------
(***************************************************************************)
(* The DLC of the IDCM box (idcm/dlc): HandleRemoteRequest() accepts an L1 *)
(* manifest and detaches a thread that downloads its packages one after    *)
(* the other (DownloadAllPackages), then tells the orchestrator that they  *)
(* are ready or the cloud what went wrong.  The manifest being handled is  *)
(* kept in a global that every thread reads and every request overwrites.  *)
(***************************************************************************)
EXTENDS HttpsDownload, Sequences

CONSTANTS
    Manifest,    \* [Workers -> the packages of the request, in order, if the
                 \* request is a manifest at all]
    None,        \* no manifest
    MAX_REPEAT_DOWNLOAD_COUNT,
    Leftovers,   \* [Files -> what an earlier run may have left there]
    OnePerFile   \* TRUE: the cloud sends no manifest that shares a file with
                 \* one whose download is running

ASSUME ManifestAssumption == Manifest \in [Workers -> Seq(Packages)]
\* GetFileSize2() asks for the size by the filename, which names the local file too.
ASSUME SizeOfNameAssumption ==
    \A p, q \in Packages : LocalFile[p] = LocalFile[q] => Size[p] = Size[q]
ASSUME NoneAssumption == None \notin Workers
ASSUME MaxRepeatAssumption == MAX_REPEAT_DOWNLOAD_COUNT \in Nat \ {0}
ASSUME LeftoversAssumption ==
    /\ Leftovers \in [Files ->
          SUBSET [exists : BOOLEAN, len : Nat, of : Contents, writers : {{}}]]
    /\ \A f \in Files : \A l \in Leftovers[f] : ~l.exists => l.len = 0
ASSUME OnePerFileAssumption == OnePerFile \in BOOLEAN

VARIABLES
    worker,       \* [Workers -> the thread's program counter and locals]
    L1_Manifest,  \* the global: the request stored last, or None
    storing,      \* requests whose handler has still to store its manifest
    reported      \* requests of which the cloud has been sent an error report

vars == <<files, xfer, process, worker, L1_Manifest, storing, reported>>

disk == <<files, xfer, process>>
link == <<L1_Manifest, storing, reported>>

\* The package the thread is at, and its local file.
Pkg(w) == Manifest[w][worker[w].at]
Path(w) == LocalFile[Pkg(w)]
Local(w) == files[Path(w)]
Want(w) == Size[Pkg(w)]

PackagesOf(w) == {Manifest[w][i] : i \in 1..Len(Manifest[w])}
PathsOf(w) == {LocalFile[p] : p \in PackagesOf(w)}

Waiting == [pc |-> "idle", at |-> 1, current |-> 0, repeat |-> 0,
            success |-> FALSE]

\* The thread still has to do with the files.
Active(w) == worker[w].pc \notin {"idle", "called", "end", "ignored", "lost"}

Init ==
    /\ files \in [Files -> UNION {Leftovers[f] : f \in Files}]
    /\ \A f \in Files : files[f] \in Leftovers[f]
    /\ xfer = [w \in Workers |-> NoTransfer]
    /\ process = "up"
    /\ worker = [w \in Workers |-> Waiting]
    /\ L1_Manifest = None
    /\ storing = {}
    /\ reported = {}

At(w, label) == Up /\ worker[w].pc = label

Goto(w, label) == worker' = [worker EXCEPT ![w].pc = label]

\* The do-while loop is entered with its counter reset.
StartFrom(w, n) ==
    worker' = [worker EXCEPT ![w].pc = "download", ![w].current = n,
                             ![w].repeat = 0, ![w].success = FALSE]

NextPackage(w) ==
    worker' = IF worker[w].at < Len(Manifest[w])
              THEN [worker EXCEPT ![w].pc = "filesize", ![w].at = @ + 1]
              ELSE [worker EXCEPT ![w].pc = "ready"]

DieIn(cause) == Die(cause) /\ UNCHANGED <<worker, link>>
-----------------------------------------------------------------------------
\* HandleRemoteRequest(): always answers true.  The text is a request of another
\* kind...
Ignore(w) ==
    /\ At(w, "idle")
    /\ Goto(w, "ignored")
    /\ UNCHANGED <<disk, link>>

\* Mutant: nothing is reported of a request that makes no sense.
RefuseSilently(w) ==
    /\ At(w, "idle")
    /\ Goto(w, "end")
    /\ UNCHANGED <<disk, link>>

\* ...an ill-formed manifest or no json at all...
Refuse(w) ==
    /\ At(w, "idle")
    /\ Goto(w, "end")
    /\ reported' = reported \cup {w}
    /\ UNCHANGED <<disk, L1_Manifest, storing>>

\* ...or a manifest.  The thread runs from here on; the handler stores the manifest after it.
Accept(w) ==
    /\ At(w, "idle")
    /\ OnePerFile => \A v \in Workers : Active(v) => PathsOf(v) \cap PathsOf(w) = {}
    /\ IF AssertFails(Manifest[w] # <<>>)
       THEN DieIn("abort")
       ELSE /\ Goto(w, IF Manifest[w] = <<>> THEN "ready" ELSE "filesize")
            /\ storing' = storing \cup {w}
            /\ UNCHANGED <<disk, L1_Manifest, reported>>

StoreManifest(w) ==
    /\ Up /\ w \in storing
    /\ L1_Manifest' = w
    /\ storing' = storing \ {w}
    /\ UNCHANGED <<disk, worker, reported>>
-----------------------------------------------------------------------------
\* GetFileSize2(): the size, "-1" for a name the server does not have (now), or no
\* response at all.
GetFileSize(w) ==
    /\ At(w, "filesize")
    /\ \E answer \in {"size", "-1", "no response"} :
          IF answer = "no response" /\ AssertFails(FALSE)
          THEN DieIn("abort")
          ELSE /\ Goto(w, IF answer = "size" THEN "exists" ELSE "report")
               /\ UNCHANGED <<disk, link>>

Exists(w) ==
    /\ At(w, "exists")
    /\ IF Local(w).exists THEN Goto(w, "size") ELSE StartFrom(w, 0)
    /\ UNCHANGED <<disk, link>>

CompareSize(w) ==
    /\ At(w, "size")
    /\ IF ~Local(w).exists
       THEN DieIn("terminate")
       ELSE /\ \/ Local(w).len = Want(w) /\ Goto(w, "md5")
               \/ Local(w).len > Want(w) /\ Goto(w, "remove")
               \/ Local(w).len < Want(w) /\ StartFrom(w, Local(w).len)
            /\ UNCHANGED <<disk, link>>

\* Mutant: the bad file stays, as it does in the self-updater.
CheckMd5Keeping(w) ==
    /\ At(w, "md5") /\ Local(w).exists
    /\ IF Md5Good(Local(w), Pkg(w)) THEN NextPackage(w) ELSE StartFrom(w, Want(w))
    /\ UNCHANGED <<disk, link>>

CheckMd5(w) ==
    /\ At(w, "md5")
    /\ IF ~Local(w).exists
       THEN DieIn("segv")
       ELSE /\ IF Md5Good(Local(w), Pkg(w)) THEN NextPackage(w) ELSE Goto(w, "remove")
            /\ UNCHANGED <<disk, link>>

RemoveBad(w) ==
    /\ At(w, "remove")
    /\ files' = [files EXCEPT ![Path(w)] = NoFile]
    /\ Goto(w, "removed")
    /\ UNCHANGED <<xfer, process, link>>

\* assert(!boostfs::exists(local))
Removed(w) ==
    /\ At(w, "removed")
    /\ IF AssertFails(~Local(w).exists)
       THEN DieIn("abort")
       ELSE StartFrom(w, 0) /\ UNCHANGED <<disk, link>>

\* DownloadPackage(), whose own assert(current_size < size) is the first of
\* DownloadFrom()'s.
Download(w) ==
    /\ At(w, "download")
    /\ DownloadFrom(w, Pkg(w), worker[w].current) \/ Transfer(w, Pkg(w))
    /\ UNCHANGED <<worker, link>>

\* Whatever DownloadFrom() returned, the size of the file decides.
MeasureDownload(w) ==
    /\ At(w, "download") /\ xfer[w].phase \in {"ok", "failed"}
    /\ IF ~Local(w).exists
       THEN DieIn("terminate")
       ELSE /\ worker' = [worker EXCEPT ![w].pc = "measured", ![w].repeat = @ + 1,
                                        ![w].success = Local(w).len = Want(w)]
            /\ xfer' = [xfer EXCEPT ![w] = NoTransfer]
            /\ UNCHANGED <<files, process, link>>

\* assert(current_size < size) after a failure, assert(current_size == size)
\* after a success, on a size that is read once more.
SizeAsserted(w) ==
    IF worker[w].success THEN Local(w).len = Want(w) ELSE Local(w).len < Want(w)

\* Mutant: one attempt too many.
RetryOnceMore(w) ==
    worker' = [worker EXCEPT
        ![w].pc = IF worker[w].success THEN "verify"
                  ELSE IF worker[w].repeat <= MAX_REPEAT_DOWNLOAD_COUNT
                  THEN "download" ELSE "report",
        ![w].current = Local(w).len]

\* Mutant: the loop ends in success only, with its counter capped.
RetryForever(w) ==
    worker' = [worker EXCEPT
        ![w].pc = IF worker[w].success THEN "verify" ELSE "download",
        ![w].repeat = 0,
        ![w].current = Local(w).len]

Retry(w) ==
    worker' = [worker EXCEPT
        ![w].pc = IF worker[w].success THEN "verify"
                  ELSE IF worker[w].repeat < MAX_REPEAT_DOWNLOAD_COUNT
                  THEN "download" ELSE "report",
        ![w].current = Local(w).len]

JudgeDownload(w) ==
    /\ At(w, "measured")
    /\ IF ~Local(w).exists
       THEN DieIn("terminate")
       ELSE IF AssertFails(SizeAsserted(w))
       THEN DieIn("abort")
       ELSE Retry(w) /\ UNCHANGED <<disk, link>>

\* Mutant: the size is enough.
VerifyNothing(w) ==
    /\ At(w, "verify")
    /\ NextPackage(w)
    /\ UNCHANGED <<disk, link>>

Verify(w) ==
    /\ At(w, "verify")
    /\ IF ~Local(w).exists
       THEN DieIn("segv")
       ELSE /\ IF Md5Good(Local(w), Pkg(w)) THEN NextPackage(w) ELSE Goto(w, "report")
            /\ UNCHANGED <<disk, link>>
-----------------------------------------------------------------------------
\* HandlePackages(): the call "PackageReady" goes out...
CallPackageReady(w) ==
    /\ At(w, "ready")
    /\ Goto(w, "called")
    /\ UNCHANGED <<disk, link>>

\* ...and is answered true, answered false, or throws what nobody catches.
PackageReadyReturns(w) ==
    /\ At(w, "called")
    /\ \/ \E success \in BOOLEAN :
             IF AssertFails(success)
             THEN DieIn("abort")
             ELSE Goto(w, "end") /\ UNCHANGED <<disk, link>>
       \/ DieIn("terminate")

\* A DLCStatusReport, whose constructor discards the error and the manifest that the
\* global holds now.
SendReport(w) ==
    /\ At(w, "report")
    /\ reported' = reported \cup {w}
    /\ Goto(w, "end")
    /\ UNCHANGED <<disk, L1_Manifest, storing>>
-----------------------------------------------------------------------------
Killed == Up /\ DieIn("killed")

Restart ==
    /\ ~Up
    /\ process' = "up"
    /\ files' = [f \in Files |-> [files[f] EXCEPT !.writers = {}]]
    /\ xfer' = [w \in Workers |-> NoTransfer]
    /\ worker' = [w \in Workers |-> [worker[w] EXCEPT !.pc =
                    IF Active(w) THEN "lost" ELSE IF @ = "called" THEN "end" ELSE @]]
    /\ L1_Manifest' = None
    /\ storing' = {}
    /\ UNCHANGED reported

Handle(w) == Ignore(w) \/ Refuse(w) \/ Accept(w)

Work(w) ==
    \/ GetFileSize(w) \/ Exists(w) \/ CompareSize(w) \/ CheckMd5(w)
    \/ RemoveBad(w) \/ Removed(w) \/ Download(w) \/ MeasureDownload(w)
    \/ JudgeDownload(w) \/ Verify(w) \/ CallPackageReady(w)
    \/ PackageReadyReturns(w) \/ SendReport(w)

Next ==
    \/ \E w \in Workers : Handle(w) \/ StoreManifest(w) \/ Work(w)
    \/ Killed
    \/ Restart

\* Threads keep being scheduled and time-outs end every call and transfer.
Fairness == \A w \in Workers : WF_vars(Work(w)) /\ WF_vars(StoreManifest(w))

Spec == Init /\ [][Next]_vars
LiveSpec == Spec /\ Fairness
-----------------------------------------------------------------------------
Labels ==
    {"idle", "filesize", "exists", "size", "md5", "remove", "removed", "download",
     "measured", "verify", "ready", "called", "report", "end", "ignored",
     "lost"}

\* Every variable keeps its type.
TypeOK ==
    /\ HttpsTypeOK
    /\ worker \in [Workers ->
          [pc : Labels, at : Nat \ {0}, current : Nat,
           repeat : 0..MAX_REPEAT_DOWNLOAD_COUNT, success : BOOLEAN]]
    /\ L1_Manifest \in Workers \cup {None}
    /\ storing \subseteq Workers
    /\ reported \subseteq Workers

Good(p) == Md5Good(files[LocalFile[p]], p)

CallsPackageReady(w) == worker[w].pc = "ready" /\ worker'[w].pc = "called"

\* "PackageReady" is called only while every package of the manifest is on disk
\* and good (main.cpp:41-46, dlc-proxy-public.h:15): what was verified early is
\* still good when the last package has come.
PackageReadyIsTrue ==
    [][\A w \in Workers : CallsPackageReady(w) => \A p \in PackagesOf(w) : Good(p)]_vars

\* While a request is at its n-th package the ones before it stay good, whatever
\* the other threads do to their own files (downloadclient.cpp:66-155).
EarlierPackagesStayGood ==
    \A w \in Workers : Active(w) =>
        \A i \in 1..(worker[w].at - 1) : Good(Manifest[w][i])

\* Bytes that do not belong there have made the file longer than the package: those of
\* an error answer, or of a whole package that came in place of a range.
Overshot(w) == ~worker[w].success /\ Local(w).of = Garbage /\ Local(w).len > Want(w)

\* The assertions of the download loop (downloadclient.cpp:93, 101, 116, 122, 124,
\* 139) hold unless the bytes of an error answer, or of a whole package in place of
\* the asked range, overshoot the package, which the loop cannot mend: a file that is
\* to be resumed is never complete, and never exceeds the package by bytes of its
\* own.  Checked in the release build, which goes on where the debug build ends, it
\* covers what the debug build never reaches.
LoopAssertionsHold ==
    \A w \in Workers :
        /\ At(w, "removed") => ~Local(w).exists
        /\ At(w, "download") /\ xfer[w].phase = "idle" =>
              worker[w].current < Want(w) \/ Overshot(w)
        /\ At(w, "measured") => SizeAsserted(w) \/ Overshot(w)

\* Every accepted request ends in a call to the orchestrator or a report to the
\* cloud, unless the process dies first (main.cpp:31-55).
Concluded ==
    \A w \in Workers : Active(w) ~> (worker[w].pc \in {"called", "end"} \/ ~Up)

JobState(w) ==
    CASE worker[w].pc \in {"idle", "ignored"} -> "new"
      [] worker[w].pc = "lost" -> "lost"
      [] Active(w) -> IF Up THEN "running" ELSE "lost"
      [] OTHER -> IF w \in reported THEN "failed" ELSE "delivered"

Delivery == INSTANCE FileDelivery WITH
    Jobs <- Workers,
    Wanted <- [w \in Workers |-> PackagesOf(w)],
    job <- [w \in Workers |-> JobState(w)],
    good <- {p \in Packages : Good(p)}

\* The DLC is a file delivery: a request is delivered only when its packages are
\* all good, a good package stays good, and a request ends once.
Delivers == Delivery!Spec

=============================================================================
