--------------------------- MODULE HttpsDownload ---------------------------
(***************************************************************************)
(* HttpsDownload::DownloadFrom(), run by many worker threads of one        *)
(* process over shared local files: one ranged GET whose body is appended  *)
(* to the file as it arrives.  The client modules extend this one; they    *)
(* call DownloadFrom and go on when the transfer is "ok" or "failed".      *)
(*                                                                         *)
(* The https server and the network are the environment: an answer is the  *)
(* asked range, the whole file (a server may ignore a range, and has to    *)
(* when its last byte precedes its first one), or an error status with a   *)
(* body of its own.  The content handler appends whatever comes; the       *)
(* status, where 200 is as good as 206, is looked at afterwards.           *)
(***************************************************************************)
EXTENDS PackageFile

CONSTANTS
    Workers,      \* download threads, one per accepted request
    Damaged,      \* packages whose bytes on the server fail their checksum
    ErrorBodies,  \* lengths of the bodies an error answer may carry
    RANGES,       \* TRUE: the server answers a range with that range,
                  \* FALSE: or with the whole file, as it likes
    NDEBUG,       \* TRUE: the release build, whose assertions are compiled out
    STEP          \* Download::step_, 100 progress marks

ASSUME DamagedAssumption == Damaged \subseteq Packages
ASSUME ErrorBodiesAssumption == ErrorBodies \subseteq Nat
ASSUME RANGESAssumption == RANGES \in BOOLEAN
ASSUME NDEBUGAssumption == NDEBUG \in BOOLEAN
ASSUME STEPAssumption == STEP \in Nat \ {0}

VARIABLES
    files,    \* [Files -> local file]
    xfer,     \* [Workers -> the transfer the worker is in]
    process   \* "up", or what ended the process

Deaths == {"abort", "terminate", "sigfpe", "segv", "killed"}

Up == process = "up"

Die(cause) == process' = cause /\ UNCHANGED <<files, xfer>>

\* assert(c) in a build that has assertions, when c does not hold.
AssertFails(c) == ~NDEBUG /\ ~c

NoTransfer ==
    [phase |-> "idle", content |-> Garbage, pos |-> 0, left |-> 0,
     total |-> 0, good |-> FALSE]

\* An answer to the GET: `good` is status 200 or 206, `pos` the number of the
\* next byte of `content`, `left` the bytes of the body still to come.
Answer(c, first, count, good) ==
    [phase |-> "body", content |-> c, pos |-> first, left |-> count,
     total |-> count, good |-> good]

Served(p) == IF p \in Damaged THEN Garbage ELSE p

Partial(p, from) == Answer(Served(p), from, Size[p] - from, TRUE)
Whole(p) == Answer(Served(p), 0, Size[p], TRUE)
Errors == {Answer(Garbage, 0, n, FALSE) : n \in ErrorBodies}

Answers(p, from) ==
    (IF from >= Size[p] THEN {Whole(p)}
     ELSE IF RANGES THEN {Partial(p, from)} ELSE {Partial(p, from), Whole(p)})
    \cup Errors

\* assert(from < size_), assert(to < size_), assert(from < to): to is size_ - 1.
RangeAsserted(p, from) == from + 1 < Size[p]

DownloadFrom(w, p, from) ==
    /\ xfer[w].phase = "idle"
    /\ IF AssertFails(RangeAsserted(p, from))
       THEN Die("abort")
       ELSE /\ files' = [files EXCEPT ![LocalFile[p]] = Opened(@, w)]
            /\ \E a \in Answers(p, from) : xfer' = [xfer EXCEPT ![w] = a]
            /\ UNCHANGED process

\* download_handler then report_progress: fwrite, then current / (total / step_),
\* which divides by zero when the body is shorter than step_ (a trap on some
\* targets, before the stream is flushed, and nothing on others).
Receive(w, p) ==
    /\ xfer[w].phase = "body" /\ xfer[w].left > 0
    /\ \/ /\ files' = [files EXCEPT ![LocalFile[p]] =
                           Written(@, w, xfer[w].content, xfer[w].pos)]
          /\ xfer' = [xfer EXCEPT ![w].pos = @ + 1, ![w].left = @ - 1]
          /\ UNCHANGED process
       \/ xfer[w].total \div STEP = 0 /\ Die("sigfpe")

Finish(w, p, phase) ==
    /\ files' = [files EXCEPT ![LocalFile[p]] = Closed(@, w)]
    /\ xfer' = [xfer EXCEPT ![w].phase = phase]
    /\ UNCHANGED process

\* The whole body has come: the status decides.
Complete(w, p) ==
    /\ xfer[w].phase = "body" /\ xfer[w].left = 0
    /\ Finish(w, p, IF xfer[w].good THEN "ok" ELSE "failed")

\* No response, or the connection lost on the way: res is null.
Interrupted(w, p) ==
    /\ xfer[w].phase = "body" /\ xfer[w].left > 0
    /\ IF AssertFails(FALSE) THEN Die("abort") ELSE Finish(w, p, "failed")

Transfer(w, p) == Receive(w, p) \/ Complete(w, p) \/ Interrupted(w, p)

-----------------------------------------------------------------------------
Phases == {"idle", "body", "ok", "failed"}

FileStates ==
    [exists : BOOLEAN, len : Nat, of : Contents, writers : SUBSET Workers]

Transfers ==
    [phase : Phases, content : Contents, pos : Nat, left : Nat, total : Nat,
     good : BOOLEAN]

HttpsTypeOK ==
    /\ files \in [Files -> FileStates]
    /\ xfer \in [Workers -> Transfers]
    /\ process \in Deaths \cup {"up"}

=============================================================================
