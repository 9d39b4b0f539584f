----------------------- MODULE SelfUpdaterDirtyProofs -----------------------
(***************************************************************************)
(* What the self-updater can be trusted with outside of the clean setting, *)
(* from any leftover and with any error bodies: with a server that honours *)
(* ranges the debug build says eDONE of a file of the announced size only, *)
(* though of its bytes the assertions say nothing, and with any server     *)
(* either build keeps what has come complete.                              *)
(***************************************************************************)
EXTENDS SelfUpdaterProofs

\* The debug build, one request at a time for a file, and a server that answers a
\* range with that range: the whole file in its place would be appended and its
\* status 200 taken for success (https_download.cpp:215-216).
Debug == ~NDEBUG /\ OnePerFile /\ RANGES

\* The next byte of a good answer is the next byte of the file, and what is still to
\* come is what is missing, although nobody knows what the bytes of the file are.
Counts(w, r, x, f) ==
    /\ r.pc # "download" => x.phase = "idle"
    /\ r.pc = "download" /\ x.phase = "idle" => r.from = f.len
    /\ r.pc \in {"md5", "report"} => f.len = Want(w)
    /\ x.phase = "body" => f.exists /\ w \in f.writers
    /\ x.phase = "body" /\ x.good => x.pos = f.len /\ x.pos + x.left = Want(w)
    /\ x.phase = "ok" => f.len = Want(w)

GoneIsEmpty == \A f \in Files : ~files[f].exists => files[f].len = 0

ExactInv ==
    /\ TypeInv
    /\ OneWorkerPerFile
    /\ GoneIsEmpty
    /\ \A w \in Workers : Counts(w, worker[w], xfer[w], files[Path(w)])

\* A step of one thread, with a new record r, transfer x and file g of its own.
LEMMA ExactStep ==
    ASSUME ExactInv, TypeInv', NEW w \in Workers, NEW r, NEW x, NEW g,
           \A v \in Workers \ {w} : Active(v) => Path(v) # Path(w),
           worker' = [worker EXCEPT ![w] = r], xfer' = [xfer EXCEPT ![w] = x],
           files' = [files EXCEPT ![Path(w)] = g],
           ~g.exists => g.len = 0, Counts(w, r, x, g)
    PROVE  ExactInv'
<1>0. /\ worker \in [Workers -> WorkerStates] /\ xfer \in [Workers -> Transfers]
      /\ files \in [Files -> FileStates] /\ Path(w) \in Files
  BY RequestFacts DEF ExactInv, TypeInv, TypeOK, HttpsTypeOK
<1>1. worker'[w] = r /\ xfer'[w] = x /\ files'[Path(w)] = g
  BY <1>0
<1>2. \A v \in Workers \ {w} : worker'[v] = worker[v] /\ xfer'[v] = xfer[v]
  BY <1>0
<1>3. \A v \in Workers : Path(v)' = Path(v) /\ Want(v)' = Want(v)
  BY DEF Path, Want
<1>4. OneWorkerPerFile'
  BY <1>2, <1>3 DEF ExactInv, OneWorkerPerFile, Active
<1>5. GoneIsEmpty'
  BY <1>0, <1>1 DEF ExactInv, GoneIsEmpty
<1>6. ASSUME NEW v \in Workers PROVE Counts(v, worker'[v], xfer'[v], files'[Path(v)])
  <2>1. CASE v = w
    BY <1>1, <2>1
  <2>2. CASE v # w /\ Active(v)
    <3>1. files'[Path(v)] = files[Path(v)]
      BY <1>0, <2>2, RequestFacts DEF ExactInv
    <3> QED
      BY <1>2, <2>2, <3>1 DEF ExactInv
  <2>3. CASE v # w /\ ~Active(v)
    <3>1. Counts(v, worker[v], xfer[v], files[Path(v)]) /\ worker[v].pc \in {"idle", "end", "lost"}
      BY <2>3 DEF ExactInv, Active
    <3> QED
      BY <1>2, <2>3, <3>1 DEF Counts
  <2> QED
    BY <2>1, <2>2, <2>3
<1> QED
  BY <1>3, <1>4, <1>5, <1>6 DEF ExactInv, Counts

\* The end of the process touches no file, no transfer and no thread.
LEMMA ExactDeath ==
    ASSUME ExactInv, TypeInv', UNCHANGED <<files, xfer, worker>>
    PROVE  ExactInv'
BY DEF ExactInv, OneWorkerPerFile, Active, Path, GoneIsEmpty, Counts, Want

\* A transfer keeps its count: the debug build ends where it would lose it.
LEMMA ExactDownload ==
    ASSUME ExactInv, TypeInv', Debug, NEW w \in Workers, Download(w)
    PROVE  ExactInv'
<1> DEFINE f == files[Path(w)]
           x == xfer[w]
           p == Request[w]
<1>0. /\ worker \in [Workers -> WorkerStates] /\ xfer \in [Workers -> Transfers]
      /\ files \in [Files -> FileStates] /\ Path(w) \in Files /\ Path(w) = LocalFile[p]
      /\ f \in FileStates /\ f.len \in Nat /\ x \in Transfers /\ x.pos \in Nat /\ x.left \in Nat
      /\ Want(w) \in Nat /\ Want(w) = Size[p] /\ worker[w].from \in Nat
  <2>1. /\ worker \in [Workers -> WorkerStates] /\ xfer \in [Workers -> Transfers]
        /\ files \in [Files -> FileStates] /\ Path(w) \in Files /\ Want(w) \in Nat
    BY RequestFacts DEF ExactInv, TypeInv, TypeOK, HttpsTypeOK
  <2>2. f \in FileStates /\ x \in Transfers /\ worker[w] \in WorkerStates
    BY <2>1
  <2> QED
    BY <2>1, <2>2 DEF FileStates, Transfers, WorkerStates, Path, Want
<1>1. /\ worker[w].pc = "download" /\ worker' = worker
      /\ DownloadFrom(w, p, worker[w].from) \/ Transfer(w, p)
      /\ Counts(w, worker[w], x, f)
      /\ ~f.exists => f.len = 0
  BY <1>0 DEF Download, At, ExactInv, GoneIsEmpty
<1>2. \A v \in Workers \ {w} : Active(v) => Path(v) # Path(w)
  BY <1>1 DEF ExactInv, OneWorkerPerFile, Active
<1>3. ASSUME NEW y, NEW g, files' = [files EXCEPT ![Path(w)] = g],
             xfer' = [xfer EXCEPT ![w] = y], ~g.exists => g.len = 0,
             Counts(w, worker[w], y, g)
      PROVE  ExactInv'
  <2>1. worker' = [worker EXCEPT ![w] = worker[w]]
    BY <1>0, <1>1
  <2> QED
    BY <1>2, <1>3, <2>1, ExactStep
<1>4. ASSUME NEW cause, Die(cause) PROVE ExactInv'
  BY <1>1, <1>4, ExactDeath DEF Die
<1>5. CASE DownloadFrom(w, p, worker[w].from) /\ ~Die("abort")
  <2>1. /\ worker[w].from + 1 < Size[p] /\ x.phase = "idle"
        /\ files' = [files EXCEPT ![Path(w)] = Opened(f, w)]
    BY <1>0, <1>5 DEF DownloadFrom, AssertFails, RangeAsserted, Debug
  <2>2. PICK a \in Answers(p, worker[w].from) : xfer' = [xfer EXCEPT ![w] = a]
    BY <1>0, <1>5 DEF DownloadFrom
  <2>3. worker[w].from = f.len
    BY <1>1, <2>1 DEF Counts
  <2>4. worker[w].from < Size[p] /\ f.len + (Size[p] - f.len) = Size[p]
    BY <1>0, <2>1
  <2>5. /\ a.phase = "body"
        /\ a.good => a.pos = f.len /\ a.pos + a.left = Want(w)
    <3>1. a = Partial(p, f.len) \/ a \in Errors
      BY <1>0, <2>2, <2>3, <2>4, AnswerKinds, RequestFacts DEF Debug, ExactInv
    <3>2. CASE a = Partial(p, f.len)
      BY <1>0, <2>4, <3>2 DEF Partial, Answer
    <3>3. CASE a \in Errors
      BY <3>3 DEF Errors, Answer
    <3> QED
      BY <3>1, <3>2, <3>3
  <2>6. /\ Opened(f, w).len = f.len /\ Opened(f, w).exists /\ w \in Opened(f, w).writers
    BY <1>0 DEF Opened, FileStates
  <2>7. Counts(w, worker[w], a, Opened(f, w))
    BY <1>1, <2>5, <2>6 DEF Counts
  <2> QED
    BY <1>3, <2>1, <2>2, <2>6, <2>7
<1>6. CASE Receive(w, p) /\ ~Die("sigfpe")
  <2> DEFINE g == Written(f, w, x.content, x.pos)
             i == x.pos + 1
             j == x.left - 1
             y == [x EXCEPT !.pos = i, !.left = j]
  <2>1. /\ files' = [files EXCEPT ![Path(w)] = g]
        /\ xfer' = [xfer EXCEPT ![w] = y]
        /\ x.phase = "body" /\ x.left > 0
    BY <1>0, <1>6 DEF Receive
  <2>2. f.exists /\ w \in f.writers
        /\ (x.good => x.pos = f.len /\ x.pos + x.left = Want(w))
    BY <1>1, <2>1 DEF Counts
  <2>3. g.len = f.len + 1 /\ g.exists /\ g.writers = f.writers
    BY <1>0, <2>2 DEF Written, FileStates
  <2>4. i + j = x.pos + x.left
    BY <1>0
  <2>5. x.pos = f.len => i = f.len + 1
    OBVIOUS
  <2> HIDE DEF i, j, g
  <2>6. y.phase = "body" /\ y.good = x.good /\ y.pos = i /\ y.left = j
    BY <1>0, <2>1 DEF Transfers
  <2> HIDE DEF y
  <2>7. Counts(w, worker[w], y, g)
    BY <1>1, <2>2, <2>3, <2>4, <2>5, <2>6 DEF Counts
  <2> QED
    BY <1>3, <2>1, <2>3, <2>7
<1>7. CASE Complete(w, p)
  <2> DEFINE phase == IF x.good THEN "ok" ELSE "failed"
             y == [x EXCEPT !.phase = phase]
  <2>1. /\ files' = [files EXCEPT ![Path(w)] = Closed(f, w)]
        /\ xfer' = [xfer EXCEPT ![w] = y]
        /\ x.phase = "body" /\ x.left = 0
    BY <1>0, <1>7 DEF Complete, Finish
  <2>2. Closed(f, w).len = f.len /\ Closed(f, w).exists = f.exists
    BY <1>0 DEF Closed, FileStates
  <2>3. x.good => f.len = Want(w)
    BY <1>0, <1>1, <2>1 DEF Counts
  <2>4. y.phase = phase
    BY <1>0 DEF Transfers
  <2>5. phase \in {"ok", "failed"} /\ (phase = "ok" => x.good)
    OBVIOUS
  <2> HIDE DEF phase, y
  <2>6. Counts(w, worker[w], y, Closed(f, w))
    BY <1>1, <2>2, <2>3, <2>4, <2>5 DEF Counts
  <2> QED
    BY <1>1, <1>3, <2>1, <2>2, <2>6
<1>8. CASE Interrupted(w, p)
  BY <1>4, <1>8 DEF Interrupted, AssertFails, Debug
<1> QED
  BY <1>1, <1>4, <1>5, <1>6, <1>7, <1>8 DEF Transfer

\* Every step keeps the counts (updaterwrapper.cpp:262-336).
LEMMA ExactNext == Debug /\ ExactInv /\ [Next]_vars => ExactInv'
<1> SUFFICES ASSUME Debug, ExactInv, [Next]_vars PROVE ExactInv'
  OBVIOUS
<1>0. /\ worker \in [Workers -> WorkerStates] /\ xfer \in [Workers -> Transfers]
      /\ files \in [Files -> FileStates] /\ TypeInv'
  BY TypeNext DEF ExactInv, TypeInv, TypeOK, HttpsTypeOK
<1>1. ASSUME NEW w \in Workers
      PROVE  /\ Counts(w, worker[w], xfer[w], files[Path(w)])
             /\ ~Local(w).exists => Local(w).len = 0
             /\ Local(w) = files[Path(w)] /\ Path(w) \in Files
  BY RequestFacts DEF ExactInv, GoneIsEmpty, Local
<1>2. ASSUME NEW cause, DieIn(cause) PROVE ExactInv'
  BY <1>0, <1>2, ExactDeath DEF DieIn, Die
\* A thread that leaves the files alone and is in no transfer afterwards.
<1>3. ASSUME NEW w \in Workers, NEW r, worker' = [worker EXCEPT ![w] = r],
             UNCHANGED files, NEW x, xfer' = [xfer EXCEPT ![w] = x], x.phase = "idle",
             \A v \in Workers \ {w} : Active(v) => Path(v) # Path(w),
             r.pc = "download" => r.from = Local(w).len,
             r.pc \in {"md5", "report"} => Local(w).len = Want(w)
      PROVE  ExactInv'
  <2>1. files' = [files EXCEPT ![Path(w)] = files[Path(w)]]
    BY <1>0, <1>1, <1>3
  <2>2. Counts(w, r, x, files[Path(w)])
    BY <1>1, <1>3 DEF Counts
  <2> QED
    BY <1>0, <1>1, <1>3, <2>1, <2>2, ExactStep
<1>4. ASSUME NEW w \in Workers, NEW label, Goto(w, label), UNCHANGED <<files, xfer>>,
             worker[w].pc # "download", label # "download",
             \A v \in Workers \ {w} : Active(v) => Path(v) # Path(w),
             label \in {"md5", "report"} => Local(w).len = Want(w)
      PROVE  ExactInv'
  <2> DEFINE r == [worker[w] EXCEPT !.pc = label]
  <2>1. worker' = [worker EXCEPT ![w] = r] /\ r.pc = label
    BY <1>0, <1>4 DEF Goto, WorkerStates
  <2>2. xfer' = [xfer EXCEPT ![w] = xfer[w]] /\ xfer[w].phase = "idle"
    BY <1>0, <1>1, <1>4 DEF Counts
  <2> HIDE DEF r
  <2> QED
    BY <1>3, <1>4, <2>1, <2>2
<1>5. ASSUME NEW w \in Workers, NEW n, StartFrom(w, n), UNCHANGED <<files, xfer>>,
             worker[w].pc # "download", Active(w), n = Local(w).len
      PROVE  ExactInv'
  <2> DEFINE r == [worker[w] EXCEPT !.pc = "download", !.from = n]
  <2>1. worker' = [worker EXCEPT ![w] = r] /\ r.pc = "download" /\ r.from = n
    BY <1>0, <1>5 DEF StartFrom, WorkerStates
  <2>2. xfer' = [xfer EXCEPT ![w] = xfer[w]] /\ xfer[w].phase = "idle"
    BY <1>0, <1>1, <1>5 DEF Counts
  <2>3. \A v \in Workers \ {w} : Active(v) => Path(v) # Path(w)
    BY <1>5 DEF ExactInv, OneWorkerPerFile
  <2> HIDE DEF r
  <2> QED
    BY <1>3, <1>5, <2>1, <2>2, <2>3
<1>6. ASSUME NEW w \in Workers, NEW result, Publish(w, result), UNCHANGED <<files, xfer>>,
             worker[w].pc # "download", Active(w)
      PROVE  ExactInv'
  <2> DEFINE r == [worker[w] EXCEPT !.pc = "end", !.result = result]
  <2>1. worker' = [worker EXCEPT ![w] = r] /\ r.pc = "end"
    BY <1>0, <1>6 DEF Publish, WorkerStates
  <2>2. xfer' = [xfer EXCEPT ![w] = xfer[w]] /\ xfer[w].phase = "idle"
    BY <1>0, <1>1, <1>6 DEF Counts
  <2>3. \A v \in Workers \ {w} : Active(v) => Path(v) # Path(w)
    BY <1>6 DEF ExactInv, OneWorkerPerFile
  <2> HIDE DEF r
  <2> QED
    BY <1>3, <1>6, <2>1, <2>2, <2>3
<1>7. ASSUME NEW w \in Workers, Active(w)
      PROVE  \A v \in Workers \ {w} : Active(v) => Path(v) # Path(w)
  BY <1>7 DEF ExactInv, OneWorkerPerFile
<1>8. ASSUME NEW w \in Workers, Distribute(w) PROVE ExactInv'
  <2>1. \A v \in Workers \ {w} : Active(v) => Path(v) # Path(w)
    BY <1>8 DEF Distribute, Debug
  <2> QED
    BY <1>4, <1>8, <2>1 DEF Distribute, At
<1>9. ASSUME NEW w \in Workers, Exists(w) PROVE ExactInv'
  <2>1. worker[w].pc = "exists" /\ Active(w) /\ UNCHANGED <<files, xfer>>
        /\ (Goto(w, "size") \/ (StartFrom(w, 0) /\ ~Local(w).exists))
    BY <1>9 DEF Exists, At, Active
  <2> QED
    BY <1>1, <1>4, <1>5, <1>7, <2>1
<1>10. ASSUME NEW w \in Workers, CompareSize(w) PROVE ExactInv'
  <2>1. worker[w].pc = "size" /\ Active(w)
        /\ \/ DieIn("terminate")
           \/ /\ UNCHANGED <<files, xfer>>
              /\ \/ Goto(w, "md5") /\ Local(w).len = Want(w)
                 \/ Goto(w, "remove")
                 \/ StartFrom(w, Local(w).len)
    BY <1>10 DEF CompareSize, At, Active
  <2> QED
    BY <1>2, <1>4, <1>5, <1>7, <2>1
<1>11. ASSUME NEW w \in Workers, CheckMd5(w) PROVE ExactInv'
  <2>1. worker[w].pc = "md5" /\ Active(w)
        /\ \/ DieIn("segv")
           \/ /\ UNCHANGED <<files, xfer>>
              /\ Publish(w, "done") \/ StartFrom(w, Want(w))
    BY <1>11 DEF CheckMd5, At, Active
  <2>2. Local(w).len = Want(w)
    BY <1>1, <2>1 DEF Counts
  <2> QED
    BY <1>2, <1>5, <1>6, <2>1, <2>2
<1>12. ASSUME NEW w \in Workers, RemoveOversized(w) PROVE ExactInv'
  <2>1. CASE DieIn("abort")
    BY <1>2, <2>1
  <2>2. CASE ~DieIn("abort")
    <3> DEFINE r == [worker[w] EXCEPT !.pc = "download", !.from = 0]
    <3>1. /\ worker[w].pc = "remove" /\ Active(w) /\ UNCHANGED xfer
          /\ files' = [files EXCEPT ![Path(w)] = NoFile]
          /\ worker' = [worker EXCEPT ![w] = r] /\ r.pc = "download" /\ r.from = 0
      BY <1>0, <1>12, <2>2 DEF RemoveOversized, At, Active, StartFrom, WorkerStates
    <3>2. xfer' = [xfer EXCEPT ![w] = xfer[w]] /\ xfer[w].phase = "idle"
      BY <1>0, <1>1, <3>1 DEF Counts
    <3>3. NoFile.len = 0
      BY DEF NoFile
    <3> HIDE DEF r
    <3>4. Counts(w, r, xfer[w], NoFile)
      BY <3>1, <3>2, <3>3 DEF Counts
    <3> QED
      BY <1>0, <1>7, <3>1, <3>2, <3>3, <3>4, ExactStep
  <2> QED
    BY <2>1, <2>2
<1>13. ASSUME NEW w \in Workers, Download(w) PROVE ExactInv'
  BY <1>0, <1>13, ExactDownload
<1>14. ASSUME NEW w \in Workers, DownloadSucceeds(w) PROVE ExactInv'
  <2> DEFINE n == worker[w].repeat + 1
             r == [worker[w] EXCEPT !.pc = "report", !.repeat = n]
  <2>1. /\ worker[w].pc = "download" /\ xfer[w].phase = "ok" /\ Active(w) /\ UNCHANGED files
        /\ worker' = [worker EXCEPT ![w] = r]
        /\ xfer' = [xfer EXCEPT ![w] = NoTransfer]
    BY <1>0, <1>14 DEF DownloadSucceeds, At, Active
  <2>2. Local(w).len = Want(w)
    BY <1>1, <2>1 DEF Counts
  <2> HIDE DEF n
  <2>3. r.pc = "report"
    BY <1>0 DEF WorkerStates
  <2>4. NoTransfer.phase = "idle"
    BY DEF NoTransfer
  <2>5. \A v \in Workers \ {w} : Active(v) => Path(v) # Path(w)
    BY <1>7, <2>1
  <2> HIDE DEF r
  <2> QED
    BY <1>3, <2>1, <2>2, <2>3, <2>4, <2>5
<1>15. ASSUME NEW w \in Workers, DownloadFails(w) PROVE ExactInv'
  <2>1. CASE DieIn("terminate")
    BY <1>2, <2>1
  <2>2. CASE ~DieIn("terminate")
    <3>1. /\ worker[w].pc = "download" /\ Active(w) /\ UNCHANGED files /\ Resume(w)
          /\ xfer' = [xfer EXCEPT ![w] = NoTransfer]
      BY <1>15, <2>2 DEF DownloadFails, At, Active
    <3>2. PICK r : /\ worker' = [worker EXCEPT ![w] = r]
                   /\ r.pc \in {"download", "giveup"} /\ r.from = Local(w).len
      <4> DEFINE label == IF worker[w].repeat + 1 < MAX_REPEAT_COUNT
                          THEN "download" ELSE "giveup"
                 n == worker[w].repeat + 1
                 l == Local(w).len
                 r == [worker[w] EXCEPT !.pc = label, !.repeat = n, !.from = l]
      <4>1. worker' = [worker EXCEPT ![w] = r]
        BY <1>0, <3>1 DEF Resume
      <4>2. label \in {"download", "giveup"}
        OBVIOUS
      <4> HIDE DEF label, n, l
      <4>3. r.pc = label /\ r.from = l
        BY <1>0 DEF WorkerStates
      <4> HIDE DEF r
      <4> QED
        BY <4>1, <4>2, <4>3 DEF l
    <3>3. NoTransfer.phase = "idle"
      BY DEF NoTransfer
    <3>4. \A v \in Workers \ {w} : Active(v) => Path(v) # Path(w)
      BY <1>7, <3>1
    <3> QED
      BY <1>3, <3>1, <3>2, <3>3, <3>4
  <2> QED
    BY <2>1, <2>2
<1>16. ASSUME NEW w \in Workers, Report(w) PROVE ExactInv'
  <2>1. /\ worker[w].pc \in {"report", "giveup"} /\ Active(w)
        /\ DieIn("terminate") \/ (UNCHANGED <<files, xfer>> /\ \E result : Publish(w, result))
    BY <1>16 DEF Report, Active
  <2> QED
    BY <1>2, <1>6, <2>1
<1>17. CASE Restart
  <2>1. \A f \in Files : files'[f].exists = files[f].exists /\ files'[f].len = files[f].len
    BY <1>0, <1>17 DEF Restart, FileStates
  <2>2. \A w \in Workers : worker'[w].pc \in {"idle", "end", "lost"} /\ xfer'[w].phase = "idle"
    BY <1>0, <1>17 DEF Restart, Active, WorkerStates, NoTransfer
  <2>3. GoneIsEmpty' /\ OneWorkerPerFile'
    BY <2>1, <2>2 DEF ExactInv, GoneIsEmpty, OneWorkerPerFile, Active
  <2>4. \A w \in Workers : Counts(w, worker[w], xfer[w], files[Path(w)])'
    BY <2>2 DEF Counts
  <2> QED
    BY <1>0, <2>3, <2>4 DEF ExactInv
<1>18. CASE UNCHANGED vars
  BY <1>0, <1>18, ExactDeath DEF vars
<1> QED
  BY <1>2, <1>8, <1>9, <1>10, <1>11, <1>12, <1>13, <1>14, <1>15, <1>16, <1>17, <1>18
     DEF Next, Work, Killed

\* In the debug build eDONE is published only over a file of the announced size,
\* whatever was left there and whatever errors come, if the server answers a range
\* with that range (updaterwrapper.cpp:265-328, https_download.cpp:144-151, 228).
THEOREM DebugDoneIsExact == Debug => (Spec => DoneIsExact)
<1> SUFFICES ASSUME Debug PROVE Spec => DoneIsExact
  OBVIOUS
<1>1. Init => ExactInv
  <2> SUFFICES ASSUME Init PROVE ExactInv
    OBVIOUS
  <2>1. \A w \in Workers : worker[w].pc = "idle" /\ xfer[w].phase = "idle"
    BY DEF Init, Waiting, NoTransfer
  <2>2. GoneIsEmpty
    BY LeftoversAssumption DEF Init, GoneIsEmpty
  <2> QED
    BY <2>1, <2>2, TypeInit DEF ExactInv, OneWorkerPerFile, Active, Counts
<1>2. ExactInv /\ [Next]_vars => ExactInv'
  BY ExactNext
<1>3. ASSUME ExactInv, [Next]_vars, NEW w \in Workers, PublishesDone(w)
      PROVE  Local(w)'.len = Want(w)
  <2>1. TypeInv /\ Counts(w, worker[w], xfer[w], Local(w))
    BY <1>3 DEF ExactInv, Local
  <2>2. Local(w).len = Want(w)
    <3>1. CASE worker[w].pc = "report"
      BY <2>1, <3>1 DEF Counts
    <3>2. CASE Md5Good(Local(w), Request[w])
      BY <3>2 DEF Md5Good, Want
    <3> QED
      BY <1>3, <2>1, <3>1, <3>2, WhoPublishes
  <2>3. files' = files
    BY <1>3, <2>1, WhoPublishes
  <2> QED
    BY <2>2, <2>3 DEF Local, Path
<1>4. ExactInv /\ [Next]_vars =>
         [\A w \in Workers : PublishesDone(w) => Local(w)'.len = Want(w)]_vars
  BY <1>3
<1> QED
  BY <1>1, <1>2, <1>4, PTL DEF Spec, DoneIsExact

-----------------------------------------------------------------------------
\* Each package has a local file of its own, and each file one request at a time.
SeparateFiles == OnePerFile /\ \A p, q \in Packages : LocalFile[p] = LocalFile[q] => p = q

\* A thread removes, or downloads over, a bad file only: a good one is said eDONE of
\* at once (updaterwrapper.cpp:265-276).
Spares(w) ==
    /\ worker[w].pc # "download" => xfer[w].phase = "idle"
    /\ worker[w].pc = "remove" => ~Md5Good(Local(w), Request[w])
    /\ worker[w].pc = "download" => Fetches(w, Request[w])

SpareInv ==
    /\ TypeInv
    /\ OneWorkerPerFile
    /\ GoneIsEmpty
    /\ \A w \in Workers : Spares(w)

\* A step of one thread leaves the others, and their files, alone.
LEMMA OthersAreSpared ==
    ASSUME SpareInv, NEW v \in Workers, NEW w \in Workers, v # w, Distribute(v) \/ Work(v)
    PROVE  /\ worker'[w] = worker[w] /\ xfer'[w] = xfer[w]
           /\ Active(w) => files'[Path(w)] = files[Path(w)]
<1>0. /\ worker \in [Workers -> WorkerStates] /\ xfer \in [Workers -> Transfers]
      /\ files \in [Files -> FileStates] /\ Path(v) \in Files /\ Path(w) \in Files
  BY RequestFacts DEF SpareInv, TypeInv, TypeOK, HttpsTypeOK
<1>1. worker'[w] = worker[w]
  BY <1>0 DEF Distribute, Work, Exists, CompareSize, CheckMd5, RemoveOversized, Download,
     DownloadSucceeds, DownloadFails, Report, DieIn, Goto, StartFrom, Publish, Resume
<1>2. CASE Download(v) \/ RemoveOversized(v)
  <2>1. Active(v)
    BY <1>2 DEF Download, RemoveOversized, At, Active
  <2>2. UNCHANGED files \/ \E g : files' = [files EXCEPT ![Path(v)] = g]
    BY <1>2 DEF Download, RemoveOversized, DownloadFrom, Transfer, Receive, Complete,
       Interrupted, Finish, Die, DieIn, Path
  <2>3. xfer'[w] = xfer[w]
    BY <1>0, <1>2 DEF Download, RemoveOversized, DownloadFrom, Transfer, Receive, Complete,
       Interrupted, Finish, Die, DieIn
  <2>4. Active(w) => Path(v) # Path(w)
    BY <2>1 DEF SpareInv, OneWorkerPerFile
  <2> QED
    BY <1>0, <1>1, <2>2, <2>3, <2>4
<1>3. CASE ~Download(v) /\ ~RemoveOversized(v)
  <2>1. UNCHANGED files
    BY <1>3 DEF Distribute, Work, Exists, CompareSize, CheckMd5, DownloadSucceeds,
       DownloadFails, Report, DieIn, Die
  <2>2. xfer'[w] = xfer[w]
    BY <1>0, <1>3 DEF Distribute, Work, Exists, CompareSize, CheckMd5, DownloadSucceeds,
       DownloadFails, Report, DieIn, Die
  <2> QED
    BY <1>1, <2>1, <2>2
<1> QED
  BY <1>2, <1>3

\* What a thread knows depends on its own record, transfer and file alone.
LEMMA SparesTheSame ==
    ASSUME NEW w \in Workers, Spares(w), worker'[w] = worker[w], xfer'[w] = xfer[w],
           Active(w) => files'[Path(w)] = files[Path(w)]
    PROVE  Spares(w)'
<1>1. Path(w)' = Path(w) /\ Path(w) = LocalFile[Request[w]]
  BY DEF Path
<1>2. worker[w].pc \in {"remove", "download"} => Local(w)' = Local(w)
  BY <1>1 DEF Local, Active
<1>3. CASE worker[w].pc = "download"
  BY <1>1, <1>3 DEF Spares, Fetches, Active
<1>4. CASE worker[w].pc # "download"
  BY <1>2, <1>4 DEF Spares
<1> QED
  BY <1>3, <1>4

\* A step of a thread keeps what it knows (updaterwrapper.cpp:262-336).
LEMMA SpareOwn ==
    ASSUME SpareInv, NEW w \in Workers, Distribute(w) \/ Work(w)
    PROVE  /\ Spares(w)'
           /\ GoneIsEmpty'
           /\ Active(w)' => Active(w) \/ Distribute(w)
           /\ \/ UNCHANGED files
              \/ /\ \E g : files' = [files EXCEPT ![Path(w)] = g]
                 /\ Md5Good(Local(w), Request[w]) => Md5Good(Local(w)', Request[w])
<1> DEFINE p == Request[w]
           f == files[Path(w)]
           Goal == /\ Spares(w)'
                   /\ GoneIsEmpty'
                   /\ Active(w)' => Active(w) \/ Distribute(w)
                   /\ \/ UNCHANGED files
                      \/ /\ \E g : files' = [files EXCEPT ![Path(w)] = g]
                         /\ Md5Good(Local(w), Request[w]) => Md5Good(Local(w)', Request[w])
<1>0. /\ worker \in [Workers -> WorkerStates] /\ xfer \in [Workers -> Transfers]
      /\ files \in [Files -> FileStates] /\ HttpsTypeOK
      /\ p \in Packages /\ Path(w) \in Files /\ Path(w) = LocalFile[p] /\ Local(w) = f
      /\ f \in FileStates /\ f.len \in Nat /\ Want(w) = Size[p] /\ Size[p] \in Nat
      /\ Size[p] > 0 /\ (~f.exists => f.len = 0)
      /\ Spares(w) /\ GoneIsEmpty
  BY RequestFacts, SizeAssumption
     DEF SpareInv, TypeInv, TypeOK, HttpsTypeOK, Path, Local, Want, GoneIsEmpty, FileStates
<1>1. Path(w)' = Path(w) /\ Local(w)' = files'[Path(w)]
  BY DEF Path, Local
<1>2. ASSUME UNCHANGED files PROVE GoneIsEmpty'
  BY <1>0, <1>2 DEF GoneIsEmpty
<1>3. ASSUME NEW cause, DieIn(cause) PROVE Goal
  <2>1. UNCHANGED <<files, xfer, worker>>
    BY <1>3 DEF DieIn, Die
  <2> QED
    BY <1>0, <1>2, <2>1, SparesTheSame DEF Active
\* A thread that is in no download afterwards, and removes what is bad.
<1>4. ASSUME UNCHANGED files, xfer'[w].phase = "idle", worker'[w].pc # "download",
             worker'[w].pc = "remove" => ~Md5Good(f, p),
             Active(w) \/ Distribute(w)
      PROVE  Goal
  BY <1>0, <1>1, <1>2, <1>4 DEF Spares
\* A thread that begins an attempt over a bad file.
<1>5. ASSUME UNCHANGED files, xfer'[w].phase = "idle", worker'[w].pc = "download",
             ~Md5Good(f, p), Active(w)
      PROVE  Goal
  BY <1>0, <1>1, <1>2, <1>5 DEF Spares, Fetches
<1>6. ASSUME NEW label, Goto(w, label) PROVE worker'[w].pc = label
  BY <1>0, <1>6 DEF Goto, WorkerStates
<1>7. ASSUME NEW n, StartFrom(w, n) PROVE worker'[w].pc = "download"
  BY <1>0, <1>7 DEF StartFrom, WorkerStates
<1>8. ASSUME NEW result, Publish(w, result) PROVE worker'[w].pc = "end"
  BY <1>0, <1>8 DEF Publish, WorkerStates
<1>9. CASE Distribute(w) \/ Exists(w)
  <2>1. /\ worker[w].pc \in {"idle", "exists"} /\ UNCHANGED <<files, xfer>>
        /\ Active(w) \/ Distribute(w)
        /\ \/ Goto(w, "exists") \/ Goto(w, "size")
           \/ StartFrom(w, 0) /\ ~f.exists /\ Active(w)
    BY <1>0, <1>9 DEF Distribute, Exists, At, Active
  <2>2. xfer'[w].phase = "idle"
    BY <1>0, <2>1 DEF Spares
  <2>3. ~f.exists => ~Md5Good(f, p)
    BY DEF Md5Good
  <2> QED
    BY <1>4, <1>5, <1>6, <1>7, <2>1, <2>2, <2>3
<1>10. CASE CompareSize(w)
  <2>1. /\ worker[w].pc = "size" /\ Active(w)
        /\ \/ DieIn("terminate")
           \/ /\ UNCHANGED <<files, xfer>>
              /\ \/ Goto(w, "md5")
                 \/ Goto(w, "remove") /\ f.len > Size[p]
                 \/ StartFrom(w, f.len) /\ f.len < Size[p]
    BY <1>0, <1>10 DEF CompareSize, At, Active
  <2>2. xfer[w].phase = "idle"
    BY <1>0, <2>1 DEF Spares
  <2>3. f.len > Size[p] \/ f.len < Size[p] => ~Md5Good(f, p)
    BY <1>0 DEF Md5Good
  <2> QED
    BY <1>3, <1>4, <1>5, <1>6, <1>7, <2>1, <2>2, <2>3
<1>11. CASE CheckMd5(w)
  <2>1. /\ worker[w].pc = "md5" /\ Active(w)
        /\ \/ DieIn("segv")
           \/ /\ UNCHANGED <<files, xfer>>
              /\ Publish(w, "done") \/ (StartFrom(w, Want(w)) /\ ~Md5Good(f, p))
    BY <1>0, <1>11 DEF CheckMd5, At, Active
  <2>2. xfer[w].phase = "idle"
    BY <1>0, <2>1 DEF Spares
  <2> QED
    BY <1>3, <1>4, <1>5, <1>7, <1>8, <2>1, <2>2
<1>12. CASE RemoveOversized(w) /\ ~DieIn("abort")
  <2>1. /\ worker[w].pc = "remove" /\ Active(w) /\ UNCHANGED xfer /\ StartFrom(w, 0)
        /\ files' = [files EXCEPT ![Path(w)] = NoFile]
    BY <1>12 DEF RemoveOversized, At, Active
  <2>2. xfer'[w].phase = "idle" /\ ~Md5Good(f, p) /\ worker'[w].pc = "download"
    BY <1>0, <1>7, <2>1 DEF Spares
  <2>3. files'[Path(w)] = NoFile /\ ~NoFile.exists /\ NoFile.len = 0
    BY <1>0, <2>1 DEF NoFile
  <2>4. GoneIsEmpty'
    BY <1>0, <2>1, <2>3 DEF GoneIsEmpty
  <2>5. Spares(w)'
    BY <1>0, <2>2, <2>3 DEF Spares, Fetches, Md5Good
  <2> QED
    BY <1>0, <2>1, <2>2, <2>4, <2>5
<1>13. CASE Download(w)
  <2>1. /\ worker[w].pc = "download" /\ worker' = worker /\ worker[w].from \in Nat
        /\ DownloadFrom(w, p, worker[w].from) \/ Transfer(w, p)
        /\ Fetches(w, p)
    BY <1>0, <1>13 DEF Download, At, Spares, WorkerStates
  <2>2. Fetches(w, p)' /\ (Md5Good(f, p) => Md5Good(files'[Path(w)], p))
    <3> DEFINE n == worker[w].from
               q == Request[w]
    <3>1. /\ n \in Nat /\ q \in Packages /\ q' = q /\ HttpsTypeOK /\ Fetches(w, q)
          /\ DownloadFrom(w, q, n) \/ Transfer(w, q)
          /\ ~files[LocalFile[q]].exists => files[LocalFile[q]].len = 0
      BY <1>0, <2>1
    <3> HIDE DEF n, q
    <3>2. Fetches(w, q)' /\ (Md5Good(files[LocalFile[q]], q) => Md5Good(files'[LocalFile[q]], q))
      BY <3>1, DownloadFetches
    <3> QED
      BY <1>0, <3>2 DEF q, Fetches
  <2>3. Spares(w)' /\ Active(w)
    BY <2>1, <2>2 DEF Spares, Active
  <2>4. \/ UNCHANGED files
        \/ files' = [files EXCEPT ![Path(w)] = Opened(f, w)]
        \/ files' = [files EXCEPT ![Path(w)] = Closed(f, w)]
        \/ /\ files' = [files EXCEPT ![Path(w)] =
                           Written(f, w, xfer[w].content, xfer[w].pos)]
           /\ f.exists
    BY <1>0, <2>1 DEF DownloadFrom, Transfer, Receive, Complete, Interrupted, Finish, Die,
       Fetches
  <2>5. /\ Opened(f, w).exists
        /\ Closed(f, w).exists = f.exists /\ Closed(f, w).len = f.len
        /\ f.exists => Written(f, w, xfer[w].content, xfer[w].pos).exists
    BY <1>0 DEF Opened, Closed, Written, FileStates
  <2>6. \/ UNCHANGED files
        \/ \E g : /\ files' = [files EXCEPT ![Path(w)] = g]
                  /\ ~g.exists => g.len = 0
    BY <1>0, <2>4, <2>5
  <2>7. GoneIsEmpty'
    BY <1>0, <2>6 DEF GoneIsEmpty
  <2> QED
    BY <1>0, <1>1, <2>2, <2>3, <2>6, <2>7
<1>14. CASE DownloadSucceeds(w)
  <2>1. /\ worker[w].pc = "download" /\ Active(w) /\ UNCHANGED files
        /\ worker'[w].pc = "report" /\ xfer'[w] = NoTransfer
    BY <1>0, <1>14 DEF DownloadSucceeds, At, Active, WorkerStates
  <2>2. NoTransfer.phase = "idle"
    BY DEF NoTransfer
  <2> QED
    BY <1>4, <2>1, <2>2
<1>15. CASE DownloadFails(w) /\ ~DieIn("terminate")
  <2>1. /\ worker[w].pc = "download" /\ Active(w) /\ UNCHANGED files
        /\ worker'[w].pc \in {"download", "giveup"} /\ xfer'[w] = NoTransfer
        /\ xfer[w].phase = "failed"
    BY <1>0, <1>15 DEF DownloadFails, Resume, At, Active, WorkerStates
  <2>2. NoTransfer.phase = "idle"
    BY DEF NoTransfer
  <2>3. ~Md5Good(f, p)
    BY <1>0, <2>1 DEF Spares, Fetches
  <2> QED
    BY <1>4, <1>5, <2>1, <2>2, <2>3
<1>16. CASE Report(w)
  <2>1. /\ worker[w].pc \in {"report", "giveup"} /\ Active(w)
        /\ DieIn("terminate") \/ (UNCHANGED <<files, xfer>> /\ \E result : Publish(w, result))
    BY <1>16 DEF Report, Active
  <2>2. xfer[w].phase = "idle"
    BY <1>0, <2>1 DEF Spares
  <2> QED
    BY <1>3, <1>4, <1>8, <2>1, <2>2
<1> QED
  BY <1>3, <1>9, <1>10, <1>11, <1>12, <1>13, <1>14, <1>15, <1>16 DEF Work

\* The invariant is inductive.
LEMMA SpareNext == SeparateFiles /\ SpareInv /\ [Next]_vars => SpareInv'
<1> SUFFICES ASSUME SeparateFiles, SpareInv, [Next]_vars PROVE SpareInv'
  OBVIOUS
<1>0. /\ TypeInv' /\ worker \in [Workers -> WorkerStates] /\ files \in [Files -> FileStates]
  BY TypeNext DEF SpareInv, TypeInv, TypeOK, HttpsTypeOK
<1>1. ASSUME UNCHANGED <<files, xfer, worker>> PROVE SpareInv'
  <2>1. OneWorkerPerFile' /\ GoneIsEmpty'
    BY <1>1 DEF SpareInv, OneWorkerPerFile, GoneIsEmpty, Active, Path
  <2> QED
    BY <1>0, <1>1, <2>1, SparesTheSame DEF SpareInv
<1>2. ASSUME NEW w \in Workers, Distribute(w) \/ Work(w) PROVE SpareInv'
  <2>1. \A v \in Workers \ {w} : Spares(v)' /\ worker'[v] = worker[v]
    BY <1>2, OthersAreSpared, SparesTheSame DEF SpareInv
  <2>2. Spares(w)' /\ GoneIsEmpty' /\ (Active(w)' => Active(w) \/ Distribute(w))
    BY <1>2, SpareOwn
  <2>3. \A v \in Workers : Path(v)' = Path(v)
    BY DEF Path
  <2>4. \A v \in Workers \ {w} : Active(v)' => Active(v)
    BY <2>1 DEF Active
  <2>5. Active(w) \/ Distribute(w) =>
            \A v \in Workers \ {w} : Active(v) => Path(v) # Path(w)
    BY DEF Distribute, SeparateFiles, SpareInv, OneWorkerPerFile
  <2>6. OneWorkerPerFile'
    BY <2>2, <2>3, <2>4, <2>5 DEF SpareInv, OneWorkerPerFile
  <2> QED
    BY <1>0, <2>1, <2>2, <2>6 DEF SpareInv
<1>3. CASE Restart
  <2>1. \A f \in Files : files'[f].exists = files[f].exists /\ files'[f].len = files[f].len
    BY <1>0, <1>3 DEF Restart, FileStates
  <2>2. \A w \in Workers : worker'[w].pc \in {"idle", "end", "lost"} /\ xfer'[w].phase = "idle"
    BY <1>0, <1>3 DEF Restart, Active, WorkerStates, NoTransfer
  <2>3. GoneIsEmpty' /\ OneWorkerPerFile'
    BY <2>1, <2>2 DEF SpareInv, GoneIsEmpty, OneWorkerPerFile, Active
  <2> QED
    BY <1>0, <2>2, <2>3 DEF SpareInv, Spares
<1> QED
  BY <1>1, <1>2, <1>3 DEF Next, Killed, DieIn, Die, vars

\* A package that has come complete is not spoilt by a later request, a retry, a death
\* or a restart, whatever the server sends, whatever was left there and in either build
\* (updaterwrapper.cpp:262-336): the bad file that the self-updater keeps is never good.
THEOREM GoodFileIsKeptAlways ==
    ASSUME SeparateFiles
    PROVE  Spec => GoodFileIsKept
<1>1. Init => SpareInv
  <2> SUFFICES ASSUME Init PROVE SpareInv
    OBVIOUS
  <2>1. \A w \in Workers : worker[w].pc = "idle" /\ xfer[w].phase = "idle"
    BY DEF Init, Waiting, NoTransfer
  <2>2. GoneIsEmpty
    BY LeftoversAssumption DEF Init, GoneIsEmpty
  <2> QED
    BY <2>1, <2>2, TypeInit DEF SpareInv, OneWorkerPerFile, Active, Spares
<1>2. SpareInv /\ [Next]_vars => SpareInv'
  BY SpareNext
<1>3. ASSUME SpareInv, [Next]_vars, NEW p \in Packages, Md5Good(files[LocalFile[p]], p)
      PROVE  Md5Good(files[LocalFile[p]], p)'
  <2>1. files \in [Files -> FileStates] /\ LocalFile[p] \in Files
    BY <1>3, LocalFileAssumption DEF SpareInv, TypeInv, TypeOK, HttpsTypeOK
  <2>2. CASE UNCHANGED files
    BY <1>3, <2>2
  <2>3. ASSUME NEW w \in Workers, Distribute(w) \/ Work(w)
        PROVE  Md5Good(files[LocalFile[p]], p)'
    <3>1. \/ UNCHANGED files
          \/ /\ \E g : files' = [files EXCEPT ![Path(w)] = g]
             /\ Md5Good(Local(w), Request[w]) => Md5Good(Local(w)', Request[w])
      BY <1>3, <2>3, SpareOwn
    <3>2. CASE Path(w) = LocalFile[p]
      <4>1. Request[w] = p
        BY <3>2, RequestAssumption DEF SeparateFiles, Path
      <4>2. Local(w) = files[LocalFile[p]] /\ Local(w)' = files'[LocalFile[p]]
        BY <3>2 DEF Local, Path
      <4>3. UNCHANGED files \/ Md5Good(files'[LocalFile[p]], p)
        BY <1>3, <3>1, <4>1, <4>2
      <4> QED
        BY <2>2, <4>3
    <3>3. CASE Path(w) # LocalFile[p]
      <4>1. files'[LocalFile[p]] = files[LocalFile[p]]
        BY <2>1, <3>1, <3>3
      <4> QED
        BY <1>3, <4>1
    <3> QED
      BY <3>2, <3>3
  <2>4. CASE Restart
    <3>1. /\ files'[LocalFile[p]].exists = files[LocalFile[p]].exists
          /\ files'[LocalFile[p]].len = files[LocalFile[p]].len
          /\ files'[LocalFile[p]].of = files[LocalFile[p]].of
      BY <2>1, <2>4 DEF Restart, FileStates
    <3> QED
      BY <1>3, <3>1 DEF Md5Good
  <2> QED
    BY <1>3, <2>2, <2>3, <2>4 DEF Next, Killed, DieIn, Die, vars
<1>4. SpareInv /\ [Next]_vars =>
         [\A p \in Packages :
             Md5Good(files[LocalFile[p]], p) => Md5Good(files[LocalFile[p]], p)']_vars
  BY <1>3
<1> QED
  BY <1>1, <1>2, <1>4, PTL DEF Spec, GoodFileIsKept

=============================================================================
