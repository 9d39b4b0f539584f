------------------------- MODULE SelfUpdaterProofs -------------------------
(***************************************************************************)
(* Theorems about SelfUpdater, for any number of requests, packages, bytes *)
(* and attempts.                                                           *)
(***************************************************************************)
EXTENDS SelfUpdater, HttpsDownloadProofs

-----------------------------------------------------------------------------
\* The loop is entered with every attempt left and taken again only with one
\* left (updaterwrapper.cpp:308-319).
AttemptsLeft ==
    \A w \in Workers :
        /\ worker[w].pc \in {"idle", "exists", "size", "md5", "remove"} =>
              worker[w].repeat = 0
        /\ worker[w].pc = "download" => worker[w].repeat < MAX_REPEAT_COUNT

TypeInv == TypeOK /\ AttemptsLeft

\* Type correctness holds when the process starts.
LEMMA TypeInit == Init => TypeInv
<1> SUFFICES ASSUME Init PROVE TypeInv
  OBVIOUS
<1>1. files \in [Files -> FileStates]
  BY LeftoversAssumption DEF Init, FileStates, Contents
<1>2. HttpsTypeOK
  BY <1>1, NoTransferType DEF Init, HttpsTypeOK
<1>3. worker \in [Workers -> WorkerStates] /\ AttemptsLeft
  BY MaxRepeatAssumption DEF Init, WorkerStates, Labels, Waiting, AttemptsLeft
<1> QED
  BY <1>2, <1>3 DEF TypeInv, TypeOK

\* No step of a thread, no death and no restart breaks type correctness.
LEMMA TypeNext == TypeInv /\ [Next]_vars => TypeInv'
<1> SUFFICES ASSUME TypeInv, [Next]_vars PROVE TypeInv'
  OBVIOUS
<1> USE DEF TypeInv, TypeOK, HttpsTypeOK, Path, Local, At, AttemptsLeft
<1>0. \A w \in Workers : /\ Request[w] \in Packages /\ Path(w) \in Files
                         /\ Local(w) \in FileStates /\ Local(w).len \in Nat
                         /\ Want(w) \in Nat
  BY RequestAssumption, LocalFileAssumption, SizeAssumption
     DEF FileStates, Want
<1>1. ASSUME NEW w \in Workers, Distribute(w) PROVE TypeInv'
  BY <1>1 DEF Distribute, Goto, WorkerStates, Labels
<1>2. ASSUME NEW w \in Workers, Exists(w) PROVE TypeInv'
  BY <1>2, MaxRepeatAssumption DEF Exists, Goto, StartFrom, WorkerStates, Labels
<1>3. ASSUME NEW w \in Workers, CompareSize(w) PROVE TypeInv'
  BY <1>0, <1>3, MaxRepeatAssumption
     DEF CompareSize, DieIn, Die, Deaths, Goto, StartFrom, WorkerStates, Labels
<1>4. ASSUME NEW w \in Workers, CheckMd5(w) PROVE TypeInv'
  BY <1>0, <1>4, MaxRepeatAssumption
     DEF CheckMd5, DieIn, Die, Deaths, Publish, StartFrom, WorkerStates, Labels
<1>5. ASSUME NEW w \in Workers, RemoveOversized(w) PROVE TypeInv'
  BY <1>0, <1>5, NoFileType, MaxRepeatAssumption
     DEF RemoveOversized, DieIn, Die, Deaths, StartFrom, WorkerStates, Labels
<1>7. ASSUME NEW w \in Workers, DownloadSucceeds(w) PROVE TypeInv'
  BY <1>0, <1>7, NoTransferType, MaxRepeatAssumption
     DEF DownloadSucceeds, WorkerStates, Labels
<1>8. ASSUME NEW w \in Workers, DownloadFails(w) PROVE TypeInv'
  BY <1>0, <1>8, NoTransferType, MaxRepeatAssumption
     DEF DownloadFails, Resume, DieIn, Die, Deaths, WorkerStates, Labels
<1>9. ASSUME NEW w \in Workers, Report(w) PROVE TypeInv'
  BY <1>9 DEF Report, DieIn, Die, Deaths, Publish, WorkerStates, Labels
<1>6. ASSUME NEW w \in Workers, Download(w) PROVE TypeInv'
  <2>1. worker' = worker /\ Request[w] \in Packages /\ LocalFile[Request[w]] \in Files
    BY <1>0, <1>6 DEF Download
  <2>2. worker[w].from \in Nat
    BY DEF WorkerStates
  <2>3. HttpsTypeOK'
    <3> HIDE DEF HttpsTypeOK
    <3> QED
      BY <1>6, <2>1, <2>2, DownloadFromType, TransferType DEF Download
  <2> QED
    BY <2>1, <2>3
<1>10. CASE Killed
  BY <1>10 DEF Killed, DieIn, Die, Deaths
<1>11. CASE Restart
  <2>1. \A f \in Files : [files[f] EXCEPT !.writers = {}] \in FileStates
    BY DEF FileStates
  <2>2. \A w \in Workers : [worker[w] EXCEPT !.pc = "lost"] \in WorkerStates
    BY DEF WorkerStates, Labels
  <2> QED
    BY <1>11, <2>1, <2>2, NoTransferType DEF Restart, WorkerStates
<1>12. CASE UNCHANGED vars
  BY <1>12 DEF vars
<1> QED
  BY <1>1, <1>2, <1>3, <1>4, <1>5, <1>6, <1>7, <1>8, <1>9, <1>10, <1>11, <1>12
     DEF Next, Work

\* The types of all variables, and the bound on a worker's attempts.
THEOREM TypeCorrect == Spec => []TypeOK
<1>1. TypeInv => TypeOK
  BY DEF TypeInv
<1> QED
  BY TypeInit, TypeNext, <1>1, PTL DEF Spec

-----------------------------------------------------------------------------
\* The types of what a thread looks at: its path, its file and the size it wants.
LEMMA RequestFacts ==
    ASSUME TypeInv, NEW w \in Workers
    PROVE  /\ Request[w] \in Packages
           /\ Path(w) \in Files
           /\ Local(w) \in FileStates
           /\ Local(w).len \in Nat
           /\ Want(w) \in Nat /\ Want(w) > 0
BY RequestAssumption, LocalFileAssumption, SizeAssumption
   DEF TypeInv, TypeOK, HttpsTypeOK, FileStates, Want, Path, Local

\* In the clean setting a file of the package's size is the package.
LEMMA LenIsGood ==
    ASSUME TypeInv, CleanInv, NEW w \in Workers, Local(w).len = Want(w)
    PROVE  Md5Good(Local(w), Request[w])
BY RequestFacts DEF CleanInv, FilesArePrefixes, PrefixOf, Md5Good, Local, Path, Want

\* In the clean setting the leftovers are prefixes and no thread runs.
LEMMA CleanInit == Clean /\ Init => CleanInv
<1> SUFFICES ASSUME Clean, Init PROVE CleanInv
  OBVIOUS
<1>1. \A w \in Workers : worker[w].pc = "idle" /\ xfer[w].phase = "idle"
  BY DEF Init, Waiting, NoTransfer
<1>2. OneWorkerPerFile /\ \A w \in Workers : Knows(w)
  BY <1>1 DEF OneWorkerPerFile, Active, Knows
<1>3. FilesArePrefixes
  BY LocalFileAssumption, LeftoversAssumption DEF Init, Clean, FilesArePrefixes
<1> QED
  BY <1>2, <1>3 DEF CleanInv

\* A step of one thread that touches its own file, transfer and locals only: the
\* other threads work on other files, and know what they knew.
LEMMA OwnStep ==
    ASSUME TypeInv, CleanInv, Clean, NEW w \in Workers, NEW g,
           \A v \in Workers \ {w} : Active(v) => Path(v) # Path(w),
           files' = [files EXCEPT ![Path(w)] = g],
           PrefixOf(g, Request[w]), g.len <= Want(w), ~g.exists => g.len = 0,
           \A v \in Workers \ {w} : xfer'[v] = xfer[v] /\ worker'[v] = worker[v],
           Knows(w)'
    PROVE  CleanInv'
<1>1. OneWorkerPerFile'
  BY DEF CleanInv, OneWorkerPerFile, Active, Path
<1>2. FilesArePrefixes'
  <2> SUFFICES ASSUME NEW p \in Packages
               PROVE  /\ PrefixOf(files'[LocalFile[p]], p)
                      /\ files'[LocalFile[p]].len <= Size[p]
                      /\ ~files'[LocalFile[p]].exists => files'[LocalFile[p]].len = 0
    BY DEF FilesArePrefixes
  <2>1. LocalFile[p] \in Files /\ files \in [Files -> FileStates]
    BY LocalFileAssumption DEF TypeInv, TypeOK, HttpsTypeOK
  <2>2. CASE p = Request[w]
    BY <2>1, <2>2 DEF Path, Want
  <2>3. CASE p # Request[w]
    <3>1. LocalFile[p] # Path(w)
      BY <2>3, RequestFacts DEF Clean, Path
    <3> QED
      BY <2>1, <3>1 DEF CleanInv, FilesArePrefixes
  <2> QED
    BY <2>2, <2>3
<1>3. ASSUME NEW v \in Workers, v # w PROVE Knows(v)'
  <2>1. Knows(v) /\ xfer'[v] = xfer[v] /\ worker'[v] = worker[v]
    BY <1>3 DEF CleanInv
  <2>2. CASE Active(v)
    <3>1. Path(v) \in Files /\ Path(v) # Path(w) /\ files \in [Files -> FileStates]
      BY <1>3, <2>2, RequestFacts DEF TypeInv, TypeOK, HttpsTypeOK
    <3>2. files'[Path(v)] = files[Path(v)]
      BY <3>1
    <3> QED
      BY <2>1, <3>2 DEF Knows, Local, Path, Want
  <2>3. CASE ~Active(v)
    BY <2>1, <2>3 DEF Knows, Active
  <2> QED
    BY <2>2, <2>3
<1> QED
  BY <1>1, <1>2, <1>3 DEF CleanInv

\* A step of one thread that leaves every file and transfer alone.
LEMMA QuietStep ==
    ASSUME TypeInv, CleanInv, Clean, NEW w \in Workers,
           \A v \in Workers \ {w} : Active(v) => Path(v) # Path(w),
           files' = files,
           \A v \in Workers \ {w} : xfer'[v] = xfer[v] /\ worker'[v] = worker[v],
           Knows(w)'
    PROVE  CleanInv'
<1>1. files' = [files EXCEPT ![Path(w)] = Local(w)]
  BY RequestFacts DEF TypeInv, TypeOK, HttpsTypeOK, Local
<1>2. PrefixOf(Local(w), Request[w]) /\ Local(w).len <= Want(w)
      /\ (~Local(w).exists => Local(w).len = 0)
  BY RequestFacts DEF CleanInv, FilesArePrefixes, Local, Path, Want
<1> QED
  BY <1>1, <1>2, OwnStep

\* What a thread that is in no transfer must know.
LEMMA KnowsOutside ==
    ASSUME NEW w \in Workers, xfer'[w].phase = "idle",
           worker'[w].pc # "remove",
           worker'[w].pc \in {"md5", "report"} => Local(w)'.len = Want(w),
           worker'[w].pc = "download" =>
               worker'[w].from = Local(w)'.len /\ Local(w)'.len < Want(w)
    PROVE  Knows(w)'
BY DEF Knows, Want

\* The end of the process touches no file and no thread.
LEMMA DeathKeepsCleanInv ==
    ASSUME CleanInv, NEW cause, DieIn(cause)
    PROVE  CleanInv'
BY DEF DieIn, Die, CleanInv, OneWorkerPerFile, Active, Path, FilesArePrefixes,
       Knows, Local, Want

\* A download touches the file and the transfer of its own thread.
LEMMA DownloadOwn ==
    ASSUME TypeInv, CleanInv, Clean, NEW w \in Workers, Download(w)
    PROVE  OnlyItsOwn(w, Request[w])
<1>1. /\ Knows(w) /\ Request[w] \in Packages /\ HttpsTypeOK
      /\ Local(w) = files[LocalFile[Request[w]]]
  BY RequestFacts DEF CleanInv, Path, Local, TypeInv, TypeOK
<1>2. xfer[w].phase = "body" /\ xfer[w].left > 0 => files[LocalFile[Request[w]]].exists
  BY <1>1 DEF Knows, HttpsTypeOK, Transfers
<1> QED
  BY <1>1, <1>2, DownloadIsItsOwn DEF Download

\* A step of DownloadFrom() keeps the thread at the end of its file
\* (https_download.cpp:146-231).
LEMMA CleanDownload ==
    ASSUME TypeInv, CleanInv, Clean, NEW w \in Workers, Download(w)
    PROVE  CleanInv'
<1> DEFINE p == Request[w]
           n == worker[w].from
<1>1. /\ worker[w].pc = "download" /\ worker' = worker /\ Knows(w)
      /\ p \in Packages /\ Path(w) \in Files /\ Path(w) = LocalFile[p]
      /\ Local(w) = files[LocalFile[p]] /\ Local(w)' = files'[LocalFile[p]]
      /\ Want(w) = Size[p]
      /\ HttpsTypeOK /\ files \in [Files -> FileStates] /\ GoodServer
  BY RequestFacts
     DEF Download, At, CleanInv, Path, Local, Want, TypeInv, TypeOK, HttpsTypeOK,
         Clean, GoodServer
<1>2. \A v \in Workers \ {w} : Active(v) => Path(v) # Path(w)
  BY <1>1 DEF CleanInv, OneWorkerPerFile, Active
<1>3. /\ HoldsPrefix(p) /\ FollowsFile(w, p)
      /\ ~Local(w).exists => Local(w).len = 0
  BY <1>1 DEF CleanInv, FilesArePrefixes, HoldsPrefix, Knows, FollowsFile
<1>4. \/ DownloadFrom(w, p, n) /\ n = files[LocalFile[p]].len /\ n < Size[p]
      \/ Transfer(w, p)
  BY <1>1 DEF Download, DownloadFrom, Knows
<1>5. HoldsPrefix(p)' /\ FollowsFile(w, p)'
  BY <1>1, <1>3, <1>4, DownloadFollows
<1>6. OnlyItsOwn(w, p)
  BY DownloadOwn
<1>7. files' = [files EXCEPT ![Path(w)] = files'[Path(w)]]
  <2>1. DOMAIN files' = Files /\ files' = [f \in Files |-> files'[f]]
    <3>1. HttpsTypeOK'
      BY <1>1, <1>4, TypeNext, DownloadFromType, TransferType, RequestFacts
         DEF TypeInv, TypeOK, WorkerStates
    <3> QED
      BY <3>1 DEF HttpsTypeOK
  <2> QED
    BY <1>1, <1>6, <2>1 DEF OnlyItsOwn
<1>8. Knows(w)'
  <2>1. CASE UNCHANGED <<files, xfer>>
    BY <1>1, <2>1 DEF Knows, Local, Path, Want
  <2>2. CASE xfer'[w].phase # "idle"
    BY <1>1, <1>5, <2>2 DEF FollowsFile, Knows, Want
  <2> QED
    BY <1>6, <2>1, <2>2 DEF OnlyItsOwn
<1>9. /\ PrefixOf(files'[Path(w)], p) /\ files'[Path(w)].len <= Want(w)
      /\ ~files'[Path(w)].exists => files'[Path(w)].len = 0
  BY <1>1, <1>3, <1>5, <1>6 DEF HoldsPrefix, OnlyItsOwn
<1> QED
  BY <1>1, <1>2, <1>6, <1>7, <1>8, <1>9, OwnStep DEF OnlyItsOwn

\* In the clean setting every step keeps the files prefixes and the threads at
\* their ends (updaterwrapper.cpp:262-336).
LEMMA CleanNext == TypeInv /\ CleanInv /\ Clean /\ [Next]_vars => CleanInv'
<1> SUFFICES ASSUME TypeInv, CleanInv, Clean, [Next]_vars PROVE CleanInv'
  OBVIOUS
<1> USE DEF At, Goto, StartFrom, Publish
<1>0. /\ worker \in [Workers -> WorkerStates] /\ xfer \in [Workers -> Transfers]
      /\ files \in [Files -> FileStates] /\ \A w \in Workers : Knows(w)
  BY DEF TypeInv, TypeOK, HttpsTypeOK, CleanInv
<1>a. ASSUME NEW w \in Workers, Active(w)
      PROVE  \A v \in Workers \ {w} : Active(v) => Path(v) # Path(w)
  BY <1>a DEF CleanInv, OneWorkerPerFile
<1>b. ASSUME NEW w \in Workers
      PROVE  Local(w).len \in Nat /\ Want(w) \in Nat /\ Want(w) > 0
             /\ Local(w).len <= Want(w) /\ (~Local(w).exists => Local(w).len = 0)
  BY RequestFacts DEF CleanInv, FilesArePrefixes, Local, Path, Want
<1>c. ASSUME NEW w \in Workers, worker[w].pc # "download"
      PROVE  xfer[w].phase = "idle"
  BY <1>0, <1>c DEF Knows
<1>1. ASSUME NEW w \in Workers, Distribute(w) PROVE CleanInv'
  <2>1. \A v \in Workers \ {w} : Active(v) => Path(v) # Path(w)
    BY <1>1 DEF Distribute, Clean
  <2>2. /\ worker'[w].pc = "exists" /\ xfer' = xfer /\ files' = files
        /\ xfer[w].phase = "idle"
        /\ \A v \in Workers \ {w} : worker'[v] = worker[v]
    BY <1>0, <1>1, <1>c DEF Distribute, WorkerStates
  <2>3. Knows(w)'
    BY <2>2, KnowsOutside
  <2> QED
    BY <2>1, <2>2, <2>3, QuietStep
<1>2. ASSUME NEW w \in Workers, Exists(w) PROVE CleanInv'
  <2>1. /\ worker[w].pc = "exists" /\ xfer' = xfer /\ files' = files
        /\ xfer[w].phase = "idle" /\ Active(w)
        /\ \A v \in Workers \ {w} : worker'[v] = worker[v]
    BY <1>0, <1>2, <1>c DEF Exists, Active
  <2>2. \/ worker'[w].pc = "size"
        \/ worker'[w].pc = "download" /\ worker'[w].from = 0 /\ ~Local(w).exists
    BY <1>0, <1>2 DEF Exists, WorkerStates
  <2>3. Local(w)' = Local(w)
    BY <2>1 DEF Local, Path
  <2>4. Knows(w)'
    BY <1>b, <2>1, <2>2, <2>3, KnowsOutside
  <2> QED
    BY <1>a, <2>1, <2>4, QuietStep
<1>3. ASSUME NEW w \in Workers, CompareSize(w) PROVE CleanInv'
  <2>1. CASE DieIn("terminate")
    BY <2>1, DeathKeepsCleanInv
  <2>2. CASE ~DieIn("terminate")
    <3>1. /\ worker[w].pc = "size" /\ xfer' = xfer /\ files' = files
          /\ xfer[w].phase = "idle" /\ Active(w)
          /\ \A v \in Workers \ {w} : worker'[v] = worker[v]
      BY <1>0, <1>3, <1>c, <2>2 DEF CompareSize, Active
    <3>2. \/ worker'[w].pc = "md5" /\ Local(w).len = Want(w)
          \/ /\ worker'[w].pc = "download" /\ worker'[w].from = Local(w).len
             /\ Local(w).len < Want(w)
      BY <1>0, <1>3, <1>b, <2>2 DEF CompareSize, WorkerStates
    <3>3. Local(w)' = Local(w)
      BY <3>1 DEF Local, Path
    <3>4. Knows(w)'
      BY <3>1, <3>2, <3>3, KnowsOutside
    <3> QED
      BY <1>a, <3>1, <3>4, QuietStep
  <2> QED
    BY <2>1, <2>2
<1>4. ASSUME NEW w \in Workers, CheckMd5(w) PROVE CleanInv'
  <2>1. CASE DieIn("segv")
    BY <2>1, DeathKeepsCleanInv
  <2>2. CASE ~DieIn("segv")
    <3>1. /\ worker[w].pc = "md5" /\ xfer' = xfer /\ files' = files
          /\ xfer[w].phase = "idle" /\ Active(w)
          /\ \A v \in Workers \ {w} : worker'[v] = worker[v]
      BY <1>0, <1>4, <1>c, <2>2 DEF CheckMd5, Active
    <3>2. Md5Good(Local(w), Request[w])
      BY <1>0, <3>1, LenIsGood DEF Knows
    <3>3. worker'[w].pc = "end"
      BY <1>0, <1>4, <2>2, <3>2 DEF CheckMd5, WorkerStates
    <3>4. Knows(w)'
      BY <3>1, <3>3, KnowsOutside
    <3> QED
      BY <1>a, <3>1, <3>4, QuietStep
  <2> QED
    BY <2>1, <2>2
<1>5. ASSUME NEW w \in Workers, RemoveOversized(w) PROVE CleanInv'
  BY <1>0, <1>5 DEF RemoveOversized, Knows
<1>6. ASSUME NEW w \in Workers, Download(w) PROVE CleanInv'
  BY <1>6, CleanDownload
<1>7. ASSUME NEW w \in Workers, DownloadSucceeds(w) PROVE CleanInv'
  <2>1. /\ worker[w].pc = "download" /\ xfer[w].phase = "ok" /\ files' = files
        /\ Active(w) /\ xfer'[w] = NoTransfer /\ worker'[w].pc = "report"
        /\ \A v \in Workers \ {w} : xfer'[v] = xfer[v] /\ worker'[v] = worker[v]
    BY <1>0, <1>7 DEF DownloadSucceeds, Active, WorkerStates
  <2>2. Local(w).len = Want(w) /\ Local(w)' = Local(w)
    BY <1>0, <2>1 DEF Knows, Local, Path
  <2>3. Knows(w)'
    BY <2>1, <2>2, KnowsOutside DEF NoTransfer
  <2> QED
    BY <1>a, <2>1, <2>3, QuietStep
<1>8. ASSUME NEW w \in Workers, DownloadFails(w) PROVE CleanInv'
  <2>1. CASE DieIn("terminate")
    BY <2>1, DeathKeepsCleanInv
  <2>2. CASE ~DieIn("terminate")
    <3>1. /\ worker[w].pc = "download" /\ xfer[w].phase = "failed" /\ files' = files
          /\ Active(w) /\ xfer'[w] = NoTransfer /\ Resume(w)
          /\ \A v \in Workers \ {w} : xfer'[v] = xfer[v]
      BY <1>0, <1>8, <2>2 DEF DownloadFails, Active
    <3>2. /\ worker'[w].pc \in {"download", "giveup"}
          /\ worker'[w].from = Local(w).len
          /\ \A v \in Workers \ {w} : worker'[v] = worker[v]
      BY <1>0, <3>1 DEF Resume, WorkerStates
    <3>3. Local(w).len < Want(w) /\ Local(w)' = Local(w)
      BY <1>0, <3>1 DEF Knows, Local, Path
    <3>4. Knows(w)'
      BY <3>1, <3>2, <3>3, KnowsOutside DEF NoTransfer
    <3> QED
      BY <1>a, <3>1, <3>2, <3>4, QuietStep
  <2> QED
    BY <2>1, <2>2
<1>9. ASSUME NEW w \in Workers, Report(w) PROVE CleanInv'
  <2>1. CASE DieIn("terminate")
    BY <2>1, DeathKeepsCleanInv
  <2>2. CASE ~DieIn("terminate")
    <3>1. /\ worker[w].pc \in {"report", "giveup"} /\ xfer' = xfer /\ files' = files
          /\ xfer[w].phase = "idle" /\ Active(w)
          /\ \A v \in Workers \ {w} : worker'[v] = worker[v]
          /\ worker'[w].pc = "end"
      BY <1>0, <1>9, <1>c, <2>2 DEF Report, Active, WorkerStates
    <3>2. Knows(w)'
      BY <3>1, KnowsOutside
    <3> QED
      BY <1>a, <3>1, <3>2, QuietStep
  <2> QED
    BY <2>1, <2>2
<1>10. CASE Killed
  BY <1>10, DeathKeepsCleanInv DEF Killed
<1>11. CASE Restart
  <2>1. \A f \in Files : /\ files'[f].exists = files[f].exists
                         /\ files'[f].len = files[f].len /\ files'[f].of = files[f].of
    BY <1>11 DEF Restart, TypeInv, TypeOK, HttpsTypeOK, FileStates
  <2>2. FilesArePrefixes'
    BY <2>1, LocalFileAssumption DEF CleanInv, FilesArePrefixes, PrefixOf
  <2>3. \A w \in Workers : worker'[w].pc \in {"idle", "end", "lost"} /\ xfer'[w] = NoTransfer
    BY <1>0, <1>11 DEF Restart, Active, WorkerStates
  <2> QED
    BY <2>2, <2>3 DEF CleanInv, OneWorkerPerFile, Active, Knows, NoTransfer
<1>12. CASE UNCHANGED vars
  BY <1>12 DEF vars, CleanInv, OneWorkerPerFile, Active, Path, FilesArePrefixes,
               Knows, Local, Want
<1> QED
  BY <1>1, <1>2, <1>3, <1>4, <1>5, <1>6, <1>7, <1>8, <1>9, <1>10, <1>11, <1>12
     DEF Next, Work

\* In the clean setting no file leaves its package and no thread its file's end.
THEOREM CleanInvariant == Clean => (Spec => []CleanInv)
<1> SUFFICES ASSUME Clean PROVE Spec => []CleanInv
  OBVIOUS
<1>1. Init => TypeInv /\ CleanInv
  BY TypeInit, CleanInit
<1>2. TypeInv /\ CleanInv /\ [Next]_vars => (TypeInv /\ CleanInv)'
  BY TypeNext, CleanNext
<1> QED
  BY <1>1, <1>2, PTL DEF Spec

-----------------------------------------------------------------------------
\* Only the thread itself publishes its result, and "done" only after a check
\* of the file or at the end of a successful download.
LEMMA WhoPublishes ==
    ASSUME TypeInv, [Next]_vars, NEW w \in Workers, PublishesDone(w)
    PROVE  /\ files' = files
           /\ \/ CheckMd5(w) /\ Md5Good(Local(w), Request[w])
              \/ Report(w) /\ worker[w].pc = "report"
<1> DEFINE Goal == /\ files' = files
                   /\ \/ CheckMd5(w) /\ Md5Good(Local(w), Request[w])
                      \/ Report(w) /\ worker[w].pc = "report"
<1> USE DEF PublishesDone
<1>0. worker \in [Workers -> WorkerStates] /\ worker'[w] # worker[w]
  BY DEF TypeInv, TypeOK
<1>1. ASSUME NEW v \in Workers, Distribute(v) PROVE Goal
  BY <1>0, <1>1 DEF Distribute, Goto, WorkerStates
<1>2. ASSUME NEW v \in Workers, Exists(v) PROVE Goal
  BY <1>0, <1>2 DEF Exists, Goto, StartFrom, WorkerStates
<1>3. ASSUME NEW v \in Workers, CompareSize(v) PROVE Goal
  BY <1>0, <1>3 DEF CompareSize, DieIn, Goto, StartFrom, WorkerStates
<1>4. ASSUME NEW v \in Workers, CheckMd5(v) PROVE Goal
  <2>1. v = w /\ files' = files
    BY <1>0, <1>4 DEF CheckMd5, DieIn, Die, Publish, StartFrom
  <2> QED
    BY <1>0, <1>4, <2>1 DEF CheckMd5, DieIn, Publish, StartFrom, WorkerStates
<1>5. ASSUME NEW v \in Workers, RemoveOversized(v) PROVE Goal
  BY <1>0, <1>5 DEF RemoveOversized, DieIn, StartFrom, WorkerStates
<1>6. ASSUME NEW v \in Workers, Download(v) PROVE Goal
  BY <1>0, <1>6 DEF Download
<1>7. ASSUME NEW v \in Workers, DownloadSucceeds(v) PROVE Goal
  BY <1>0, <1>7 DEF DownloadSucceeds, WorkerStates
<1>8. ASSUME NEW v \in Workers, DownloadFails(v) PROVE Goal
  BY <1>0, <1>8 DEF DownloadFails, Resume, DieIn, WorkerStates
<1>9. ASSUME NEW v \in Workers, Report(v) PROVE Goal
  <2>1. v = w /\ files' = files
    BY <1>0, <1>9 DEF Report, DieIn, Die, Publish
  <2> QED
    BY <1>0, <1>9, <2>1 DEF Report, DieIn, Publish, WorkerStates
<1>10. CASE Killed
  BY <1>0, <1>10 DEF Killed, DieIn
<1>11. CASE Restart
  BY <1>0, <1>11 DEF Restart, WorkerStates
<1>12. CASE UNCHANGED vars
  BY <1>0, <1>12 DEF vars
<1> QED
  BY <1>1, <1>2, <1>3, <1>4, <1>5, <1>6, <1>7, <1>8, <1>9, <1>10, <1>11, <1>12
     DEF Next, Work

\* The result eDONE is true although nothing is verified after the download: in
\* the clean setting the resume positions imply the checksum.
THEOREM CleanDoneIsVerified == Clean => (Spec => DoneIsVerified)
<1> SUFFICES ASSUME Clean PROVE Spec => DoneIsVerified
  OBVIOUS
<1>1. ASSUME TypeInv, CleanInv, [Next]_vars, NEW w \in Workers, PublishesDone(w)
      PROVE  Md5Good(Local(w), Request[w])'
  <2>1. Md5Good(Local(w), Request[w])
    <3>1. CASE worker[w].pc = "report"
      BY <1>1, <3>1, LenIsGood DEF CleanInv, Knows
    <3> QED
      BY <1>1, <3>1, WhoPublishes
  <2> QED
    BY <1>1, <2>1, WhoPublishes DEF Md5Good, Local, Path
<1>2. Spec => []TypeInv
  BY TypeInit, TypeNext, PTL DEF Spec
<1>3. Spec => []CleanInv
  BY CleanInvariant
<1>4. TypeInv /\ CleanInv /\ [Next]_vars =>
         [\A w \in Workers : PublishesDone(w) => Md5Good(Local(w), Request[w])']_vars
  BY <1>1
<1> QED
  BY <1>2, <1>3, <1>4, PTL DEF Spec, DoneIsVerified

-----------------------------------------------------------------------------
\* A step of a download adds to its file or leaves it alone (https_download.cpp:154-163).
LEMMA DownloadGrows ==
    ASSUME TypeInv, NEW w \in Workers, Download(w), NEW f \in Files
    PROVE  files[f].len <= files'[f].len
<1> DEFINE p == Request[w]
<1>1. files \in [Files -> FileStates] /\ files[f].len \in Nat
  BY DEF TypeInv, TypeOK, HttpsTypeOK, FileStates
<1>2. ASSUME NEW g, files' = [files EXCEPT ![Path(w)] = g], Local(w).len <= g.len
      PROVE  files[f].len <= files'[f].len
  BY <1>1, <1>2, RequestFacts DEF Path, Local
<1>3. CASE DownloadFrom(w, p, worker[w].from)
  <2>1. Opened(Local(w), w).len = Local(w).len
    BY RequestFacts DEF Opened, FileStates
  <2> QED
    BY <1>1, <1>2, <1>3, <2>1, RequestFacts DEF DownloadFrom, Die, Path, Local
<1>4. CASE Receive(w, p)
  <2>1. ASSUME NEW c, NEW n
        PROVE  Local(w).len <= Written(Local(w), w, c, n).len
    <3>1. Written(Local(w), w, c, n).len \in {Local(w).len, Local(w).len + 1}
      BY RequestFacts DEF Written, FileStates
    <3> QED
      BY <3>1, RequestFacts
  <2>2. CASE files' = files
    BY <1>1, <2>2
  <2>3. CASE files' = [files EXCEPT ![Path(w)] =
                          Written(Local(w), w, xfer[w].content, xfer[w].pos)]
    <3> DEFINE g == Written(Local(w), w, xfer[w].content, xfer[w].pos)
    <3>1. Local(w).len <= g.len
      BY <2>1
    <3>2. files' = [files EXCEPT ![Path(w)] = g]
      BY <2>3
    <3> HIDE DEF g
    <3> QED
      BY <1>2, <3>1, <3>2
  <2>4. Local(w) = files[LocalFile[Request[w]]] /\ Path(w) = LocalFile[Request[w]]
    BY DEF Local, Path
  <2>5. \/ files' = files
        \/ files' = [files EXCEPT ![Path(w)] =
                       Written(Local(w), w, xfer[w].content, xfer[w].pos)]
    BY <1>4, <2>4 DEF Receive, Die
  <2> QED
    BY <2>2, <2>3, <2>5
<1>5. ASSUME NEW phase, Finish(w, p, phase) PROVE files[f].len <= files'[f].len
  <2>1. Closed(Local(w), w).len = Local(w).len
    BY RequestFacts DEF Closed, FileStates
  <2>2. files' = [files EXCEPT ![Path(w)] = Closed(Local(w), w)]
    BY <1>5 DEF Finish, Path, Local
  <2>3. Local(w).len <= Closed(Local(w), w).len
    BY <2>1, RequestFacts
  <2> QED
    BY <1>2, <2>2, <2>3
<1>6. CASE Die("abort")
  BY <1>1, <1>6 DEF Die
<1> QED
  BY <1>3, <1>4, <1>5, <1>6 DEF Download, Transfer, Complete, Interrupted

\* In the clean setting nothing on disk is ever thrown away.
THEOREM CleanFilesNeverShrink == Clean => (Spec => FilesNeverShrink)
<1> SUFFICES ASSUME Clean PROVE Spec => FilesNeverShrink
  OBVIOUS
<1>1. ASSUME TypeInv, CleanInv, [Next]_vars, NEW f \in Files
      PROVE  files[f].len <= files'[f].len
  <2>1. files[f] \in FileStates /\ files[f].len \in Nat
    BY <1>1 DEF TypeInv, TypeOK, HttpsTypeOK, FileStates
  <2>2. CASE files' = files
    BY <2>1, <2>2
  <2>3. ASSUME NEW w \in Workers, Download(w) PROVE files[f].len <= files'[f].len
    BY <1>1, <2>3, DownloadGrows
  <2>4. ASSUME NEW w \in Workers, RemoveOversized(w) PROVE FALSE
    BY <1>1, <2>4 DEF RemoveOversized, CleanInv, Knows, At
  <2>5. CASE Restart
    BY <2>1, <2>5 DEF Restart, FileStates
  <2>6. ASSUME NEW w \in Workers, Work(w), ~Download(w) PROVE files' = files
    BY <2>4, <2>6 DEF Work, Exists, CompareSize, CheckMd5, DownloadSucceeds,
                      DownloadFails, Report, DieIn, Die
  <2> QED
    BY <1>1, <2>2, <2>3, <2>5, <2>6
       DEF Next, Distribute, Killed, DieIn, Die, Clean, vars
<1>2. Spec => []TypeInv
  BY TypeInit, TypeNext, PTL DEF Spec
<1>3. Spec => []CleanInv
  BY CleanInvariant
<1>4. TypeInv /\ CleanInv /\ [Next]_vars =>
         [\A f \in Files : files[f].len <= files'[f].len]_vars
  BY <1>1
<1> QED
  BY <1>2, <1>3, <1>4, PTL DEF Spec, FilesNeverShrink
-----------------------------------------------------------------------------
(***************************************************************************)
(* In the clean setting the self-updater implements FileDelivery: the      *)
(* state of a request is read from its thread and the process, the good    *)
(* packages from the files, and each step is a step of a delivery or none. *)
(***************************************************************************)
StateOf(s, up) ==
    CASE s.result = "done" -> "delivered"
      [] s.result = "fail" -> "failed"
      [] s.pc = "idle" -> "new"
      [] OTHER -> IF s.pc \notin {"idle", "end", "lost"} /\ up THEN "running" ELSE "lost"

Job == [w \in Workers |-> RequestState(w)]
GoodPackages == {p \in Packages : Md5Good(files[LocalFile[p]], p)}

\* A thread has a result when it has ended, and never before.
ResultAtEnd == \A w \in Workers : worker[w].result # "none" <=> worker[w].pc = "end"

\* The states of a request, one by one.
LEMMA StatesOf ==
    ASSUME NEW s \in WorkerStates, NEW up \in BOOLEAN,
           s.result # "none" <=> s.pc = "end"
    PROVE  /\ s.result = "done" => StateOf(s, up) = "delivered"
           /\ s.result = "fail" => StateOf(s, up) = "failed"
           /\ s.pc = "idle" => StateOf(s, up) = "new"
           /\ s.pc \notin {"idle", "end", "lost"} =>
                 StateOf(s, up) = IF up THEN "running" ELSE "lost"
           /\ s.pc = "lost" => StateOf(s, up) = "lost"
BY DEF StateOf, WorkerStates

\* The state of a request as the refinement reads it.
LEMMA JobIsStateOf ==
    /\ Job = [w \in Workers |-> StateOf(worker[w], Up)]
    /\ Job' = [w \in Workers |-> StateOf(worker'[w], Up')]
BY DEF Job, RequestState, StateOf, Active

\* Only the publication of its result ends a thread (updaterwrapper.cpp:323-335).
LEMMA ResultNext == TypeInv /\ ResultAtEnd /\ [Next]_vars => ResultAtEnd'
<1> SUFFICES ASSUME TypeInv, ResultAtEnd, [Next]_vars PROVE ResultAtEnd'
  OBVIOUS
<1>0. worker \in [Workers -> WorkerStates]
  BY DEF TypeInv, TypeOK
<1>a. ASSUME worker' = worker PROVE ResultAtEnd'
  BY <1>a DEF ResultAtEnd
<1>b. ASSUME NEW w \in Workers, NEW s, worker' = [worker EXCEPT ![w] = s],
             s.result # "none" <=> s.pc = "end"
      PROVE  ResultAtEnd'
  BY <1>0, <1>b DEF ResultAtEnd
<1>c. ASSUME NEW w \in Workers, worker[w].pc # "end", NEW label \in Labels \ {"end"},
             Goto(w, label) \/ \E n : StartFrom(w, n)
      PROVE  ResultAtEnd'
  BY <1>0, <1>c DEF Goto, StartFrom, ResultAtEnd, WorkerStates
<1>d. ASSUME NEW w \in Workers, NEW result \in {"done", "fail"}, Publish(w, result)
      PROVE  ResultAtEnd'
  BY <1>0, <1>d DEF Publish, ResultAtEnd, WorkerStates
<1>1. ASSUME NEW w \in Workers, Distribute(w) \/ Exists(w) \/ RemoveOversized(w)
      PROVE  ResultAtEnd'
  BY <1>1, <1>a, <1>c DEF Distribute, Exists, RemoveOversized, At, DieIn, Labels
<1>2. ASSUME NEW w \in Workers, CompareSize(w) PROVE ResultAtEnd'
  BY <1>2, <1>a, <1>c DEF CompareSize, At, DieIn, Labels
<1>3. ASSUME NEW w \in Workers, CheckMd5(w) \/ Report(w) PROVE ResultAtEnd'
  BY <1>3, <1>a, <1>c, <1>d DEF CheckMd5, Report, At, DieIn, Labels
<1>4. ASSUME NEW w \in Workers, Download(w) PROVE ResultAtEnd'
  BY <1>4, <1>a DEF Download
<1>5. ASSUME NEW w \in Workers, DownloadSucceeds(w) \/ DownloadFails(w)
      PROVE  ResultAtEnd'
  BY <1>0, <1>5, <1>a
     DEF DownloadSucceeds, DownloadFails, Resume, At, DieIn, ResultAtEnd, WorkerStates
<1>6. CASE Killed \/ UNCHANGED vars
  BY <1>6, <1>a DEF Killed, DieIn, vars
<1>7. CASE Restart
  BY <1>0, <1>7 DEF Restart, Active, ResultAtEnd, WorkerStates
<1> QED
  BY <1>1, <1>2, <1>3, <1>4, <1>5, <1>6, <1>7 DEF Next, Work

\* The steps of a delivery, in the terms of the refinement.
LEMMA DeliverySteps ==
    /\ \A w \in Workers :
          /\ Job[w] = "new" /\ GoodPackages' = GoodPackages
          /\ Job' = [Job EXCEPT ![w] = "running"]
          => Delivery!Next
    /\ \A w \in Workers :
          /\ Job[w] = "running" /\ Request[w] \in GoodPackages
          /\ GoodPackages' = GoodPackages /\ Job' = [Job EXCEPT ![w] = "delivered"]
          => Delivery!Next
    /\ \A w \in Workers :
          /\ Job[w] = "running" /\ GoodPackages' = GoodPackages
          /\ Job' = [Job EXCEPT ![w] = "failed"]
          => Delivery!Next
    /\ \A w \in Workers :
          /\ Job[w] = "running" /\ Job' = Job /\ Request[w] \in Packages \ GoodPackages
          /\ GoodPackages' = GoodPackages \cup {Request[w]}
          => Delivery!Next
    /\ /\ GoodPackages' = GoodPackages
       /\ Job' = [w \in Workers |-> IF Job[w] = "running" THEN "lost" ELSE Job[w]]
       => Delivery!Next
BY DEF Job, GoodPackages, Delivery!Next, Delivery!Accept, Delivery!Deliver,
       Delivery!Fail, Delivery!Obtain, Delivery!Lose, Delivery!Running

\* A file that holds a prefix of its package is the package when it is long enough.
LEMMA LongEnoughIsGood ==
    ASSUME NEW p \in Packages, NEW f \in FileStates, PrefixOf(f, p)
    PROVE  Md5Good(f, p) <=> f.exists /\ f.len = Size[p]
BY SizeAssumption DEF Md5Good, PrefixOf, FileStates

\* A step of a download makes its own package good, or no other one good or bad.
LEMMA DownloadGood ==
    ASSUME TypeInv, CleanInv, TypeInv', CleanInv', Clean, NEW w \in Workers, Download(w)
    PROVE  \/ GoodPackages' = GoodPackages
           \/ /\ Request[w] \in Packages \ GoodPackages
              /\ GoodPackages' = GoodPackages \cup {Request[w]}
<1> DEFINE p == Request[w]
<1>1. /\ p \in Packages /\ OnlyItsOwn(w, p)
      /\ \A q \in Packages : LocalFile[q] \in Files /\ Size[q] \in Nat
  BY RequestFacts, DownloadOwn, LocalFileAssumption, SizeAssumption
<1>2. \A q \in Packages \ {p} : q \in GoodPackages' <=> q \in GoodPackages
  BY <1>1 DEF Clean, OnlyItsOwn, GoodPackages
<1>3. p \in GoodPackages => p \in GoodPackages'
  <2> SUFFICES ASSUME p \in GoodPackages PROVE p \in GoodPackages'
    OBVIOUS
  <2> DEFINE f == files[LocalFile[p]]
             g == files'[LocalFile[p]]
  <2>1. f \in FileStates /\ g \in FileStates /\ PrefixOf(f, p) /\ PrefixOf(g, p)
        /\ g.len <= Size[p]
    BY <1>1 DEF TypeInv, TypeOK, HttpsTypeOK, CleanInv, FilesArePrefixes
  <2>2. f.exists /\ f.len = Size[p]
    BY <1>1, <2>1, LongEnoughIsGood DEF GoodPackages
  <2>3. g.exists /\ f.len <= g.len
    BY <1>1, <2>2, DownloadGrows DEF OnlyItsOwn
  <2>4. g.len = Size[p]
    BY <1>1, <2>1, <2>2, <2>3 DEF FileStates
  <2>5. Md5Good(g, p)
    BY <1>1, <2>1, <2>3, <2>4, LongEnoughIsGood
  <2> QED
    BY <1>1, <2>5 DEF GoodPackages
<1>4. GoodPackages \subseteq Packages /\ GoodPackages' \subseteq Packages
  BY DEF GoodPackages
<1> QED
  BY <1>1, <1>2, <1>3, <1>4

\* Every step of the self-updater is a step of a delivery, or none.
LEMMA DeliveryNext ==
    ASSUME TypeInv, CleanInv, ResultAtEnd, TypeInv', CleanInv', ResultAtEnd', Clean,
           [Next]_vars
    PROVE  Delivery!Next \/ UNCHANGED <<Job, GoodPackages>>
<1> DEFINE Goal == Delivery!Next \/ UNCHANGED <<Job, GoodPackages>>
           Running(s) == s.pc \notin {"idle", "end", "lost"}
<1>0. /\ worker \in [Workers -> WorkerStates] /\ worker' \in [Workers -> WorkerStates]
      /\ Up \in BOOLEAN /\ Up' \in BOOLEAN
      /\ files \in [Files -> FileStates]
      /\ \A w \in Workers : worker[w].result # "none" <=> worker[w].pc = "end"
      /\ \A w \in Workers : worker'[w].result # "none" <=> worker'[w].pc = "end"
  BY DEF TypeInv, TypeOK, HttpsTypeOK, Up, ResultAtEnd
<1>a. ASSUME files' = files PROVE GoodPackages' = GoodPackages
  BY <1>a DEF GoodPackages
<1>b. ASSUME NEW w \in Workers, worker' = [worker EXCEPT ![w] = worker'[w]], process' = process
      PROVE  Job' = [Job EXCEPT ![w] = StateOf(worker'[w], Up)]
  <2>1. Up' = Up
    BY <1>b DEF Up
  <2>2. Job = [v \in Workers |-> StateOf(worker[v], Up)]
        /\ Job' = [v \in Workers |-> StateOf(worker'[v], Up')]
    BY JobIsStateOf
  <2> QED
    BY <1>0, <1>b, <2>1, <2>2
<1>c. ASSUME NEW w \in Workers PROVE Job[w] = StateOf(worker[w], Up)
  BY JobIsStateOf
<1>d. ASSUME NEW w \in Workers, Up, Running(worker[w]), worker'[w] \in WorkerStates,
             Running(worker'[w]), worker' = [worker EXCEPT ![w] = worker'[w]],
             process' = process
      PROVE  Job' = Job /\ Job[w] = "running"
  <2>1. StateOf(worker[w], Up) = "running" /\ StateOf(worker'[w], Up) = "running"
    BY <1>0, <1>d, StatesOf
  <2>2. Job' = [Job EXCEPT ![w] = StateOf(worker'[w], Up)] /\ Job[w] = StateOf(worker[w], Up)
    BY <1>b, <1>c, <1>d
  <2>3. Job = [v \in Workers |-> Job[v]]
    BY DEF Job
  <2> QED
    BY <2>1, <2>2, <2>3
<1>e. ASSUME Up, NEW cause \in Deaths, DieIn(cause) PROVE Goal
  <2>1. worker' = worker /\ files' = files /\ ~Up'
    BY <1>e DEF DieIn, Die, Up, Deaths
  <2>2. ASSUME NEW w \in Workers
        PROVE  StateOf(worker'[w], Up') = IF Job[w] = "running" THEN "lost" ELSE Job[w]
    <3>1. /\ worker[w] \in WorkerStates /\ worker'[w] = worker[w] /\ Up = TRUE /\ Up' = FALSE
          /\ worker[w].result \in {"none", "done", "fail"}
          /\ worker[w].result # "none" <=> worker[w].pc = "end"
      BY <1>0, <1>e, <2>1 DEF WorkerStates
    <3>2. Job[w] = StateOf(worker[w], TRUE)
      BY <1>c, <3>1
    <3> QED
      BY <3>1, <3>2, StatesOf
  <2>3. Job' = [w \in Workers |-> IF Job[w] = "running" THEN "lost" ELSE Job[w]]
    BY <2>2, JobIsStateOf
  <2> QED
    BY <1>a, <2>1, <2>3, DeliverySteps
<1>f. ASSUME NEW w \in Workers, Up, Running(worker[w]), NEW result \in {"done", "fail"},
             Publish(w, result), UNCHANGED <<files, process>>,
             result = "done" => Request[w] \in GoodPackages
      PROVE  Goal
  <2>1. /\ worker'[w].result = result /\ worker' = [worker EXCEPT ![w] = worker'[w]]
        /\ worker'[w] \in WorkerStates
    BY <1>0, <1>f DEF Publish, WorkerStates
  <2>2. Job[w] = "running" /\ StateOf(worker'[w], Up) = IF result = "done" THEN "delivered" ELSE "failed"
    BY <1>0, <1>c, <1>f, <2>1, StatesOf
  <2>3. Job' = [Job EXCEPT ![w] = StateOf(worker'[w], Up)]
    BY <1>b, <1>f, <2>1
  <2> QED
    BY <1>a, <1>f, <2>2, <2>3, DeliverySteps
<1>1. ASSUME NEW w \in Workers, Distribute(w) PROVE Goal
  <2>1. /\ worker[w].pc = "idle" /\ Up /\ files' = files /\ process' = process
        /\ worker' = [worker EXCEPT ![w] = worker'[w]] /\ worker'[w].pc = "exists"
    BY <1>0, <1>1 DEF Distribute, At, Goto, WorkerStates
  <2>2. Job[w] = "new" /\ StateOf(worker'[w], Up) = "running"
    BY <1>0, <1>c, <2>1, StatesOf
  <2>3. Job' = [Job EXCEPT ![w] = StateOf(worker'[w], Up)]
    BY <1>b, <2>1
  <2> QED
    BY <1>a, <2>1, <2>2, <2>3, DeliverySteps
<1>2. ASSUME NEW w \in Workers, Up, Running(worker[w]), UNCHANGED <<files, process>>,
             (\E label \in Labels : Goto(w, label) /\ label \notin {"idle", "end", "lost"})
             \/ \E n : StartFrom(w, n)
      PROVE  Goal
  <2>1. worker' = [worker EXCEPT ![w] = worker'[w]] /\ Running(worker'[w])
    BY <1>0, <1>2 DEF Goto, StartFrom, WorkerStates
  <2> QED
    BY <1>0, <1>2, <1>a, <1>d, <2>1
<1>3. ASSUME NEW w \in Workers, Exists(w) \/ CompareSize(w) PROVE Goal
  BY <1>2, <1>3, <1>e DEF Exists, CompareSize, At, Labels, Deaths
<1>4. ASSUME NEW w \in Workers, RemoveOversized(w) PROVE FALSE
  BY <1>4 DEF RemoveOversized, CleanInv, Knows, At
<1>5. ASSUME NEW w \in Workers, CheckMd5(w) PROVE Goal
  <2>1. Up /\ Running(worker[w]) /\ Request[w] \in Packages
    BY <1>5, RequestFacts DEF CheckMd5, At
  <2>2. Md5Good(Local(w), Request[w]) => Request[w] \in GoodPackages
    BY <2>1 DEF GoodPackages, Local, Path
  <2> QED
    BY <1>2, <1>5, <1>e, <1>f, <2>1, <2>2 DEF CheckMd5, Deaths
<1>6. ASSUME NEW w \in Workers, Download(w) PROVE Goal
  <2>1. Up /\ worker[w].pc = "download" /\ worker' = worker
    BY <1>6 DEF Download, At
  <2>2. CASE process' = process
    <3>1. Job' = Job /\ Job[w] = "running"
      BY <1>0, <1>d, <2>1, <2>2
    <3> QED
      BY <1>6, <3>1, DownloadGood, DeliverySteps
  <2>3. CASE process' # process
    <3>1. \E cause \in Deaths : DieIn(cause)
      BY <1>6, <2>1, <2>3
         DEF Download, DownloadFrom, Transfer, Receive, Complete, Interrupted, Finish,
             DieIn, Die, Deaths
    <3> QED
      BY <1>e, <2>1, <3>1
  <2> QED
    BY <2>2, <2>3
<1>7. ASSUME NEW w \in Workers, DownloadSucceeds(w) PROVE Goal
  <2>1. /\ Up /\ Running(worker[w]) /\ Running(worker'[w])
        /\ worker' = [worker EXCEPT ![w] = worker'[w]] /\ UNCHANGED <<files, process>>
    BY <1>0, <1>7 DEF DownloadSucceeds, At, WorkerStates
  <2> QED
    BY <1>0, <1>a, <1>d, <2>1
<1>8. ASSUME NEW w \in Workers, DownloadFails(w) PROVE Goal
  <2>1. CASE DieIn("terminate")
    BY <1>8, <1>e, <2>1 DEF DownloadFails, At, Deaths
  <2>2. CASE ~DieIn("terminate")
    <3>1. /\ Up /\ Running(worker[w]) /\ Running(worker'[w])
          /\ worker' = [worker EXCEPT ![w] = worker'[w]] /\ UNCHANGED <<files, process>>
      BY <1>0, <1>8, <2>2 DEF DownloadFails, Resume, At, WorkerStates
    <3> QED
      BY <1>0, <1>a, <1>d, <3>1
  <2> QED
    BY <2>1, <2>2
<1>9. ASSUME NEW w \in Workers, Report(w) PROVE Goal
  <2>1. Up /\ Running(worker[w]) /\ Request[w] \in Packages
    BY <1>9, RequestFacts DEF Report
  <2>2. worker[w].pc = "report" => Request[w] \in GoodPackages
    BY <2>1, LenIsGood DEF CleanInv, Knows, GoodPackages, Local, Path
  <2> QED
    BY <1>9, <1>e, <1>f, <2>1, <2>2 DEF Report, Deaths
<1>10. CASE Killed
  BY <1>10, <1>e DEF Killed, Deaths
<1>11. CASE Restart
  <2>1. \A f \in Files : /\ files'[f].exists = files[f].exists
                         /\ files'[f].len = files[f].len /\ files'[f].of = files[f].of
    BY <1>0, <1>11 DEF Restart, FileStates
  <2>2. GoodPackages' = GoodPackages
    BY <2>1, LocalFileAssumption DEF GoodPackages, Md5Good
  <2>3. ASSUME NEW w \in Workers PROVE StateOf(worker'[w], Up') = StateOf(worker[w], Up)
    <3>1. /\ Up = FALSE /\ Up' = TRUE
          /\ worker'[w] = IF Running(worker[w]) THEN [worker[w] EXCEPT !.pc = "lost"] ELSE worker[w]
      BY <1>0, <1>11 DEF Restart, Active, Up
    <3>2. CASE Running(worker[w])
      <4>1. worker'[w].pc = "lost"
        BY <1>0, <3>1, <3>2 DEF WorkerStates
      <4> QED
        BY <1>0, <3>1, <3>2, <4>1, StatesOf
    <3>3. CASE ~Running(worker[w])
      <4>1. worker[w].result \in {"none", "done", "fail"} /\ worker'[w] = worker[w]
        BY <1>0, <3>1, <3>3 DEF WorkerStates
      <4> QED
        BY <1>0, <3>1, <3>3, <4>1, StatesOf
    <3> QED
      BY <3>2, <3>3
  <2> QED
    BY <2>2, <2>3, JobIsStateOf
<1>12. CASE UNCHANGED vars
  BY <1>12 DEF vars, Job, RequestState, Active, Up, GoodPackages
<1> QED
  BY <1>1, <1>3, <1>4, <1>5, <1>6, <1>7, <1>8, <1>9, <1>10, <1>11, <1>12 DEF Next, Work

\* In the clean setting the self-updater is a file delivery (updaterwrapper.cpp:232-336).
THEOREM CleanDelivers == Clean => (Spec => Delivers)
<1> SUFFICES ASSUME Clean PROVE Spec => Delivers
  OBVIOUS
<1>1. Init => Delivery!Init /\ ResultAtEnd
  <2> SUFFICES ASSUME Init PROVE Delivery!Init /\ ResultAtEnd
    OBVIOUS
  <2>1. \A w \in Workers : worker[w] = Waiting
    BY DEF Init
  <2>2. ResultAtEnd
    BY <2>1 DEF ResultAtEnd, Waiting
  <2>3. \A w \in Workers : RequestState(w) = "new"
    BY <2>1 DEF RequestState, Waiting
  <2> QED
    BY <2>2, <2>3 DEF Delivery!Init
<1>2. TypeInv /\ CleanInv /\ ResultAtEnd /\ TypeInv' /\ CleanInv' /\ ResultAtEnd' /\ [Next]_vars
      => Delivery!Next \/ UNCHANGED <<[w \in Workers |-> RequestState(w)],
                                      {p \in Packages : Md5Good(files[LocalFile[p]], p)}>>
  BY DeliveryNext DEF Job, GoodPackages
<1>3. Init => TypeInv /\ CleanInv
  BY TypeInit, CleanInit
<1>4. TypeInv /\ CleanInv /\ ResultAtEnd /\ [Next]_vars => (TypeInv /\ CleanInv /\ ResultAtEnd)'
  BY TypeNext, CleanNext, ResultNext
<1> QED
  BY <1>1, <1>2, <1>3, <1>4, PTL DEF Spec, Delivers, Delivery!Spec

\* Where eDONE has been said the package stays there, over later requests, deaths and
\* restarts, in the clean setting (updaterwrapper.cpp:247-330).
THEOREM CleanDeliveredStaysGood ==
    ASSUME Clean
    PROVE  Spec => [](\A w \in Workers : RequestState(w) = "delivered" =>
                         Md5Good(files[LocalFile[Request[w]]], Request[w]))
<1> DEFINE Kept == \A w \in Workers : Job[w] = "delivered" => Request[w] \in GoodPackages
<1>1. Delivery!Init => Kept
  BY DEF Delivery!Init, Job
<1>2. Kept /\ [Delivery!Next]_<<[w \in Workers |-> RequestState(w)],
                         {p \in Packages : Md5Good(files[LocalFile[p]], p)}>>
      => Kept'
  <2>1. /\ Job = [w \in Workers |-> RequestState(w)]
        /\ GoodPackages = {p \in Packages : Md5Good(files[LocalFile[p]], p)}
    BY DEF Job, GoodPackages
  <2>2. /\ Job' = [w \in Workers |-> RequestState(w)]'
        /\ GoodPackages' = {p \in Packages : Md5Good(files[LocalFile[p]], p)}'
    BY DEF Job, GoodPackages
  <2>3. DOMAIN Job = Workers
    BY DEF Job
  <2> SUFFICES ASSUME Kept,
                      [Delivery!Next]_<<[w \in Workers |-> RequestState(w)],
                         {p \in Packages : Md5Good(files[LocalFile[p]], p)}>>
               PROVE  Kept'
    OBVIOUS
  <2>4. CASE UNCHANGED <<[w \in Workers |-> RequestState(w)],
                         {p \in Packages : Md5Good(files[LocalFile[p]], p)}>>
    BY <2>1, <2>2, <2>4
  <2>5. ASSUME NEW j \in Workers, Delivery!Accept(j) \/ Delivery!Fail(j) PROVE Kept'
    BY <2>1, <2>2, <2>3, <2>5 DEF Delivery!Accept, Delivery!Fail
  <2>6. ASSUME NEW j \in Workers, Delivery!Deliver(j) PROVE Kept'
    BY <2>1, <2>2, <2>3, <2>6 DEF Delivery!Deliver
  <2>7. ASSUME NEW p \in Packages, Delivery!Obtain(p) PROVE Kept'
    BY <2>1, <2>2, <2>7 DEF Delivery!Obtain
  <2>8. CASE Delivery!Lose
    BY <2>1, <2>2, <2>8 DEF Delivery!Lose, Delivery!Running
  <2> QED
    BY <2>4, <2>5, <2>6, <2>7, <2>8 DEF Delivery!Next
<1>3. Kept => \A w \in Workers : RequestState(w) = "delivered" =>
         Md5Good(files[LocalFile[Request[w]]], Request[w])
  BY DEF Job, GoodPackages
<1> HIDE DEF Kept
<1>4. Spec => Delivers
  BY CleanDelivers
<1> QED
  BY <1>1, <1>2, <1>3, <1>4, PTL DEF Delivers, Delivery!Spec

=============================================================================
