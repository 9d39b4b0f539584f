--------------------------- MODULE DlcProxyProofs ---------------------------
(***************************************************************************)
(* Theorems about DlcProxy, for any number of calls, packages and bytes    *)
(* and whatever an earlier call has left on the disk.                      *)
(***************************************************************************)
EXTENDS DlcProxy, HttpsDownloadProofs

WorkerStates ==
    [pc : Labels, current : Nat, result : {"none", "refused", "true", "false"}]

\* The setting of the weaker claim: one call at a time for a file, and a server whose
\* good answers carry the bytes of the package, be they the asked range or all of it.
TrueBytes == OnePerFile /\ Damaged = {}

\* The setting of the stronger one: the server honours ranges besides, and its error
\* answers have no body.
Clean == OnePerFile /\ GoodServer

OneCallPerFile ==
    \A v, w \in Workers : Active(v) /\ Active(w) /\ v # w => Path(v) # Path(w)

AbsentIsEmpty == \A f \in Files : ~files[f].exists => files[f].len = 0

\* What a thread knows of its file: every attempt begins where it ends, and one that
\* begins with an empty file ends with the package if it ends well.
KnowsFresh(w) ==
    /\ xfer[w].phase # "idle" => worker[w].pc = "download"
    /\ xfer[w].phase = "body" => Local(w).exists
    /\ worker[w].pc \in {"idle", "exists", "remove"} => worker[w].current = 0
    /\ worker[w].pc = "download" /\ xfer[w].phase = "idle" =>
          worker[w].current = Local(w).len
    /\ worker[w].pc = "download" /\ worker[w].current = 0 => StartsAfresh(w, Request[w])
    /\ worker[w].pc = "measure" /\ worker[w].current = 0 => Md5Good(Local(w), Request[w])

\* With a good server: once the earlier copy is gone the file holds a part of the package.
KnowsPrefix(w) ==
    /\ worker[w].pc \in {"download", "measure"} => HoldsPrefix(Request[w])
    /\ worker[w].pc = "download" => FollowsFile(w, Request[w]) /\ worker[w].current < Want(w)

Knows(w) == KnowsFresh(w) /\ (GoodServer => KnowsPrefix(w))

CallInv == OneCallPerFile /\ AbsentIsEmpty /\ \A w \in Workers : Knows(w)

-----------------------------------------------------------------------------
\* What a call looks at has its type.
LEMMA RequestFacts ==
    ASSUME TypeOK, NEW w \in Workers
    PROVE  /\ Request[w] \in Packages /\ Path(w) \in Files /\ Path(w) = LocalFile[Request[w]]
           /\ Local(w) \in FileStates /\ Local(w).len \in Nat
           /\ Want(w) \in Nat /\ Want(w) > 0 /\ Want(w) = Size[Request[w]]
           /\ worker[w].current \in Nat
BY RequestAssumption, LocalFileAssumption, SizeAssumption
   DEF TypeOK, HttpsTypeOK, FileStates, Want, Path, Local

\* Type correctness holds when the process starts.
LEMMA TypeInit == Init => TypeOK
<1> SUFFICES ASSUME Init PROVE TypeOK
  OBVIOUS
<1>1. files \in [Files -> FileStates]
  BY LeftoversAssumption DEF Init, FileStates, Contents
<1>2. HttpsTypeOK
  BY <1>1, NoTransferType DEF Init, HttpsTypeOK
<1> QED
  BY <1>2 DEF Init, TypeOK, Waiting, Labels

\* No step of a call, no death and no restart breaks type correctness.
LEMMA TypeNext == TypeOK /\ [Next]_vars => TypeOK'
<1> SUFFICES ASSUME TypeOK, [Next]_vars PROVE TypeOK'
  OBVIOUS
<1> USE DEF Path, Local, At
<1>0. /\ HttpsTypeOK /\ files \in [Files -> FileStates]
      /\ xfer \in [Workers -> Transfers] /\ process \in Deaths \cup {"up"}
      /\ worker \in [Workers -> WorkerStates]
      /\ \A w \in Workers : worker[w].result # "none" => worker[w].pc = "end"
  BY DEF TypeOK, HttpsTypeOK, WorkerStates
<1>a. ASSUME HttpsTypeOK', worker' \in [Workers -> WorkerStates],
             \A w \in Workers : worker'[w].result # "none" => worker'[w].pc = "end"
      PROVE  TypeOK'
  BY <1>a DEF TypeOK, WorkerStates
<1>b. ASSUME NEW w \in Workers, NEW label \in Labels, worker[w].pc # "end", Goto(w, label)
      PROVE  /\ worker' \in [Workers -> WorkerStates]
             /\ \A v \in Workers : worker'[v].result # "none" => worker'[v].pc = "end"
  BY <1>0, <1>b DEF Goto, WorkerStates
<1>c. ASSUME NEW w \in Workers, NEW result \in {"refused", "true", "false"}, Return(w, result)
      PROVE  /\ worker' \in [Workers -> WorkerStates]
             /\ \A v \in Workers : worker'[v].result # "none" => worker'[v].pc = "end"
  BY <1>0, <1>c DEF Return, WorkerStates, Labels
<1>d. ASSUME UNCHANGED disk PROVE HttpsTypeOK'
  BY <1>0, <1>d DEF disk, HttpsTypeOK
<1>e. ASSUME NEW cause \in Deaths, DieIn(cause) PROVE TypeOK'
  BY <1>0, <1>a, <1>e DEF DieIn, Die, HttpsTypeOK
<1>1. ASSUME NEW w \in Workers, DistributeFile(w) PROVE TypeOK'
  <2>1. CASE DieIn("abort")
    BY <1>e, <2>1 DEF Deaths
  <2>2. CASE ~DieIn("abort")
    <3>1. UNCHANGED disk /\ worker[w].pc # "end" /\ (Goto(w, "exists") \/ Return(w, "refused"))
      BY <1>1, <2>2 DEF DistributeFile
    <3> QED
      BY <1>a, <1>b, <1>c, <1>d, <3>1 DEF Labels
  <2> QED
    BY <2>1, <2>2
<1>2. ASSUME NEW w \in Workers, Exists(w) PROVE TypeOK'
  BY <1>2, <1>a, <1>b, <1>d DEF Exists, Labels
<1>3. ASSUME NEW w \in Workers, Remove(w) PROVE TypeOK'
  <2>1. HttpsTypeOK'
    BY <1>0, <1>3, NoFileType, RequestFacts DEF Remove, HttpsTypeOK
  <2> QED
    BY <1>3, <1>a, <1>b, <2>1 DEF Remove, Labels
<1>4. ASSUME NEW w \in Workers, Download(w) PROVE TypeOK'
  <2>1. HttpsTypeOK'
    BY <1>0, <1>4, RequestFacts, DownloadFromType, TransferType DEF Download
  <2> QED
    BY <1>0, <1>4, <1>a, <2>1 DEF Download
<1>5. ASSUME NEW w \in Workers, DownloadSucceeds(w) PROVE TypeOK'
  <2>1. HttpsTypeOK'
    BY <1>0, <1>5, NoTransferType DEF DownloadSucceeds, HttpsTypeOK
  <2> QED
    BY <1>5, <1>a, <1>b, <2>1 DEF DownloadSucceeds, Labels
<1>6. ASSUME NEW w \in Workers, DownloadFails(w) PROVE TypeOK'
  <2>1. CASE DieIn("terminate") \/ DieIn("abort")
    BY <1>e, <2>1 DEF Deaths
  <2>2. CASE ~(DieIn("terminate") \/ DieIn("abort"))
    <3>1. /\ worker' = [worker EXCEPT ![w].current = Local(w).len]
          /\ xfer' = [xfer EXCEPT ![w] = NoTransfer]
          /\ UNCHANGED <<files, process>>
      BY <1>6, <2>2 DEF DownloadFails
    <3>2. HttpsTypeOK'
      BY <1>0, <3>1, NoTransferType DEF HttpsTypeOK
    <3>3. Local(w).len \in Nat
      BY RequestFacts
    <3>4. /\ worker' \in [Workers -> WorkerStates]
          /\ \A v \in Workers : worker'[v].result # "none" => worker'[v].pc = "end"
      BY <1>0, <3>1, <3>3 DEF WorkerStates
    <3> QED
      BY <1>a, <3>2, <3>4
  <2> QED
    BY <2>1, <2>2
<1>7. ASSUME NEW w \in Workers, DistributeResult(w) PROVE TypeOK'
  BY <1>7, <1>a, <1>c, <1>d, <1>e DEF DistributeResult, Deaths
<1>8. CASE Killed
  BY <1>8, <1>e DEF Killed, Deaths
<1>9. CASE Restart
  <2>1. \A f \in Files : [files[f] EXCEPT !.writers = {}] \in FileStates
    BY <1>0 DEF FileStates
  <2>2. HttpsTypeOK'
    BY <1>9, <2>1, NoTransferType DEF Restart, HttpsTypeOK
  <2>3. /\ worker' \in [Workers -> WorkerStates]
        /\ \A w \in Workers : worker'[w].result # "none" => worker'[w].pc = "end"
    BY <1>0, <1>9 DEF Restart, Active, WorkerStates, Labels
  <2> QED
    BY <1>a, <2>2, <2>3
<1>10. CASE UNCHANGED vars
  BY <1>0, <1>10, <1>a, <1>d DEF vars, disk
<1> QED
  BY <1>1, <1>2, <1>3, <1>4, <1>5, <1>6, <1>7, <1>8, <1>9, <1>10 DEF Next, Work

\* The types of all variables; a result comes only with the end of its call.
THEOREM TypeCorrect == Spec => []TypeOK
BY TypeInit, TypeNext, PTL DEF Spec

-----------------------------------------------------------------------------
\* A call whose file, transfer and locals are as they were knows what it knew.
LEMMA KnowsStays ==
    ASSUME TypeOK, NEW v \in Workers, Knows(v), files'[Path(v)] = files[Path(v)],
           xfer'[v] = xfer[v], worker'[v] = worker[v]
    PROVE  Knows(v)'
<1>1. Path(v) = LocalFile[Request[v]] /\ Path(v)' = LocalFile[Request[v]]
  BY DEF Path
<1> QED
  BY <1>1 DEF Knows, KnowsFresh, KnowsPrefix, HoldsPrefix, FollowsFile, StartsAfresh,
              Md5Good, Local, Want, GoodServer

\* A call that has not begun, or is over, knows nothing that could be wrong.
LEMMA KnowsIdle ==
    ASSUME NEW v \in Workers, xfer'[v].phase = "idle",
           worker'[v].pc \notin {"download", "measure"},
           worker'[v].pc \in {"idle", "exists", "remove"} => worker'[v].current = 0
    PROVE  Knows(v)'
BY DEF Knows, KnowsFresh, KnowsPrefix

\* A step of one call that leaves the files and the transfers of the others alone:
\* the others know what they knew.
LEMMA OwnStep ==
    ASSUME TypeOK, CallInv, NEW w \in Workers,
           \A v \in Workers \ {w} : Active(v) => Path(v) # Path(w),
           \A f \in Files \ {Path(w)} : files'[f] = files[f],
           ~files'[Path(w)].exists => files'[Path(w)].len = 0,
           \A v \in Workers \ {w} : xfer'[v] = xfer[v] /\ worker'[v] = worker[v],
           Knows(w)'
    PROVE  CallInv'
<1>1. OneCallPerFile'
  BY DEF CallInv, OneCallPerFile, Active, Path
<1>2. AbsentIsEmpty'
  BY DEF CallInv, AbsentIsEmpty
<1>3. ASSUME NEW v \in Workers, v # w PROVE Knows(v)'
  <2>1. Knows(v) /\ xfer'[v] = xfer[v] /\ worker'[v] = worker[v]
    BY <1>3 DEF CallInv
  <2>2. CASE Active(v)
    <3>1. files'[Path(v)] = files[Path(v)]
      BY <1>3, <2>2, RequestFacts
    <3> QED
      BY <2>1, <3>1, KnowsStays
  <2>3. CASE ~Active(v)
    <3>1. /\ worker[v].pc \in {"idle", "end", "lost"} /\ xfer[v].phase = "idle"
          /\ worker[v].pc = "idle" => worker[v].current = 0
      BY <2>1, <2>3 DEF Knows, KnowsFresh, Active
    <3> QED
      BY <2>1, <3>1, KnowsIdle
  <2> QED
    BY <2>2, <2>3
<1> QED
  BY <1>1, <1>2, <1>3 DEF CallInv

\* The end of the process touches no file and no call.
LEMMA DeathKeepsCallInv ==
    ASSUME TypeOK, CallInv, NEW cause, DieIn(cause)
    PROVE  CallInv'
<1>1. files' = files /\ xfer' = xfer /\ worker' = worker
  BY DEF DieIn, Die
<1>2. \A v \in Workers : Knows(v)'
  BY <1>1, KnowsStays DEF CallInv
<1> QED
  BY <1>1, <1>2 DEF CallInv, OneCallPerFile, AbsentIsEmpty, Active, Path

\* A step of DownloadFrom() keeps what the call knows of its file (dlc-proxy.cpp:101-121).
LEMMA DownloadKeepsCallInv ==
    ASSUME TypeOK, CallInv, TrueBytes, NEW w \in Workers, Download(w)
    PROVE  CallInv'
<1> DEFINE p == Request[w]
           n == worker[w].current
<1>1. /\ worker[w].pc = "download" /\ worker' = worker /\ Knows(w) /\ Damaged = {}
      /\ p \in Packages /\ Path(w) \in Files /\ Path(w) = LocalFile[p]
      /\ Local(w) = files[LocalFile[p]] /\ Local(w)' = files'[LocalFile[p]]
      /\ Want(w) = Size[p] /\ HttpsTypeOK
  BY RequestFacts DEF Download, At, CallInv, Path, Local, TypeOK, TrueBytes
<1>2. \A v \in Workers \ {w} : Active(v) => Path(v) # Path(w)
  BY <1>1 DEF CallInv, OneCallPerFile, Active
<1>3. KnowsFresh(w) /\ (GoodServer => HoldsPrefix(p) /\ FollowsFile(w, p) /\ n < Size[p])
  BY <1>1 DEF Knows, KnowsPrefix
<1>4. \/ DownloadFrom(w, p, n) /\ n = files[LocalFile[p]].len /\ xfer[w].phase = "idle"
      \/ Transfer(w, p)
  BY <1>1, <1>3 DEF Download, DownloadFrom, KnowsFresh
<1>5. GoodServer => HoldsPrefix(p)' /\ FollowsFile(w, p)'
  BY <1>1, <1>3, <1>4, DownloadFollows
<1>6. OnlyItsOwn(w, p)
  BY <1>1, <1>3, <1>4, DownloadIsItsOwn DEF KnowsFresh
<1>7. CASE UNCHANGED <<files, xfer>>
  <2>1. \A v \in Workers : Knows(v)'
    BY <1>1, <1>7, KnowsStays DEF CallInv
  <2> QED
    BY <1>1, <1>7, <2>1 DEF CallInv, OneCallPerFile, AbsentIsEmpty, Active, Path
<1>8. CASE ~(UNCHANGED <<files, xfer>>)
  <2>1. xfer'[w].phase # "idle"
    BY <1>6, <1>8 DEF OnlyItsOwn
  <2>2. n = 0 => StartsAfresh(w, p)'
    BY <1>1, <1>3, <1>4, DownloadStartsAfresh DEF KnowsFresh
  <2>3. xfer'[w].phase = "body" => files'[LocalFile[p]].exists
    <3>1. CASE DownloadFrom(w, p, n)
      BY <1>1, <1>8, <3>1 DEF DownloadFrom, Die, Opened, HttpsTypeOK, FileStates
    <3>2. CASE Transfer(w, p)
      <4>1. xfer[w].phase = "body"
        BY <3>2 DEF Transfer, Receive, Complete, Interrupted
      <4> QED
        BY <1>1, <1>3, <1>6, <4>1 DEF KnowsFresh, OnlyItsOwn
    <3> QED
      BY <1>4, <3>1, <3>2
  <2>4. KnowsFresh(w)'
    BY <1>1, <2>1, <2>2, <2>3 DEF KnowsFresh
  <2>5. Knows(w)'
    BY <1>1, <1>3, <1>5, <2>4 DEF Knows, KnowsPrefix, Want, GoodServer
  <2>6. ~files'[Path(w)].exists => files'[Path(w)].len = 0
    BY <1>1, <1>6 DEF OnlyItsOwn, CallInv, AbsentIsEmpty
  <2> QED
    BY <1>1, <1>2, <1>6, <2>5, <2>6, OwnStep DEF OnlyItsOwn
<1> QED
  BY <1>7, <1>8

\* In that setting every step keeps what the calls know.
LEMMA CallInvNext == TypeOK /\ CallInv /\ TrueBytes /\ [Next]_vars => CallInv'
<1> SUFFICES ASSUME TypeOK, CallInv, TrueBytes, [Next]_vars PROVE CallInv'
  OBVIOUS
<1> USE DEF At, Goto, Return
<1>0. /\ worker \in [Workers -> WorkerStates] /\ xfer \in [Workers -> Transfers]
      /\ files \in [Files -> FileStates] /\ \A w \in Workers : Knows(w)
  BY DEF TypeOK, HttpsTypeOK, CallInv, WorkerStates
<1>a. ASSUME NEW w \in Workers, Active(w)
      PROVE  \A v \in Workers \ {w} : Active(v) => Path(v) # Path(w)
  BY <1>a DEF CallInv, OneCallPerFile
<1>b. ASSUME NEW w \in Workers, files' = files, Knows(w)',
             \A v \in Workers \ {w} : Active(v) => Path(v) # Path(w),
             \A v \in Workers \ {w} : xfer'[v] = xfer[v] /\ worker'[v] = worker[v]
      PROVE  CallInv'
  BY <1>b, OwnStep, RequestFacts DEF CallInv, AbsentIsEmpty
<1>c. ASSUME NEW w \in Workers, worker[w].pc # "download"
      PROVE  xfer[w].phase = "idle"
  BY <1>0, <1>c DEF Knows, KnowsFresh
<1>d. ASSUME NEW w \in Workers, files'[Path(w)].len = 0, xfer'[w].phase = "idle",
             worker'[w].pc = "download", worker'[w].current = 0
      PROVE  Knows(w)'
  <2>1. files'[LocalFile[Request[w]]].len = 0 /\ Local(w)'.len = 0
        /\ 0 < Size[Request[w]] /\ 0 <= Size[Request[w]]
    BY <1>d, RequestFacts DEF Path, Local
  <2>2. StartsAfresh(w, Request[w])'
    BY <1>d, <2>1 DEF StartsAfresh
  <2>3. HoldsPrefix(Request[w])' /\ FollowsFile(w, Request[w])'
    BY <1>d, <2>1 DEF HoldsPrefix, FollowsFile, PrefixOf
  <2> QED
    BY <1>d, <2>1, <2>2, <2>3 DEF Knows, KnowsFresh, KnowsPrefix, Want
<1>1. ASSUME NEW w \in Workers, DistributeFile(w) PROVE CallInv'
  <2>1. CASE DieIn("abort")
    BY <2>1, DeathKeepsCallInv
  <2>2. CASE ~DieIn("abort")
    <3>1. \A v \in Workers \ {w} : Active(v) => Path(v) # Path(w)
      BY <1>1 DEF DistributeFile, TrueBytes
    <3>2. worker[w].pc = "idle" /\ worker[w].current = 0 /\ xfer[w].phase = "idle"
      BY <1>0, <1>1, <1>c DEF DistributeFile, Knows, KnowsFresh
    <3>3. /\ files' = files /\ xfer' = xfer
          /\ worker'[w].pc \in {"exists", "end"} /\ worker'[w].current = 0
          /\ \A v \in Workers \ {w} : worker'[v] = worker[v]
      BY <1>0, <1>1, <2>2, <3>2 DEF DistributeFile, disk, WorkerStates
    <3>4. Knows(w)'
      BY <3>2, <3>3, KnowsIdle
    <3> QED
      BY <1>b, <3>1, <3>3, <3>4
  <2> QED
    BY <2>1, <2>2
<1>2. ASSUME NEW w \in Workers, Exists(w) PROVE CallInv'
  <2>1. /\ files' = files /\ xfer' = xfer /\ xfer[w].phase = "idle" /\ Active(w)
        /\ worker[w].current = 0 /\ worker'[w].current = 0
        /\ \A v \in Workers \ {w} : worker'[v] = worker[v]
    BY <1>0, <1>2, <1>c DEF Exists, disk, WorkerStates, Knows, KnowsFresh, Active
  <2>2. worker'[w].pc = "remove" \/ (worker'[w].pc = "download" /\ files[Path(w)].len = 0)
    BY <1>0, <1>2, RequestFacts DEF Exists, WorkerStates, CallInv, AbsentIsEmpty, Local
  <2>3. Knows(w)'
    BY <1>d, <2>1, <2>2, KnowsIdle
  <2> QED
    BY <1>a, <1>b, <2>1, <2>3
<1>3. ASSUME NEW w \in Workers, Remove(w) PROVE CallInv'
  <2>1. /\ files' = [files EXCEPT ![Path(w)] = NoFile] /\ xfer' = xfer
        /\ xfer[w].phase = "idle" /\ Active(w)
        /\ worker'[w].pc = "download" /\ worker'[w].current = 0
        /\ \A v \in Workers \ {w} : worker'[v] = worker[v]
    BY <1>0, <1>3, <1>c DEF Remove, WorkerStates, Knows, KnowsFresh, Active
  <2>2. files'[Path(w)] = NoFile /\ files'[Path(w)].len = 0
    BY <1>0, <2>1, RequestFacts DEF NoFile
  <2>3. Knows(w)'
    BY <1>d, <2>1, <2>2
  <2>4. \A f \in Files \ {Path(w)} : files'[f] = files[f]
    BY <1>0, <2>1
  <2> QED
    BY <1>a, <2>1, <2>2, <2>3, <2>4, OwnStep
<1>4. ASSUME NEW w \in Workers, Download(w) PROVE CallInv'
  BY <1>4, DownloadKeepsCallInv
<1>5. ASSUME NEW w \in Workers, DownloadSucceeds(w) PROVE CallInv'
  <2>1. /\ files' = files /\ xfer'[w] = NoTransfer /\ Active(w) /\ Knows(w)
        /\ worker[w].pc = "download" /\ xfer[w].phase = "ok"
        /\ worker'[w].pc = "measure" /\ worker'[w].current = worker[w].current
        /\ \A v \in Workers \ {w} : xfer'[v] = xfer[v] /\ worker'[v] = worker[v]
    BY <1>0, <1>5 DEF DownloadSucceeds, WorkerStates, Active
  <2>2. worker[w].current = 0 => Md5Good(Local(w), Request[w])
    BY <2>1 DEF Knows, KnowsFresh, StartsAfresh, Local, Path
  <2>3. worker[w].current = 0 => Md5Good(Local(w), Request[w])'
    BY <2>1, <2>2 DEF Md5Good, Local, Path
  <2>4. KnowsFresh(w)'
    BY <2>1, <2>3 DEF KnowsFresh, NoTransfer
  <2>5. GoodServer => KnowsPrefix(w)'
    BY <2>1 DEF Knows, KnowsPrefix, HoldsPrefix
  <2>6. Knows(w)'
    BY <2>4, <2>5 DEF Knows, GoodServer
  <2> QED
    BY <1>a, <1>b, <2>1, <2>6
<1>6. ASSUME NEW w \in Workers, DownloadFails(w) PROVE CallInv'
  <2>1. CASE DieIn("terminate") \/ DieIn("abort")
    BY <2>1, DeathKeepsCallInv
  <2>2. CASE ~(DieIn("terminate") \/ DieIn("abort"))
    <3>1. /\ files' = files /\ xfer'[w] = NoTransfer /\ Active(w) /\ Knows(w)
          /\ worker[w].pc = "download" /\ xfer[w].phase = "failed"
          /\ worker'[w].pc = "download" /\ worker'[w].current = files[Path(w)].len
          /\ \A v \in Workers \ {w} : xfer'[v] = xfer[v] /\ worker'[v] = worker[v]
      BY <1>0, <1>6, <2>2 DEF DownloadFails, WorkerStates, Active, Local
    <3>2. Path(w) = LocalFile[Request[w]] /\ Path(w)' = LocalFile[Request[w]]
      BY DEF Path
    <3>3. KnowsFresh(w)'
      BY <3>1, <3>2 DEF KnowsFresh, StartsAfresh, NoTransfer, Local
    <3>4. GoodServer => KnowsPrefix(w)'
      BY <3>1, <3>2 DEF Knows, KnowsPrefix, HoldsPrefix, FollowsFile, NoTransfer, Want
    <3>5. Knows(w)'
      BY <3>3, <3>4 DEF Knows, GoodServer
    <3> QED
      BY <1>a, <1>b, <3>1, <3>5
  <2> QED
    BY <2>1, <2>2
<1>7. ASSUME NEW w \in Workers, DistributeResult(w) PROVE CallInv'
  <2>1. CASE DieIn("terminate")
    BY <2>1, DeathKeepsCallInv
  <2>2. CASE ~DieIn("terminate")
    <3>1. /\ files' = files /\ xfer' = xfer /\ xfer[w].phase = "idle" /\ Active(w)
          /\ worker'[w].pc = "end"
          /\ \A v \in Workers \ {w} : worker'[v] = worker[v]
      BY <1>0, <1>7, <1>c, <2>2 DEF DistributeResult, disk, WorkerStates, Active
    <3>2. Knows(w)'
      BY <3>1, KnowsIdle
    <3> QED
      BY <1>a, <1>b, <3>1, <3>2
  <2> QED
    BY <2>1, <2>2
<1>8. CASE Killed
  BY <1>8, DeathKeepsCallInv DEF Killed
<1>9. CASE Restart
  <2>1. AbsentIsEmpty'
    BY <1>0, <1>9 DEF Restart, FileStates, CallInv, AbsentIsEmpty
  <2>2. \A w \in Workers :
            /\ worker'[w].pc \in {"idle", "end", "lost"} /\ xfer'[w] = NoTransfer
            /\ worker'[w].pc = "idle" => worker'[w].current = 0
    BY <1>0, <1>9 DEF Restart, Active, WorkerStates, Knows, KnowsFresh
  <2>3. \A w \in Workers : Knows(w)'
    BY <2>2, KnowsIdle DEF NoTransfer
  <2> QED
    BY <2>1, <2>2, <2>3 DEF CallInv, OneCallPerFile, Active
<1>10. CASE UNCHANGED vars
  <2>1. \A w \in Workers : Knows(w)'
    BY <1>0, <1>10, KnowsStays DEF vars
  <2> QED
    BY <1>10, <2>1 DEF vars, CallInv, OneCallPerFile, AbsentIsEmpty, Active, Path
<1> QED
  BY <1>1, <1>2, <1>3, <1>4, <1>5, <1>6, <1>7, <1>8, <1>9, <1>10 DEF Next, Work

\* With one call at a time for a file and the bytes of the packages in the good
\* answers, every call knows that of its file.
LEMMA CallsKnow == TrueBytes => (Spec => [](TypeOK /\ CallInv))
<1> SUFFICES ASSUME TrueBytes PROVE Spec => [](TypeOK /\ CallInv)
  OBVIOUS
<1>1. Init => CallInv
  <2> SUFFICES ASSUME Init PROVE CallInv
    OBVIOUS
  <2>1. \A w \in Workers : /\ worker[w].pc = "idle" /\ worker[w].current = 0
                           /\ xfer[w].phase = "idle"
    BY DEF Init, Waiting, NoTransfer
  <2>2. AbsentIsEmpty
    BY LeftoversAssumption DEF Init, AbsentIsEmpty
  <2> QED
    BY <2>1, <2>2 DEF CallInv, OneCallPerFile, Active, Knows, KnowsFresh, KnowsPrefix
<1> QED
  BY <1>1, TypeInit, TypeNext, CallInvNext, PTL DEF Spec

-----------------------------------------------------------------------------
\* Only the call itself tells its result, of the size it has measured.
LEMMA WhoTellsTrue ==
    ASSUME TypeOK, [Next]_vars, NEW w \in Workers, TellsTrue(w)
    PROVE  /\ files' = files /\ worker[w].pc = "measure"
           /\ Local(w).exists /\ Local(w).len = Want(w)
<1> DEFINE Goal == /\ files' = files /\ worker[w].pc = "measure"
                   /\ Local(w).exists /\ Local(w).len = Want(w)
<1> USE DEF TellsTrue, Goto, Return
<1>0. worker \in [Workers -> WorkerStates] /\ worker'[w] # worker[w]
  BY DEF TypeOK, WorkerStates
<1>1. ASSUME NEW v \in Workers, DistributeFile(v) \/ Exists(v) \/ Remove(v) PROVE Goal
  <2>1. worker' = worker \/ Return(v, "refused") \/ \E label : Goto(v, label)
    BY <1>1 DEF DistributeFile, Exists, Remove, DieIn
  <2> QED
    BY <1>0, <2>1 DEF WorkerStates
<1>2. ASSUME NEW v \in Workers, Download(v) \/ DownloadSucceeds(v) \/ DownloadFails(v)
      PROVE  Goal
  BY <1>0, <1>2 DEF Download, DownloadSucceeds, DownloadFails, DieIn, WorkerStates
<1>3. ASSUME NEW v \in Workers, DistributeResult(v) PROVE Goal
  <2>1. v = w /\ Local(w).exists /\ files' = files /\ worker[w].pc = "measure"
    BY <1>0, <1>3 DEF DistributeResult, DieIn, disk, At
  <2> QED
    BY <1>0, <1>3, <2>1 DEF DistributeResult, WorkerStates
<1>4. CASE Killed \/ Restart \/ UNCHANGED vars
  BY <1>0, <1>4 DEF Killed, Restart, DieIn, vars, WorkerStates
<1> QED
  BY <1>1, <1>2, <1>3, <1>4 DEF Next, Work

\* Whatever an earlier call had left, whatever failed and however the server answers a
\* range: when no failed attempt has left a byte, the orchestrator is told true of the
\* package only, although the size alone is looked at (dlc-proxy.cpp:123-127).
THEOREM FreshTrueMeansGoodAlways == TrueBytes => (Spec => FreshTrueMeansGood)
<1> SUFFICES ASSUME TrueBytes PROVE Spec => FreshTrueMeansGood
  OBVIOUS
<1>1. ASSUME TypeOK, CallInv, [Next]_vars, NEW w \in Workers, TellsTrue(w),
             worker[w].current = 0
      PROVE  Md5Good(Local(w), Request[w])'
  <2>1. files' = files /\ worker[w].pc = "measure"
    BY <1>1, WhoTellsTrue
  <2>2. Md5Good(Local(w), Request[w])
    BY <1>1, <2>1 DEF CallInv, Knows, KnowsFresh
  <2> QED
    BY <2>1, <2>2 DEF Md5Good, Local, Path
<1>2. TypeOK /\ CallInv /\ [Next]_vars =>
         [\A w \in Workers :
             TellsTrue(w) /\ worker[w].current = 0 => Md5Good(Local(w), Request[w])']_vars
  BY <1>1
<1>3. Spec => [](TypeOK /\ CallInv)
  BY CallsKnow
<1> QED
  BY <1>2, <1>3, PTL DEF Spec, FreshTrueMeansGood

\* The orchestrator is told true only of the package, over any number of retries and
\* restarts, if the server honours ranges and its error answers have no body: the run
\* DP_error_body shows that it is not without the latter (https_download.cpp:157).
THEOREM CleanTrueMeansGood == Clean => (Spec => TrueMeansGood)
<1> SUFFICES ASSUME Clean PROVE Spec => TrueMeansGood
  OBVIOUS
<1>1. ASSUME TypeOK, CallInv, [Next]_vars, NEW w \in Workers, TellsTrue(w)
      PROVE  Md5Good(Local(w), Request[w])'
  <2>1. /\ files' = files /\ worker[w].pc = "measure"
        /\ Local(w).exists /\ Local(w).len = Want(w)
    BY <1>1, WhoTellsTrue
  <2>2. Local(w) = files[LocalFile[Request[w]]] /\ Want(w) = Size[Request[w]] /\ Want(w) > 0
    BY <1>1, RequestFacts DEF Local, Path
  <2>3. PrefixOf(Local(w), Request[w])
    BY <1>1, <2>1, <2>2 DEF CallInv, Knows, KnowsPrefix, HoldsPrefix, Clean
  <2>4. Md5Good(Local(w), Request[w])
    BY <2>1, <2>2, <2>3 DEF Md5Good, PrefixOf
  <2>5. Local(w)' = Local(w)
    BY <2>1 DEF Local, Path
  <2> QED
    BY <2>4, <2>5 DEF Md5Good
<1>2. TypeOK /\ CallInv /\ [Next]_vars =>
         [\A w \in Workers : TellsTrue(w) => Md5Good(Local(w), Request[w])']_vars
  BY <1>1
<1>3. Spec => [](TypeOK /\ CallInv)
  BY CallsKnow DEF Clean, TrueBytes, GoodServer
<1> QED
  BY <1>2, <1>3, PTL DEF Spec, TrueMeansGood

=============================================================================
