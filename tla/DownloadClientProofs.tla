------------------------ MODULE DownloadClientProofs ------------------------
(***************************************************************************)
(* What the DLC's downloads promise, for any number of requests, packages  *)
(* and bytes, any files left by an earlier run, any server, crashes and    *)
(* both builds: a package that a request has checked stays good until      *)
(* "PackageReady" says so, and the assertions of the loop hold, provided   *)
(* that no two running requests, and no two packages of a request, share   *)
(* a local file.                                                           *)
(***************************************************************************)
EXTENDS DownloadClient, HttpsDownloadProofs

Threads ==
    [pc : Labels, at : Nat \ {0}, current : Nat,
     repeat : 0..MAX_REPEAT_DOWNLOAD_COUNT, success : BOOLEAN]

\* The labels at which a thread deals with one package.
AtPackage ==
    {"filesize", "exists", "size", "md5", "remove", "removed", "download",
     "measured", "verify"}

\* A thread at a package is inside its manifest, and enters the loop with an
\* attempt left.
Inside(w, r) ==
    /\ r.pc = "idle" => r.at = 1
    /\ r.pc \in AtPackage => r.at <= Len(Manifest[w])
    /\ r.pc \in {"ready", "report"} => r.at <= Len(Manifest[w]) \/ r.at = 1
    /\ r.pc = "download" => r.repeat < MAX_REPEAT_DOWNLOAD_COUNT

TypeInv == TypeOK /\ \A w \in Workers : Inside(w, worker[w])

\* The package of a thread that is at one, and its local file.
LEMMA PackageType ==
    ASSUME TypeInv, NEW w \in Workers, worker[w].pc \in AtPackage
    PROVE  /\ worker[w].at \in 1..Len(Manifest[w])
           /\ Pkg(w) \in Packages /\ Path(w) \in Files
           /\ Want(w) \in Nat /\ Local(w) \in FileStates /\ Local(w).len \in Nat
<1>1. worker[w] \in Threads /\ Manifest[w] \in Seq(Packages)
  BY ManifestAssumption DEF TypeInv, TypeOK, Threads
<1>2. worker[w].at \in Nat \ {0} /\ worker[w].at <= Len(Manifest[w])
  BY <1>1 DEF TypeInv, Inside, Threads
<1>3. worker[w].at \in 1..Len(Manifest[w])
  BY <1>1, <1>2
<1>4. Pkg(w) \in Packages
  BY <1>1, <1>3 DEF Pkg
<1>5. Path(w) \in Files /\ Want(w) \in Nat
  BY <1>4, LocalFileAssumption, SizeAssumption DEF Path, Want
<1>6. Local(w) \in FileStates
  BY <1>5 DEF Local, TypeInv, TypeOK, HttpsTypeOK
<1> QED
  BY <1>3, <1>4, <1>5, <1>6 DEF FileStates

\* A step of one thread keeps the types if it leaves its own record in order.
LEMMA ThreadStep ==
    ASSUME TypeInv, NEW w \in Workers, NEW r \in Threads, Inside(w, r),
           worker' = [worker EXCEPT ![w] = r], HttpsTypeOK',
           L1_Manifest' \in Workers \cup {None}, storing' \subseteq Workers,
           reported' \subseteq Workers
    PROVE  TypeInv'
<1>1. worker \in [Workers -> Threads]
  BY DEF TypeInv, TypeOK, Threads
<1>2. worker' \in [Workers -> Threads]
  BY <1>1
<1>3. \A v \in Workers : Inside(v, worker'[v])
  BY <1>1 DEF TypeInv
<1> QED
  BY <1>2, <1>3 DEF TypeInv, TypeOK, Threads, Inside

\* A death changes the process alone.
LEMMA DeathType ==
    ASSUME TypeInv, NEW cause \in Deaths, DieIn(cause)
    PROVE  TypeInv'
BY DEF TypeInv, TypeOK, HttpsTypeOK, DieIn, Die, link, Inside

\* The records a thread may leave behind when it only goes to another label.
LEMMA GotoType ==
    ASSUME TypeInv, NEW w \in Workers, NEW label \in Labels, Goto(w, label),
           Inside(w, [worker[w] EXCEPT !.pc = label]), HttpsTypeOK',
           L1_Manifest' \in Workers \cup {None}, storing' \subseteq Workers,
           reported' \subseteq Workers
    PROVE  TypeInv'
<1>1. worker \in [Workers -> Threads]
  BY DEF TypeInv, TypeOK, Threads
<1> DEFINE r == [worker[w] EXCEPT !.pc = label]
<1>2. r \in Threads
  BY <1>1 DEF Threads
<1>3. worker' = [worker EXCEPT ![w] = r]
  BY <1>1 DEF Goto
<1> QED
  BY <1>2, <1>3, ThreadStep

-----------------------------------------------------------------------------
\* The thread's next record when it begins to download.
LEMMA StartFromType ==
    ASSUME TypeInv, NEW w \in Workers, NEW n \in Nat, StartFrom(w, n),
           worker[w].pc \in AtPackage, HttpsTypeOK', UNCHANGED link
    PROVE  TypeInv'
<1>1. worker \in [Workers -> Threads] /\ worker[w].at <= Len(Manifest[w])
  BY DEF TypeInv, TypeOK, Threads, Inside
<1> DEFINE r == [worker[w] EXCEPT !.pc = "download", !.current = n, !.repeat = 0,
                                  !.success = FALSE]
<1>2. worker' = [worker EXCEPT ![w] = r]
  BY <1>1 DEF StartFrom
<1>3. 0 \in 0..MAX_REPEAT_DOWNLOAD_COUNT /\ 0 < MAX_REPEAT_DOWNLOAD_COUNT
  BY MaxRepeatAssumption
<1>4. r \in Threads
  BY <1>1, <1>3 DEF Threads, Labels
<1>5. r.pc = "download" /\ r.at = worker[w].at /\ r.repeat = 0
  BY <1>1 DEF Threads
<1> HIDE DEF r
<1>6. Inside(w, r)
  BY <1>1, <1>3, <1>5 DEF Inside
<1> QED
  BY <1>2, <1>4, <1>6, ThreadStep DEF TypeInv, TypeOK, link

\* The thread's next record when its package is good.
LEMMA NextPackageType ==
    ASSUME TypeInv, NEW w \in Workers, NextPackage(w),
           worker[w].pc \in AtPackage, HttpsTypeOK', UNCHANGED link
    PROVE  TypeInv'
<1>1. worker \in [Workers -> Threads] /\ worker[w].at \in 1..Len(Manifest[w])
  BY PackageType DEF TypeInv, TypeOK, Threads
<1>2. Len(Manifest[w]) \in Nat
  BY ManifestAssumption
<1>3. CASE worker[w].at < Len(Manifest[w])
  <2> DEFINE r == [worker[w] EXCEPT !.pc = "filesize", !.at = worker[w].at + 1]
  <2>1. worker' = [worker EXCEPT ![w] = r]
    BY <1>1, <1>3 DEF NextPackage
  <2>2. worker[w].at + 1 \in Nat \ {0} /\ worker[w].at + 1 <= Len(Manifest[w])
    BY <1>1, <1>2, <1>3
  <2>3. r \in Threads
    BY <1>1, <2>2 DEF Threads, Labels
  <2>4. r.pc = "filesize" /\ r.at = worker[w].at + 1
    BY <1>1 DEF Threads
  <2> HIDE DEF r
  <2>5. Inside(w, r)
    BY <2>2, <2>4 DEF Inside
  <2> QED
    BY <2>1, <2>3, <2>5, ThreadStep DEF TypeInv, TypeOK, link
<1>4. CASE ~(worker[w].at < Len(Manifest[w]))
  <2>1. Goto(w, "ready")
    BY <1>4 DEF NextPackage, Goto
  <2>2. Inside(w, [worker[w] EXCEPT !.pc = "ready"])
    BY <1>1, <1>2 DEF Inside, Threads, AtPackage
  <2> QED
    BY <2>1, <2>2, GotoType DEF TypeInv, TypeOK, link, Labels
<1> QED
  BY <1>3, <1>4

\* Going to another label of the same package keeps the thread inside its manifest.
LEMMA StaysInside ==
    ASSUME TypeInv, NEW w \in Workers, NEW label \in Labels \ {"idle", "download"},
           worker[w].pc \in AtPackage \/ label \notin AtPackage \cup {"ready", "report"}
    PROVE  Inside(w, [worker[w] EXCEPT !.pc = label])
<1> DEFINE r == [worker[w] EXCEPT !.pc = label]
<1>1. worker[w] \in Threads
  BY DEF TypeInv, TypeOK, Threads
<1>2. r.pc = label /\ r.at = worker[w].at
  BY <1>1 DEF Threads
<1> HIDE DEF r
<1>3. Inside(w, r)
  BY <1>2 DEF Inside, TypeInv
<1> QED
  BY <1>3 DEF r

\* The type invariant is inductive.
LEMMA TypeStep == TypeInv /\ [Next]_vars => TypeInv'
<1> SUFFICES ASSUME TypeInv, [Next]_vars PROVE TypeInv'
  OBVIOUS
<1> USE DEF link, disk
<1>0. /\ HttpsTypeOK /\ L1_Manifest \in Workers \cup {None} /\ storing \subseteq Workers
      /\ reported \subseteq Workers
      /\ worker \in [Workers -> Threads]
  BY DEF TypeInv, TypeOK, Threads
<1>1. ASSUME UNCHANGED disk PROVE HttpsTypeOK'
  BY <1>0, <1>1 DEF HttpsTypeOK
<1>2. ASSUME NEW cause \in {"abort", "terminate", "segv", "killed"}, DieIn(cause)
      PROVE  TypeInv'
  BY <1>2, DeathType DEF Deaths
<1>3. ASSUME NEW w \in Workers, NEW label \in Labels \ {"idle", "download"}, Goto(w, label),
             worker[w].pc \in AtPackage \/ label \notin AtPackage \cup {"ready", "report"},
             HttpsTypeOK', UNCHANGED <<L1_Manifest, storing>>, 
             reported' \subseteq Workers
      PROVE  TypeInv'
  BY <1>0, <1>3, GotoType, StaysInside
<1>4. ASSUME NEW w \in Workers, Ignore(w) PROVE TypeInv'
  BY <1>0, <1>1, <1>3, <1>4 DEF Ignore, Labels, AtPackage
<1>5. ASSUME NEW w \in Workers, Refuse(w) PROVE TypeInv'
  <2>1. reported' \subseteq Workers
    BY <1>0, <1>5 DEF Refuse
  <2> QED
    BY <1>0, <1>1, <1>3, <1>5, <2>1 DEF Refuse, Labels, AtPackage
<1>6. ASSUME NEW w \in Workers, Accept(w) PROVE TypeInv'
  <2>1. CASE DieIn("abort")
    BY <1>2, <2>1
  <2>2. CASE ~DieIn("abort")
    <3>1. /\ Goto(w, IF Manifest[w] = <<>> THEN "ready" ELSE "filesize")
          /\ storing' = storing \cup {w} /\ worker[w].pc = "idle"
          /\ UNCHANGED <<files, xfer, process, L1_Manifest, reported>>
      BY <1>6, <2>2 DEF Accept, At
    <3>2. worker[w].at = 1
      BY <3>1 DEF TypeInv, Inside
    <3>3. Manifest[w] # <<>> => 1 <= Len(Manifest[w])
      BY ManifestAssumption
    <3> DEFINE label == IF Manifest[w] = <<>> THEN "ready" ELSE "filesize"
               r == [worker[w] EXCEPT !.pc = label]
    <3>4. label \in Labels /\ label \in {"ready", "filesize"}
          /\ (label = "filesize" => Manifest[w] # <<>>)
      BY DEF Labels
    <3>5. r.pc = label /\ r.at = worker[w].at
      BY <1>0 DEF Threads
    <3>6. Goto(w, label)
      BY <3>1
    <3> HIDE DEF label, r
    <3>7. Inside(w, r)
      BY <3>2, <3>3, <3>4, <3>5 DEF Inside, AtPackage
    <3>8. HttpsTypeOK' /\ L1_Manifest' \in Workers \cup {None} /\ storing' \subseteq Workers
      BY <1>0, <1>1, <3>1
    <3> QED
      BY <1>0, <3>1, <3>4, <3>6, <3>7, <3>8, GotoType DEF r
  <2> QED
    BY <2>1, <2>2
<1>7. ASSUME NEW w \in Workers, StoreManifest(w) PROVE TypeInv'
  BY <1>0, <1>1, <1>7 DEF StoreManifest, TypeInv, TypeOK, Inside, Threads
<1>8. ASSUME NEW w \in Workers, GetFileSize(w) PROVE TypeInv'
  <2>1. worker[w].pc \in AtPackage
    BY <1>8 DEF GetFileSize, At, AtPackage
  <2>2. \/ DieIn("abort")
        \/ Goto(w, "exists") /\ UNCHANGED <<disk, link>>
        \/ Goto(w, "report") /\ UNCHANGED <<disk, link>>
    BY <1>8 DEF GetFileSize
  <2> QED
    BY <1>0, <1>1, <1>2, <1>3, <2>1, <2>2 DEF Labels
<1>9. ASSUME NEW w \in Workers, Exists(w) PROVE TypeInv'
  <2>1. worker[w].pc \in AtPackage
    BY <1>9 DEF Exists, At, AtPackage
  <2>2. Goto(w, "size") \/ StartFrom(w, 0)
    BY <1>9 DEF Exists
  <2>3. HttpsTypeOK' /\ UNCHANGED link
    BY <1>1, <1>9 DEF Exists
  <2> QED
    BY <1>0, <1>3, <2>1, <2>2, <2>3, StartFromType DEF Labels
<1>10. ASSUME NEW w \in Workers, CompareSize(w) PROVE TypeInv'
  <2>1. worker[w].pc \in AtPackage
    BY <1>10 DEF CompareSize, At, AtPackage
  <2>2. \/ DieIn("terminate")
        \/ /\ Goto(w, "md5") \/ Goto(w, "remove") \/ StartFrom(w, Local(w).len)
           /\ UNCHANGED <<disk, link>>
    BY <1>10 DEF CompareSize
  <2>3. Local(w).len \in Nat
    BY <2>1, PackageType
  <2> QED
    BY <1>0, <1>1, <1>2, <1>3, <2>1, <2>2, <2>3, StartFromType DEF Labels
<1>11. ASSUME NEW w \in Workers, CheckMd5(w) \/ Verify(w) PROVE TypeInv'
  <2>1. worker[w].pc \in AtPackage
    BY <1>11 DEF CheckMd5, Verify, At, AtPackage
  <2>2. \/ DieIn("segv")
        \/ /\ NextPackage(w) \/ Goto(w, "remove") \/ Goto(w, "report")
           /\ UNCHANGED <<disk, link>>
    BY <1>11 DEF CheckMd5, Verify
  <2> QED
    BY <1>0, <1>1, <1>2, <1>3, <2>1, <2>2, NextPackageType DEF Labels
<1>12. ASSUME NEW w \in Workers, RemoveBad(w) PROVE TypeInv'
  <2>1. worker[w].pc \in AtPackage /\ Path(w) \in Files
    BY <1>12, PackageType DEF RemoveBad, At, AtPackage
  <2>2. HttpsTypeOK'
    BY <1>0, <1>12, <2>1, NoFileType DEF RemoveBad, HttpsTypeOK
  <2> QED
    BY <1>0, <1>3, <1>12, <2>1, <2>2 DEF RemoveBad, Labels
<1>13. ASSUME NEW w \in Workers, Removed(w) PROVE TypeInv'
  <2>1. worker[w].pc \in AtPackage
    BY <1>13 DEF Removed, At, AtPackage
  <2>2. DieIn("abort") \/ (StartFrom(w, 0) /\ UNCHANGED <<disk, link>>)
    BY <1>13 DEF Removed
  <2> QED
    BY <1>1, <1>2, <2>1, <2>2, StartFromType
<1>14. ASSUME NEW w \in Workers, Download(w) PROVE TypeInv'
  <2>1. worker[w].pc \in AtPackage /\ UNCHANGED <<worker, link>>
        /\ (DownloadFrom(w, Pkg(w), worker[w].current) \/ Transfer(w, Pkg(w)))
    BY <1>14 DEF Download, At, AtPackage
  <2>2. Pkg(w) \in Packages /\ worker[w].current \in Nat
    BY <1>0, <2>1, PackageType DEF Threads
  <2>3. HttpsTypeOK'
    BY <1>0, <2>1, <2>2, DownloadFromType, TransferType
  <2> QED
    BY <2>1, <2>3 DEF TypeInv, TypeOK, Inside
<1>15. ASSUME NEW w \in Workers, MeasureDownload(w) PROVE TypeInv'
  <2>1. CASE DieIn("terminate")
    BY <1>2, <2>1
  <2>2. CASE ~DieIn("terminate")
    <3> DEFINE r == [worker[w] EXCEPT !.pc = "measured", !.repeat = worker[w].repeat + 1,
                                      !.success = (Local(w).len = Want(w))]
    <3>1. /\ worker[w].pc = "download"
          /\ worker' = [worker EXCEPT ![w] = r]
          /\ xfer' = [xfer EXCEPT ![w] = NoTransfer]
          /\ UNCHANGED <<files, process, link>>
      BY <1>0, <1>15, <2>2 DEF MeasureDownload, At
    <3>2. /\ worker[w].repeat \in Nat /\ worker[w].repeat < MAX_REPEAT_DOWNLOAD_COUNT
          /\ worker[w].at <= Len(Manifest[w])
      BY <1>0, <3>1 DEF TypeInv, Inside, Threads, AtPackage
    <3>3. worker[w].repeat + 1 \in 0..MAX_REPEAT_DOWNLOAD_COUNT
      BY <3>2, MaxRepeatAssumption
    <3>4. r \in Threads
      BY <1>0, <3>3 DEF Threads, Labels
    <3>5. r.pc = "measured" /\ r.at = worker[w].at
      BY <1>0 DEF Threads
    <3> HIDE DEF r
    <3>6. Inside(w, r)
      BY <3>2, <3>5 DEF Inside
    <3>7. HttpsTypeOK'
      BY <1>0, <3>1, NoTransferType DEF HttpsTypeOK
    <3> QED
      BY <1>0, <3>1, <3>4, <3>6, <3>7, ThreadStep
  <2> QED
    BY <2>1, <2>2
<1>16. ASSUME NEW w \in Workers, JudgeDownload(w) PROVE TypeInv'
  <2>1. CASE DieIn("terminate") \/ DieIn("abort")
    BY <1>2, <2>1
  <2>2. CASE ~(DieIn("terminate") \/ DieIn("abort"))
    <3>1. worker[w].pc = "measured" /\ Retry(w) /\ UNCHANGED <<disk, link>>
      BY <1>16, <2>2 DEF JudgeDownload, At
    <3>2. worker[w].repeat \in 0..MAX_REPEAT_DOWNLOAD_COUNT
          /\ worker[w].at <= Len(Manifest[w]) /\ Local(w).len \in Nat
      BY <1>0, <3>1, PackageType DEF TypeInv, Inside, Threads, AtPackage
    <3> DEFINE label == IF worker[w].success THEN "verify"
                        ELSE IF worker[w].repeat < MAX_REPEAT_DOWNLOAD_COUNT
                        THEN "download" ELSE "report"
               n == Local(w).len
               r == [worker[w] EXCEPT !.pc = label, !.current = n]
    <3>3. worker' = [worker EXCEPT ![w] = r]
      BY <1>0, <3>1 DEF Retry
    <3>4. label \in Labels /\ label \in {"verify", "download", "report"}
          /\ (label = "download" => worker[w].repeat < MAX_REPEAT_DOWNLOAD_COUNT)
          /\ n \in Nat
      BY <3>2 DEF Labels
    <3> HIDE DEF label, n
    <3>6. r \in Threads
      BY <1>0, <3>4 DEF Threads
    <3>7. r.pc = label /\ r.at = worker[w].at /\ r.repeat = worker[w].repeat
      BY <1>0 DEF Threads
    <3> HIDE DEF r
    <3>8. Inside(w, r)
      BY <3>2, <3>4, <3>7 DEF Inside
    <3> QED
      BY <1>0, <1>1, <3>1, <3>3, <3>6, <3>8, ThreadStep
  <2> QED
    BY <2>1, <2>2
<1>17. ASSUME NEW w \in Workers, CallPackageReady(w) PROVE TypeInv'
  BY <1>0, <1>1, <1>3, <1>17 DEF CallPackageReady, Labels, AtPackage
<1>18. ASSUME NEW w \in Workers, PackageReadyReturns(w) PROVE TypeInv'
  <2>1. \/ DieIn("abort") \/ DieIn("terminate")
        \/ Goto(w, "end") /\ UNCHANGED <<disk, link>>
    BY <1>18 DEF PackageReadyReturns
  <2> QED
    BY <1>0, <1>1, <1>2, <1>3, <2>1 DEF Labels, AtPackage
<1>19. ASSUME NEW w \in Workers, SendReport(w) PROVE TypeInv'
  <2>2. reported' \subseteq Workers
    BY <1>0, <1>19 DEF SendReport
  <2> QED
    BY <1>0, <1>1, <1>3, <1>19, <2>2 DEF SendReport, Labels, AtPackage
<1>20. ASSUME Restart PROVE TypeInv'
  <2>1. HttpsTypeOK'
    <3>1. \A f \in Files : [files[f] EXCEPT !.writers = {}] \in FileStates
      BY <1>0 DEF HttpsTypeOK, FileStates
    <3> QED
      BY <1>0, <1>20, <3>1, NoTransferType DEF Restart, HttpsTypeOK
  <2> DEFINE r(w) == [worker[w] EXCEPT !.pc =
                        IF Active(w) THEN "lost" ELSE IF @ = "called" THEN "end" ELSE @]
  <2>2. worker' = [w \in Workers |-> r(w)]
    BY <1>20 DEF Restart
  <2>3. ASSUME NEW w \in Workers PROVE r(w) \in Threads /\ Inside(w, r(w))
    <3>1. r(w) \in Threads
      BY <1>0 DEF Threads, Labels
    <3>2. r(w).at = worker[w].at /\ r(w).pc \in {"lost", "end", "idle", "ignored"}
          /\ (r(w).pc = "idle" => worker[w].pc = "idle")
      BY <1>0 DEF Threads, Active
    <3> HIDE DEF r
    <3> QED
      BY <3>1, <3>2 DEF Inside, AtPackage, TypeInv
  <2> HIDE DEF r
  <2>4. worker' \in [Workers -> Threads] /\ \A w \in Workers : Inside(w, worker'[w])
    BY <2>2, <2>3
  <2> QED
    BY <1>0, <1>20, <2>1, <2>4 DEF Restart, TypeInv, TypeOK, Threads, Inside
<1>21. ASSUME UNCHANGED vars PROVE TypeInv'
  BY <1>0, <1>1, <1>21 DEF vars, TypeInv, TypeOK, Inside
<1> QED
  BY <1>2, <1>4, <1>5, <1>6, <1>7, <1>8, <1>9, <1>10, <1>11, <1>12, <1>13, <1>14, <1>15,
     <1>16, <1>17, <1>18, <1>19, <1>20, <1>21 DEF Next, Handle, Work, Killed

\* Before any request every thread waits.
LEMMA TypeInit == Init => TypeInv
<1> SUFFICES ASSUME Init PROVE TypeInv
  OBVIOUS
<1>1. HttpsTypeOK
  <2>1. \A f \in Files : files[f] \in FileStates
    BY LeftoversAssumption DEF Init, FileStates
  <2> QED
    BY <2>1, NoTransferType DEF Init, HttpsTypeOK
<1>2. Waiting \in Threads
  BY MaxRepeatAssumption DEF Waiting, Threads, Labels
<1>3. \A w \in Workers : Inside(w, Waiting)
  BY DEF Waiting, Inside, AtPackage
<1> QED
  BY <1>1, <1>2, <1>3 DEF Init, TypeInv, TypeOK, Threads, Inside

\* The threads' counters stay in their ranges (downloadclient.cpp:62-158): no thread
\* goes past the end of its manifest or makes an attempt too many.
THEOREM TypeCorrect == Spec => []TypeOK
<1>1. TypeInv => TypeOK
  BY DEF TypeInv
<1> QED
  BY <1>1, TypeInit, TypeStep, PTL DEF Spec

-----------------------------------------------------------------------------
\* No two running requests, and no two packages of one request, share a local file.
SeparateFiles ==
    /\ OnePerFile
    /\ \A w \in Workers : \A i, j \in 1..Len(Manifest[w]) :
          LocalFile[Manifest[w][i]] = LocalFile[Manifest[w][j]] => i = j

\* The labels between finding the local file bad and having checked the new one.
Fetching == {"remove", "removed", "download", "measured", "verify"}

\* What a step can be for a thread: nothing,
Stands(w) == worker'[w].pc = worker[w].pc /\ worker'[w].at = worker[w].at

\* the beginning of its request,
Begins(w) ==
    /\ worker[w].pc = "idle" /\ worker'[w].at = 1
    /\ \/ worker'[w].pc = "filesize"
       \/ worker'[w].pc = "ready" /\ Manifest[w] = <<>>
    /\ OnePerFile => \A v \in Workers : Active(v) => PathsOf(v) \cap PathsOf(w) = {}
    /\ \A v \in Workers \ {w} : worker'[v] = worker[v]
    /\ UNCHANGED files

\* the step from a good package to the next one or to the call,
Advances(w) ==
    /\ worker[w].pc \in {"md5", "verify"} /\ Good(Pkg(w))
    /\ \/ worker[w].at < Len(Manifest[w])
          /\ worker'[w].pc = "filesize" /\ worker'[w].at = worker[w].at + 1
       \/ worker[w].at = Len(Manifest[w])
          /\ worker'[w].pc = "ready" /\ worker'[w].at = worker[w].at
    /\ UNCHANGED files

\* or a step at the same package, or out of the request.
Stays(w) ==
    /\ worker'[w].at = worker[w].at /\ worker'[w].pc # "ready"
    /\ worker'[w].pc \notin {"idle", "called", "end", "ignored", "lost"} => Active(w)
    /\ worker'[w].pc \in Fetching =>
          \/ worker[w].pc \in Fetching
          \/ worker[w].pc \in AtPackage /\ ~Good(Pkg(w))

\* Every step is one of the four for every thread.
LEMMA Moves ==
    ASSUME TypeInv, Next, NEW w \in Workers
    PROVE  Stands(w) \/ Begins(w) \/ Advances(w) \/ Stays(w)
<1> DEFINE Goal == Stands(w) \/ Begins(w) \/ Advances(w) \/ Stays(w)
<1>0. worker \in [Workers -> Threads]
  BY DEF TypeInv, TypeOK, Threads
<1>1. ASSUME UNCHANGED worker PROVE Goal
  BY <1>1 DEF Stands
<1>2. ASSUME NEW cause, DieIn(cause) PROVE Goal
  BY <1>1, <1>2 DEF DieIn
<1>3. ASSUME NEW v \in Workers \ {w}, NEW r, worker' = [worker EXCEPT ![v] = r] PROVE Goal
  BY <1>0, <1>3 DEF Stands
<1>4. ASSUME NEW r \in Threads, worker' = [worker EXCEPT ![w] = r], r.at = worker[w].at,
             r.pc # "ready",
             Active(w) \/ r.pc \in {"called", "end", "ignored", "lost"},
             \/ r.pc \notin Fetching
             \/ worker[w].pc \in Fetching
             \/ worker[w].pc \in AtPackage /\ ~Good(Pkg(w))
      PROVE  Goal
  <2>1. worker'[w] = r
    BY <1>0, <1>4
  <2> QED
    BY <1>4, <2>1 DEF Stays, Fetching
<1>5. ASSUME NEW label \in Labels, Goto(w, label), label # "ready",
             Active(w) \/ label \in {"called", "end", "ignored", "lost"},
             \/ label \notin Fetching
             \/ worker[w].pc \in Fetching
             \/ worker[w].pc \in AtPackage /\ ~Good(Pkg(w))
      PROVE  Goal
  <2> DEFINE r == [worker[w] EXCEPT !.pc = label]
  <2>1. r \in Threads /\ r.pc = label /\ r.at = worker[w].at
    BY <1>0 DEF Threads
  <2>2. worker' = [worker EXCEPT ![w] = r]
    BY <1>0, <1>5 DEF Goto
  <2> HIDE DEF r
  <2> QED
    BY <1>4, <1>5, <2>1, <2>2
<1>6. ASSUME NEW n \in Nat, StartFrom(w, n), worker[w].pc \in AtPackage,
             worker[w].pc \in Fetching \/ ~Good(Pkg(w))
      PROVE  Goal
  <2> DEFINE r == [worker[w] EXCEPT !.pc = "download", !.current = n, !.repeat = 0,
                                    !.success = FALSE]
  <2>1. 0 \in 0..MAX_REPEAT_DOWNLOAD_COUNT
    BY MaxRepeatAssumption
  <2>2. r \in Threads /\ r.pc = "download" /\ r.at = worker[w].at
    BY <1>0, <2>1 DEF Threads, Labels
  <2>3. worker' = [worker EXCEPT ![w] = r]
    BY <1>0, <1>6 DEF StartFrom
  <2>4. Active(w)
    BY <1>6 DEF Active, AtPackage
  <2> HIDE DEF r
  <2> QED
    BY <1>4, <1>6, <2>2, <2>3, <2>4
<1>7. ASSUME Goto(w, "report"), Active(w) PROVE Goal
  BY <1>5, <1>7 DEF Labels, Fetching
<1>8. ASSUME NextPackage(w), worker[w].pc \in {"md5", "verify"}, Good(Pkg(w)), UNCHANGED files
      PROVE  Goal
  <2>1. worker[w].at \in 1..Len(Manifest[w]) /\ Len(Manifest[w]) \in Nat
    BY <1>8, PackageType, ManifestAssumption DEF AtPackage
  <2>2. CASE worker[w].at < Len(Manifest[w])
    <3>1. worker' = [worker EXCEPT ![w].pc = "filesize", ![w].at = worker[w].at + 1]
      BY <1>8, <2>2 DEF NextPackage
    <3>2. worker'[w].pc = "filesize" /\ worker'[w].at = worker[w].at + 1
      BY <1>0, <3>1 DEF Threads
    <3> QED
      BY <1>8, <2>2, <3>2 DEF Advances
  <2>3. CASE ~(worker[w].at < Len(Manifest[w]))
    <3>1. worker' = [worker EXCEPT ![w].pc = "ready"]
      BY <1>8, <2>3 DEF NextPackage
    <3>2. worker'[w].pc = "ready" /\ worker'[w].at = worker[w].at
      BY <1>0, <3>1 DEF Threads
    <3>3. worker[w].at = Len(Manifest[w])
      BY <2>1, <2>3
    <3> QED
      BY <1>8, <3>2, <3>3 DEF Advances
  <2> QED
    BY <2>2, <2>3
<1>9. ASSUME NEW v \in Workers, Handle(v) PROVE Goal
  <2>1. CASE v # w
    <3>1. (\E label : Goto(v, label)) \/ UNCHANGED worker
      BY <1>9 DEF Handle, Ignore, Refuse, Accept, DieIn
    <3>2. (\E r : worker' = [worker EXCEPT ![v] = r]) \/ UNCHANGED worker
      BY <1>0, <3>1 DEF Goto
    <3> QED
      BY <1>1, <1>3, <2>1, <3>2
  <2>2. CASE Ignore(w) \/ Refuse(w)
    BY <1>5, <2>2 DEF Ignore, Refuse, Labels, Fetching
  <2>3. CASE Accept(w) /\ ~DieIn("abort")
    <3> DEFINE label == IF Manifest[w] = <<>> THEN "ready" ELSE "filesize"
    <3>1. /\ worker[w].pc = "idle" /\ Goto(w, label) /\ UNCHANGED files
          /\ OnePerFile => \A u \in Workers : Active(u) => PathsOf(u) \cap PathsOf(w) = {}
      BY <2>3 DEF Accept, At, disk
    <3>2. label = "filesize" \/ (label = "ready" /\ Manifest[w] = <<>>)
      OBVIOUS
    <3> HIDE DEF label
    <3>3. worker'[w].pc = label /\ worker'[w].at = worker[w].at
      BY <1>0, <3>1 DEF Goto, Threads
    <3>4. \A u \in Workers \ {w} : worker'[u] = worker[u]
      BY <1>0, <3>1 DEF Goto
    <3>5. worker[w].at = 1
      BY <3>1 DEF TypeInv, Inside
    <3> QED
      BY <3>1, <3>2, <3>3, <3>4, <3>5 DEF Begins
  <2> QED
    BY <1>2, <1>9, <2>1, <2>2, <2>3 DEF Handle
<1>10. ASSUME NEW v \in Workers \ {w}, Work(v) PROVE Goal
  <2>1. \/ UNCHANGED worker
        \/ \E label : Goto(v, label)
        \/ \E n : StartFrom(v, n)
        \/ NextPackage(v)
        \/ Retry(v)
        \/ \E r : worker' = [worker EXCEPT ![v] = r]
    <3>1. MeasureDownload(v) => UNCHANGED worker \/ \E r : worker' = [worker EXCEPT ![v] = r]
      BY <1>0 DEF MeasureDownload, DieIn
    <3> QED
      BY <1>10, <3>1 DEF Work, GetFileSize, Exists, CompareSize, CheckMd5, RemoveBad, Removed,
         Download, JudgeDownload, Verify, CallPackageReady, PackageReadyReturns,
         SendReport, DieIn
  <2>2. ASSUME NEW label, Goto(v, label) PROVE \E r : worker' = [worker EXCEPT ![v] = r]
    BY <1>0, <2>2 DEF Goto
  <2>3. ASSUME NEW n, StartFrom(v, n) PROVE \E r : worker' = [worker EXCEPT ![v] = r]
    BY <1>0, <2>3 DEF StartFrom
  <2>5. ASSUME NextPackage(v) PROVE \E r : worker' = [worker EXCEPT ![v] = r]
    BY <1>0, <2>5 DEF NextPackage
  <2>6. ASSUME Retry(v) PROVE \E r : worker' = [worker EXCEPT ![v] = r]
    BY <1>0, <2>6 DEF Retry
  <2> QED
    BY <1>1, <1>3, <2>1, <2>2, <2>3, <2>5, <2>6
<1>11. ASSUME Work(w) PROVE Goal
  <2> USE DEF At, disk
  <2>1. CASE GetFileSize(w)
    <3>1. /\ Active(w)
          /\ (\E c : DieIn(c)) \/ Goto(w, "exists") \/ Goto(w, "report")
      BY <2>1 DEF GetFileSize, Active
    <3> QED
      BY <1>2, <1>5, <1>7, <3>1 DEF Labels, Fetching
  <2>2. CASE Exists(w)
    <3>1. /\ worker[w].pc = "exists" /\ Active(w)
          /\ Goto(w, "size") \/ (StartFrom(w, 0) /\ ~Local(w).exists)
      BY <2>2 DEF Exists, Active
    <3>2. ~Local(w).exists => ~Good(Pkg(w))
      BY DEF Good, Md5Good, Local, Path
    <3> QED
      BY <1>5, <1>6, <3>1, <3>2 DEF Labels, Fetching, AtPackage
  <2>3. CASE CompareSize(w)
    <3>1. worker[w].pc = "size" /\ Active(w) /\ worker[w].pc \in AtPackage
      BY <2>3 DEF CompareSize, Active, AtPackage
    <3>2. Local(w).len \in Nat /\ Want(w) \in Nat
      BY <3>1, PackageType
    <3>3. Local(w).len # Want(w) => ~Good(Pkg(w))
      BY DEF Good, Md5Good, Local, Path, Want
    <3>4. \/ \E c : DieIn(c)
          \/ Goto(w, "md5")
          \/ Goto(w, "remove") /\ Local(w).len > Want(w)
          \/ StartFrom(w, Local(w).len) /\ Local(w).len < Want(w)
      BY <2>3 DEF CompareSize
    <3>5. Local(w).len > Want(w) \/ Local(w).len < Want(w) => ~Good(Pkg(w))
      BY <3>2, <3>3
    <3> QED
      BY <1>2, <1>5, <1>6, <3>1, <3>2, <3>4, <3>5 DEF Labels, Fetching
  <2>4. CASE CheckMd5(w) \/ Verify(w)
    <3>1. worker[w].pc \in {"md5", "verify"} /\ Active(w) /\ worker[w].pc \in AtPackage
      BY <2>4 DEF CheckMd5, Verify, Active, AtPackage
    <3>2. Md5Good(Local(w), Pkg(w)) = Good(Pkg(w))
      BY DEF Good, Local, Path
    <3>3. \/ \E c : DieIn(c)
          \/ NextPackage(w) /\ Good(Pkg(w)) /\ UNCHANGED files
          \/ Goto(w, "remove") /\ ~Good(Pkg(w))
          \/ Goto(w, "report")
      BY <2>4, <3>2 DEF CheckMd5, Verify
    <3> QED
      BY <1>2, <1>5, <1>7, <1>8, <3>1, <3>3 DEF Labels
  <2>5. CASE RemoveBad(w)
    BY <1>5, <2>5 DEF RemoveBad, Labels, Fetching, Active
  <2>6. CASE Removed(w)
    BY <1>2, <1>6, <2>6 DEF Removed, AtPackage, Fetching
  <2>7. CASE Download(w)
    BY <1>1, <2>7 DEF Download
  <2>8. CASE MeasureDownload(w) /\ ~DieIn("terminate")
    <3> DEFINE good == (Local(w).len = Want(w))
               r == worker'[w]
    <3>1. /\ worker[w].pc = "download"
          /\ worker' = [worker EXCEPT ![w] = [worker[w] EXCEPT !.pc = "measured",
                 !.repeat = worker[w].repeat + 1, !.success = good]]
      BY <1>0, <2>8 DEF MeasureDownload
    <3> HIDE DEF good
    <3>2. worker'[w].pc = "measured" /\ worker'[w].at = worker[w].at
      BY <1>0, <3>1 DEF Threads
    <3> QED
      BY <3>1, <3>2 DEF Stays, Fetching, Active
  <2>9. CASE JudgeDownload(w) /\ ~DieIn("terminate") /\ ~DieIn("abort")
    <3>1. worker[w].pc = "measured" /\ Retry(w)
      BY <2>9 DEF JudgeDownload
    <3>2. worker'[w].pc \in {"verify", "download", "report"} /\ worker'[w].at = worker[w].at
      BY <1>0, <3>1 DEF Retry, Threads
    <3> QED
      BY <3>1, <3>2 DEF Stays, Fetching, Active
  <2>10. CASE CallPackageReady(w) \/ PackageReadyReturns(w) \/ SendReport(w)
    BY <1>2, <1>5, <2>10 DEF CallPackageReady, PackageReadyReturns, SendReport, Labels, Fetching
  <2> QED
    BY <1>2, <1>11, <2>1, <2>2, <2>3, <2>4, <2>5, <2>6, <2>7, <2>8, <2>9, <2>10 DEF Work
<1>12. ASSUME Restart PROVE Goal
  <2>1. worker'[w] = [worker[w] EXCEPT !.pc =
                        IF Active(w) THEN "lost" ELSE IF @ = "called" THEN "end" ELSE @]
    BY <1>12 DEF Restart
  <2>2. worker'[w].at = worker[w].at
        /\ worker'[w].pc = IF Active(w) THEN "lost"
                           ELSE IF worker[w].pc = "called" THEN "end" ELSE worker[w].pc
    BY <1>0, <2>1 DEF Threads
  <2> QED
    BY <2>2 DEF Stays, Stands, Active, Fetching
<1> QED
  BY <1>1, <1>2, <1>9, <1>10, <1>11, <1>12 DEF Next, StoreManifest, Killed

\* A good package is spoilt, if at all, by a thread that is downloading to or
\* removing its local file.
LEMMA StaysGood ==
    ASSUME TypeInv, Next, NEW p \in Packages, Good(p),
           \A w \in Workers : worker[w].pc \in {"remove", "download"} => Path(w) # LocalFile[p]
    PROVE  Good(p)'
<1> DEFINE f == LocalFile[p]
<1>0. f \in Files /\ files \in [Files -> FileStates]
  BY LocalFileAssumption DEF TypeInv, TypeOK, HttpsTypeOK
<1>1. ASSUME files'[f] = files[f] PROVE Good(p)'
  BY <1>1 DEF Good, Md5Good
<1>2. ASSUME NEW w \in Workers, NEW g, files' = [files EXCEPT ![Path(w)] = g],
             worker[w].pc \in {"remove", "download"}
      PROVE  Good(p)'
  BY <1>0, <1>1, <1>2
<1>3. ASSUME NEW w \in Workers, Handle(w) \/ StoreManifest(w) PROVE Good(p)'
  BY <1>1, <1>3 DEF Handle, Ignore, Refuse, Accept, StoreManifest, DieIn, Die, disk
<1>4. ASSUME NEW w \in Workers, Download(w) PROVE Good(p)'
  <2>1. worker[w].pc = "download"
        /\ (DownloadFrom(w, Pkg(w), worker[w].current) \/ Transfer(w, Pkg(w)))
    BY <1>4 DEF Download, At
  <2>2. UNCHANGED files \/ \E g : files' = [files EXCEPT ![LocalFile[Pkg(w)]] = g]
    BY <2>1 DEF DownloadFrom, Transfer, Receive, Complete, Interrupted, Finish, Die
  <2> QED
    BY <1>1, <1>2, <2>1, <2>2 DEF Path
<1>5. ASSUME NEW w \in Workers, RemoveBad(w) PROVE Good(p)'
  BY <1>2, <1>5 DEF RemoveBad, At
<1>6. ASSUME NEW w \in Workers, Work(w), ~Download(w), ~RemoveBad(w) PROVE Good(p)'
  BY <1>1, <1>6 DEF Work, GetFileSize, Exists, CompareSize, CheckMd5, Removed,
     MeasureDownload, JudgeDownload, Verify, CallPackageReady, PackageReadyReturns,
     SendReport, DieIn, Die, disk
<1>7. CASE Restart
  <2>1. files'[f] = [files[f] EXCEPT !.writers = {}]
    BY <1>0, <1>7 DEF Restart
  <2>2. files'[f].exists = files[f].exists /\ files'[f].len = files[f].len
        /\ files'[f].of = files[f].of
    BY <1>0, <2>1 DEF FileStates
  <2> QED
    BY <2>2 DEF Good, Md5Good
<1>8. CASE Killed
  BY <1>1, <1>8 DEF Killed, DieIn, Die
<1> QED
  BY <1>3, <1>4, <1>5, <1>6, <1>7, <1>8 DEF Next

\* Running requests do not share a file.
Apart ==
    \A v, w \in Workers :
        v # w /\ Active(v) /\ Active(w) => PathsOf(v) \cap PathsOf(w) = {}

\* At the call every package has been found good.
ReadyIsGood ==
    \A w \in Workers : worker[w].pc = "ready" =>
        \A i \in 1..Len(Manifest[w]) : Good(Manifest[w][i])

GoodInv == TypeInv /\ Apart /\ EarlierPackagesStayGood /\ ReadyIsGood

\* What a running request has found good stays good, except the package it is at.
LEMMA FoundStaysGood ==
    ASSUME TypeInv, Apart, SeparateFiles, Next, NEW w \in Workers, Active(w),
           NEW i \in 1..Len(Manifest[w]), Good(Manifest[w][i]),
           i # worker[w].at \/ worker[w].pc \notin {"remove", "download"}
    PROVE  Good(Manifest[w][i])'
<1> DEFINE p == Manifest[w][i]
<1>1. p \in Packages
  BY ManifestAssumption
<1>2. ASSUME NEW v \in Workers, worker[v].pc \in {"remove", "download"},
             Path(v) = LocalFile[p]
      PROVE  FALSE
  <2>1. worker[v].at \in 1..Len(Manifest[v]) /\ Active(v)
    BY <1>2, PackageType DEF AtPackage, Active
  <2>2. Path(v) \in PathsOf(v)
    BY <2>1 DEF PathsOf, PackagesOf, Path, Pkg
  <2>3. LocalFile[p] \in PathsOf(w)
    BY DEF PathsOf, PackagesOf
  <2>4. v = w
    BY <1>2, <2>1, <2>2, <2>3 DEF Apart
  <2>5. LocalFile[Manifest[w][worker[w].at]] = LocalFile[Manifest[w][i]]
    BY <1>2, <2>4 DEF Path, Pkg
  <2>6. worker[w].at = i
    BY <2>1, <2>4, <2>5 DEF SeparateFiles
  <2> QED
    BY <1>2, <2>4, <2>6
<1> QED
  BY <1>1, <1>2, StaysGood

\* The invariant of the theorems below is inductive.
LEMMA GoodStep ==
    ASSUME SeparateFiles
    PROVE  GoodInv /\ [Next]_vars => GoodInv'
<1> SUFFICES ASSUME GoodInv, [Next]_vars PROVE GoodInv'
  OBVIOUS
<1>1. TypeInv'
  BY TypeStep DEF GoodInv
<1>2. CASE UNCHANGED vars
  <2>1. UNCHANGED <<files, worker>>
    BY <1>2 DEF vars
  <2>2. Apart' /\ EarlierPackagesStayGood' /\ ReadyIsGood'
    BY <2>1 DEF GoodInv, Apart, EarlierPackagesStayGood, ReadyIsGood, Good, Active, PathsOf,
       PackagesOf
  <2> QED
    BY <1>1, <2>2 DEF GoodInv
<1>3. CASE Next
  <2>0. TypeInv /\ Apart /\ EarlierPackagesStayGood /\ ReadyIsGood
    BY DEF GoodInv
  <2>1. \A w \in Workers : Stands(w) \/ Begins(w) \/ Advances(w) \/ Stays(w)
    BY <1>3, <2>0, Moves
  <2>2. ASSUME NEW w \in Workers, Active(w)' PROVE Active(w) \/ Begins(w)
    BY <2>1, <2>2 DEF Stands, Advances, Stays, Active
  <2>3. Apart'
    <3>1. SUFFICES ASSUME NEW v \in Workers, NEW w \in Workers, v # w,
                          Active(v)', Active(w)'
                   PROVE  PathsOf(v) \cap PathsOf(w) = {}
      BY DEF Apart, PathsOf, PackagesOf
    <3>2. CASE Begins(v)
      <4>1. Active(w)
        BY <3>1, <3>2 DEF Begins, Active
      <4> QED
        BY <3>2, <4>1 DEF Begins, SeparateFiles
    <3>3. CASE Begins(w)
      <4>1. Active(v)
        BY <3>1, <3>3 DEF Begins, Active
      <4> QED
        BY <3>3, <4>1 DEF Begins, SeparateFiles
    <3> QED
      BY <2>0, <2>2, <3>1, <3>2, <3>3 DEF Apart
  <2>4. ASSUME NEW w \in Workers, NEW i \in 1..Len(Manifest[w]), Good(Manifest[w][i]),
               Active(w), i # worker[w].at \/ worker[w].pc \notin {"remove", "download"}
        PROVE  Good(Manifest[w][i])'
    BY <1>3, <2>0, <2>4, FoundStaysGood
  <2>5. ASSUME NEW w \in Workers
        PROVE  worker[w].at \in Nat \ {0} /\ Len(Manifest[w]) \in Nat
    BY <2>0, ManifestAssumption DEF TypeInv, TypeOK
  <2>6. ASSUME NEW w \in Workers, Advances(w), NEW i \in 1..worker[w].at
        PROVE  Good(Manifest[w][i])'
    <3>1. worker[w].pc \in {"md5", "verify"} /\ Good(Manifest[w][worker[w].at]) /\ Active(w)
      BY <2>6 DEF Advances, Pkg, Active
    <3>2. worker[w].at \in 1..Len(Manifest[w])
      BY <2>0, <3>1, PackageType DEF AtPackage
    <3>3. i \in 1..Len(Manifest[w])
      BY <2>5, <3>2
    <3>4. Good(Manifest[w][i])
      <4>1. CASE i = worker[w].at
        BY <3>1, <4>1
      <4>2. CASE i # worker[w].at
        <5>1. i \in 1..(worker[w].at - 1)
          BY <2>5, <4>2
        <5> QED
          BY <2>0, <3>1, <5>1 DEF EarlierPackagesStayGood
      <4> QED
        BY <4>1, <4>2
    <3> QED
      BY <2>4, <3>1, <3>3, <3>4
  <2>7. ASSUME NEW w \in Workers, Active(w)', NEW i \in 1..(worker'[w].at - 1)
        PROVE  Good(Manifest[w][i])'
    <3>1. CASE Begins(w)
      BY <2>7, <3>1 DEF Begins
    <3>2. CASE Advances(w)
      <4>1. i \in 1..worker[w].at
        BY <2>5, <3>2 DEF Advances
      <4> QED
        BY <2>6, <3>2, <4>1
    <3>3. CASE Stands(w) \/ Stays(w)
      <4>1. Active(w) /\ worker'[w].at = worker[w].at
        BY <2>7, <3>3 DEF Stands, Stays, Active
      <4>2. i \in 1..(worker[w].at - 1)
        BY <4>1
      <4>3. Good(Manifest[w][i])
        BY <2>0, <4>1, <4>2 DEF EarlierPackagesStayGood
      <4>4. worker[w].at <= Len(Manifest[w]) \/ worker[w].at = 1
        BY <2>0, <4>1 DEF TypeInv, TypeOK, Inside, AtPackage, Active, Labels
      <4>5. i \in 1..Len(Manifest[w]) /\ i # worker[w].at
        BY <2>5, <4>2, <4>4
      <4> QED
        BY <2>4, <4>1, <4>3, <4>5
    <3> QED
      BY <2>1, <3>1, <3>2, <3>3
  <2>8. ASSUME NEW w \in Workers, worker'[w].pc = "ready", NEW i \in 1..Len(Manifest[w])
        PROVE  Good(Manifest[w][i])'
    <3>1. CASE Begins(w)
      <4>1. Manifest[w] = <<>>
        BY <2>8, <3>1 DEF Begins
      <4> QED
        BY <4>1
    <3>2. CASE Advances(w)
      <4>1. worker[w].at = Len(Manifest[w])
        BY <2>8, <3>2 DEF Advances
      <4> QED
        BY <2>6, <3>2, <4>1
    <3>3. CASE Stands(w)
      <4>1. worker[w].pc = "ready" /\ Active(w)
        BY <2>8, <3>3 DEF Stands, Active
      <4> QED
        BY <2>0, <2>4, <4>1 DEF ReadyIsGood
    <3> QED
      BY <2>1, <2>8, <3>1, <3>2, <3>3 DEF Stays
  <2>9. EarlierPackagesStayGood'
    BY <2>7 DEF EarlierPackagesStayGood
  <2>10. ReadyIsGood'
    BY <2>8 DEF ReadyIsGood
  <2> QED
    BY <1>1, <2>3, <2>9, <2>10 DEF GoodInv
<1> QED
  BY <1>2, <1>3

\* The invariant holds at the beginning, when no request has come.
LEMMA GoodInit == Init => GoodInv
<1> SUFFICES ASSUME Init PROVE GoodInv
  OBVIOUS
<1>1. \A w \in Workers : worker[w].pc = "idle"
  BY DEF Init, Waiting
<1> QED
  BY <1>1, TypeInit DEF GoodInv, Apart, EarlierPackagesStayGood, ReadyIsGood, Active

\* While a request is at its n-th package the ones before it stay good
\* (downloadclient.cpp:66-155), if requests and packages have files of their own.
THEOREM EarlierPackagesStayGoodAlways ==
    ASSUME SeparateFiles
    PROVE  Spec => []EarlierPackagesStayGood
<1>1. GoodInv /\ [Next]_vars => GoodInv'
  BY GoodStep
<1>2. GoodInv => EarlierPackagesStayGood
  BY DEF GoodInv
<1> QED
  BY <1>1, <1>2, GoodInit, PTL DEF Spec

\* "PackageReady" is called only while every package of the manifest is on disk and
\* good (main.cpp:41-46), under the same assumption.
THEOREM PackageReadyIsTrueAlways ==
    ASSUME SeparateFiles
    PROVE  Spec => PackageReadyIsTrue
<1>1. GoodInv /\ [Next]_vars => GoodInv'
  BY GoodStep
<1>2. GoodInv /\ [Next]_vars =>
        [\A w \in Workers : CallsPackageReady(w) => \A p \in PackagesOf(w) : Good(p)]_vars
  BY DEF GoodInv, ReadyIsGood, CallsPackageReady, PackagesOf
<1> QED
  BY <1>1, <1>2, GoodInit, PTL DEF Spec, PackageReadyIsTrue

-----------------------------------------------------------------------------
\* A path that is gone has no bytes and nobody who writes to it.
GoneIsEmpty == \A f \in Files : ~files[f].exists => files[f].len = 0 /\ files[f].writers = {}

\* What the loop knows of its file and of the transfer under way.
LoopKnows(w) ==
    /\ worker[w].pc # "download" => xfer[w].phase = "idle"
    /\ worker[w].pc = "removed" => ~Local(w).exists
    /\ worker[w].pc \in {"download", "measured"} =>
          Local(w).len <= Want(w) \/ Local(w).of = Garbage
    /\ worker[w].pc = "download" => ~worker[w].success
    /\ worker[w].pc = "download" /\ xfer[w].phase = "idle" =>
          worker[w].current < Want(w) \/ Local(w).len > Want(w)
    /\ worker[w].pc = "download" /\ xfer[w].phase = "body" =>
          \/ xfer[w].content = Garbage
          \/ xfer[w].content = Pkg(w) /\ xfer[w].pos + xfer[w].left = Want(w)
    /\ worker[w].pc = "measured" => (worker[w].success <=> Local(w).len = Want(w))

LoopInv == GoodInv /\ GoneIsEmpty /\ \A w \in Workers : LoopKnows(w)

\* Steps of the other threads are no concern of a thread at a package.
LEMMA OthersKeepOut ==
    ASSUME GoodInv, NEW v \in Workers, NEW w \in Workers, v # w,
           Handle(v) \/ StoreManifest(v) \/ Work(v)
    PROVE  /\ worker'[w] = worker[w] /\ xfer'[w] = xfer[w]
           /\ worker[w].pc \in AtPackage => files'[Path(w)] = files[Path(w)]
<1>0. /\ worker \in [Workers -> Threads] /\ files \in [Files -> FileStates]
      /\ xfer \in [Workers -> Transfers]
  BY DEF GoodInv, TypeInv, TypeOK, HttpsTypeOK, Threads
<1>1. worker'[w] = worker[w]
  BY <1>0 DEF Handle, Ignore, Refuse, Accept, StoreManifest, Work, GetFileSize, Exists,
     CompareSize, CheckMd5, RemoveBad, Removed, Download, MeasureDownload, JudgeDownload,
     Verify, CallPackageReady, PackageReadyReturns, SendReport, DieIn, Goto, StartFrom,
     NextPackage, Retry
<1>2. CASE Download(v)
  <2>1. worker[v].pc = "download"
        /\ (DownloadFrom(v, Pkg(v), worker[v].current) \/ Transfer(v, Pkg(v)))
    BY <1>2 DEF Download, At
  <2>2. xfer'[w] = xfer[w]
    BY <1>0, <2>1 DEF DownloadFrom, Transfer, Receive, Complete, Interrupted, Finish, Die
  <2>3. UNCHANGED files \/ \E g : files' = [files EXCEPT ![Path(v)] = g]
    BY <2>1 DEF DownloadFrom, Transfer, Receive, Complete, Interrupted, Finish, Die, Path
  <2>4. worker[w].pc \in AtPackage => Path(v) # Path(w) /\ Path(w) \in Files
    <3>1. Path(v) \in PathsOf(v) /\ Active(v)
      BY <2>1, PackageType DEF GoodInv, AtPackage, Path, Pkg, PathsOf, PackagesOf, Active
    <3>2. worker[w].pc \in AtPackage => Path(w) \in PathsOf(w) /\ Active(w) /\ Path(w) \in Files
      BY PackageType DEF GoodInv, AtPackage, Path, Pkg, PathsOf, PackagesOf, Active
    <3> QED
      BY <3>1, <3>2 DEF GoodInv, Apart
  <2> QED
    BY <1>0, <1>1, <2>2, <2>3, <2>4
<1>3. CASE RemoveBad(v)
  <2>1. worker[v].pc = "remove" /\ files' = [files EXCEPT ![Path(v)] = NoFile]
        /\ UNCHANGED xfer
    BY <1>3 DEF RemoveBad, At
  <2>2. worker[w].pc \in AtPackage => Path(v) # Path(w) /\ Path(w) \in Files
    <3>1. Path(v) \in PathsOf(v) /\ Active(v)
      BY <2>1, PackageType DEF GoodInv, AtPackage, Path, Pkg, PathsOf, PackagesOf, Active
    <3>2. worker[w].pc \in AtPackage => Path(w) \in PathsOf(w) /\ Active(w) /\ Path(w) \in Files
      BY PackageType DEF GoodInv, AtPackage, Path, Pkg, PathsOf, PackagesOf, Active
    <3> QED
      BY <3>1, <3>2 DEF GoodInv, Apart
  <2> QED
    BY <1>0, <1>1, <2>1, <2>2
<1>4. CASE ~Download(v) /\ ~RemoveBad(v)
  <2>1. UNCHANGED files
    BY <1>4 DEF Handle, Ignore, Refuse, Accept, StoreManifest, Work, GetFileSize, Exists,
       CompareSize, CheckMd5, Removed, MeasureDownload, JudgeDownload, Verify,
       CallPackageReady, PackageReadyReturns, SendReport, DieIn, Die, disk
  <2>2. xfer'[w] = xfer[w]
    BY <1>0, <1>4 DEF Handle, Ignore, Refuse, Accept, StoreManifest, Work, GetFileSize,
       Exists, CompareSize, CheckMd5, Removed, MeasureDownload, JudgeDownload, Verify,
       CallPackageReady, PackageReadyReturns, SendReport, DieIn, Die, disk
  <2> QED
    BY <1>1, <2>1, <2>2
<1> QED
  BY <1>2, <1>3, <1>4

\* What a thread knows depends on its own record, transfer and file alone.
LEMMA KnowsTheSame ==
    ASSUME GoodInv, NEW w \in Workers, LoopKnows(w),
           worker'[w] = worker[w], xfer'[w] = xfer[w],
           worker[w].pc \in AtPackage => files'[Path(w)] = files[Path(w)]
    PROVE  LoopKnows(w)'
<1>1. Path(w)' = Path(w) /\ Pkg(w)' = Pkg(w) /\ Want(w)' = Want(w)
  BY DEF Path, Pkg, Want
<1>2. worker[w].pc \in AtPackage => Local(w)' = Local(w)
  BY <1>1 DEF Local
<1> QED
  BY <1>1, <1>2 DEF LoopKnows, AtPackage

\* A path that is gone stays empty: only an open stream writes, and opening creates.
LEMMA GoneStaysEmpty ==
    ASSUME GoodInv, GoneIsEmpty, Next
    PROVE  GoneIsEmpty'
<1>0. files \in [Files -> FileStates] /\ xfer \in [Workers -> Transfers]
  BY DEF GoodInv, TypeInv, TypeOK, HttpsTypeOK
<1>1. ASSUME UNCHANGED files PROVE GoneIsEmpty'
  BY <1>1 DEF GoneIsEmpty
<1>2. ASSUME NEW f \in Files, NEW g, files' = [files EXCEPT ![f] = g],
             ~g.exists => g.len = 0 /\ g.writers = {}
      PROVE  GoneIsEmpty'
  BY <1>0, <1>2 DEF GoneIsEmpty
<1>3. ASSUME NEW w \in Workers, Download(w) PROVE GoneIsEmpty'
  <2> DEFINE f == files[Path(w)]
  <2>1. /\ worker[w].pc \in AtPackage
        /\ DownloadFrom(w, Pkg(w), worker[w].current) \/ Transfer(w, Pkg(w))
    BY <1>3 DEF Download, At, AtPackage
  <2>2. Path(w) \in Files /\ f \in FileStates /\ Path(w) = LocalFile[Pkg(w)]
        /\ (~f.exists => f.len = 0 /\ f.writers = {})
    BY <1>0, <2>1, PackageType DEF GoodInv, GoneIsEmpty, Path
  <2>3. Opened(f, w).exists
    BY <2>2 DEF Opened, FileStates
  <2>4. Closed(f, w).exists = f.exists /\ Closed(f, w).len = f.len
        /\ Closed(f, w).writers \subseteq f.writers
    BY <2>2 DEF Closed, FileStates
  <2>5. ASSUME NEW c, NEW n
        PROVE  Written(f, w, c, n) = f \/ Written(f, w, c, n).exists
    BY <2>2 DEF Written, FileStates
  <2>6. \/ UNCHANGED files
        \/ files' = [files EXCEPT ![Path(w)] = Opened(f, w)]
        \/ files' = [files EXCEPT ![Path(w)] = Closed(f, w)]
        \/ files' = [files EXCEPT ![Path(w)] = Written(f, w, xfer[w].content, xfer[w].pos)]
    BY <1>0, <2>1, <2>2 DEF DownloadFrom, Transfer, Receive, Complete, Interrupted, Finish, Die
  <2>7. CASE files' = [files EXCEPT ![Path(w)] = Opened(f, w)]
    BY <1>2, <2>2, <2>3, <2>7
  <2>8. CASE files' = [files EXCEPT ![Path(w)] = Closed(f, w)]
    BY <1>2, <2>2, <2>4, <2>8
  <2>9. CASE files' = [files EXCEPT ![Path(w)] =
                          Written(f, w, xfer[w].content, xfer[w].pos)]
    BY <1>2, <2>2, <2>5, <2>9
  <2> QED
    BY <1>1, <2>6, <2>7, <2>8, <2>9
<1>4. ASSUME NEW w \in Workers, RemoveBad(w) PROVE GoneIsEmpty'
  <2>1. Path(w) \in Files /\ files' = [files EXCEPT ![Path(w)] = NoFile]
    BY <1>4, PackageType DEF RemoveBad, At, GoodInv, AtPackage
  <2> QED
    BY <1>2, <2>1 DEF NoFile
<1>5. CASE Restart
  <2>1. \A f \in Files : files'[f].exists = files[f].exists /\ files'[f].len = files[f].len
        /\ files'[f].writers = {}
    BY <1>0, <1>5 DEF Restart, FileStates
  <2> QED
    BY <2>1 DEF GoneIsEmpty
<1>6. ASSUME NEW w \in Workers, Handle(w) \/ StoreManifest(w) \/ Work(w),
             ~Download(w), ~RemoveBad(w)
      PROVE  GoneIsEmpty'
  BY <1>1, <1>6 DEF Handle, Ignore, Refuse, Accept, StoreManifest, Work, GetFileSize, Exists,
     CompareSize, CheckMd5, Removed, MeasureDownload, JudgeDownload, Verify,
     CallPackageReady, PackageReadyReturns, SendReport, DieIn, Die, disk
<1> QED
  BY <1>1, <1>3, <1>4, <1>5, <1>6 DEF Next, Killed, DieIn, Die, Work

\* A transfer overshoots its package by bytes of nobody only.
LEMMA DownloadKnows ==
    ASSUME GoodInv, NEW w \in Workers, LoopKnows(w), Download(w)
    PROVE  LoopKnows(w)'
<1> DEFINE f == files[Path(w)]
           x == xfer[w]
<1>0. /\ worker[w].pc = "download" /\ worker' = worker
      /\ DownloadFrom(w, Pkg(w), worker[w].current) \/ Transfer(w, Pkg(w))
      /\ files \in [Files -> FileStates] /\ xfer \in [Workers -> Transfers]
      /\ worker[w].current \in Nat
  BY DEF Download, At, GoodInv, TypeInv, TypeOK, HttpsTypeOK
<1>1. /\ Pkg(w) \in Packages /\ Path(w) \in Files /\ Path(w) = LocalFile[Pkg(w)]
      /\ Want(w) \in Nat /\ Want(w) = Size[Pkg(w)] /\ Local(w) = f
      /\ f \in FileStates /\ f.len \in Nat /\ x \in Transfers
      /\ x.pos \in Nat /\ x.left \in Nat
  BY <1>0, PackageType DEF GoodInv, AtPackage, Path, Want, Local, Transfers
<1>2. /\ f.len <= Want(w) \/ f.of = Garbage
      /\ ~worker[w].success
      /\ x.phase = "body" =>
            x.content = Garbage \/ (x.content = Pkg(w) /\ x.pos + x.left = Want(w))
  BY <1>0, <1>1 DEF LoopKnows
<1>3. ASSUME files'[Path(w)].len <= Want(w) \/ files'[Path(w)].of = Garbage,
             xfer'[w].phase # "idle",
             xfer'[w].phase = "body" =>
                \/ xfer'[w].content = Garbage
                \/ xfer'[w].content = Pkg(w) /\ xfer'[w].pos + xfer'[w].left = Want(w)
      PROVE  LoopKnows(w)'
  <2>1. Path(w)' = Path(w) /\ Pkg(w)' = Pkg(w) /\ Want(w)' = Want(w)
        /\ Local(w)' = files'[Path(w)]
    BY <1>0 DEF Path, Pkg, Want, Local
  <2> QED
    BY <1>0, <1>2, <1>3, <2>1 DEF LoopKnows
<1>4. ASSUME UNCHANGED <<files, xfer>> PROVE LoopKnows(w)'
  BY <1>0, <1>4, KnowsTheSame
<1>5. CASE DownloadFrom(w, Pkg(w), worker[w].current) /\ ~Die("abort")
  <2>1. PICK a \in Answers(Pkg(w), worker[w].current) :
            /\ files' = [files EXCEPT ![Path(w)] = Opened(f, w)]
            /\ xfer' = [xfer EXCEPT ![w] = a]
    BY <1>1, <1>5 DEF DownloadFrom
  <2>2. Opened(f, w).len = f.len /\ Opened(f, w).of = f.of
    BY <1>1 DEF Opened, FileStates
  <2>3. files'[Path(w)] = Opened(f, w) /\ xfer'[w] = a
    BY <1>0, <1>1, <2>1
  <2>4. a.phase = "body"
        /\ (a.content = Garbage \/ (a.content = Pkg(w) /\ a.pos + a.left = Want(w)))
    <3>a. a = Whole(Pkg(w)) \/ (a = Partial(Pkg(w), worker[w].current)
                                   /\ worker[w].current < Want(w)) \/ a \in Errors
      BY <1>0, <1>1, <2>1, AnswerKinds, PackageType DEF Want
    <3>1. CASE a = Whole(Pkg(w))
      <4>1. 0 + Size[Pkg(w)] = Want(w)
        BY <1>1
      <4> QED
        BY <3>1, <4>1 DEF Whole, Answer, Served
    <3>2. CASE a = Partial(Pkg(w), worker[w].current) /\ worker[w].current < Want(w)
      <4>1. worker[w].current + (Size[Pkg(w)] - worker[w].current) = Want(w)
        BY <1>0, <1>1
      <4> QED
        BY <3>2, <4>1 DEF Partial, Answer, Served
    <3>3. CASE a \in Errors
      BY <3>3 DEF Errors, Answer
    <3> QED
      BY <3>a, <3>1, <3>2, <3>3
  <2> QED
    BY <1>2, <1>3, <2>2, <2>3, <2>4
<1>6. CASE Receive(w, Pkg(w)) /\ ~Die("sigfpe")
  <2> DEFINE g == Written(f, w, x.content, x.pos)
  <2>1. /\ files' = [files EXCEPT ![Path(w)] = g]
        /\ xfer' = [xfer EXCEPT ![w].pos = @ + 1, ![w].left = @ - 1]
        /\ x.phase = "body" /\ x.left > 0
    BY <1>1, <1>6 DEF Receive
  <2>2. files'[Path(w)] = g
    BY <1>0, <1>1, <2>1
  <2>3. xfer'[w] = [x EXCEPT !.pos = x.pos + 1, !.left = x.left - 1]
    BY <1>0, <2>1
  <2>4. /\ xfer'[w].phase = "body" /\ xfer'[w].content = x.content
        /\ xfer'[w].pos = x.pos + 1 /\ xfer'[w].left = x.left - 1
    <3> DEFINE i == x.pos + 1
               j == x.left - 1
               y == [x EXCEPT !.pos = i, !.left = j]
    <3>1. xfer'[w] = y
      BY <2>3
    <3> HIDE DEF i, j
    <3>2. y.phase = x.phase /\ y.content = x.content /\ y.pos = i /\ y.left = j
      BY <1>1 DEF Transfers
    <3> HIDE DEF y
    <3> QED
      BY <2>1, <3>1, <3>2 DEF i, j
  <2>5. x.pos + 1 + (x.left - 1) = x.pos + x.left
    BY <1>1
  <2>6. g.len <= Want(w) \/ g.of = Garbage
    <3>1. CASE w \notin f.writers
      BY <1>2, <3>1 DEF Written
    <3>2. CASE w \in f.writers
      <4>1. g = [f EXCEPT !.len = f.len + 1,
                          !.of = IF PrefixOf(f, x.content) /\ f.len = x.pos
                                 THEN x.content ELSE Garbage]
        BY <3>2 DEF Written
      <4>2. g.len = f.len + 1
            /\ (g.of = Garbage \/ (g.of = x.content /\ f.len = x.pos))
        BY <1>1, <4>1 DEF FileStates
      <4>3. CASE x.content = Garbage
        BY <4>2, <4>3
      <4>4. CASE f.len = x.pos /\ x.pos + x.left = Want(w)
        <5>1. f.len + 1 <= Want(w)
          BY <1>1, <2>1, <4>4
        <5> QED
          BY <4>2, <5>1
      <4> QED
        BY <1>2, <2>1, <4>2, <4>3, <4>4
    <3> QED
      BY <3>1, <3>2
  <2> HIDE DEF g
  <2>7. \/ xfer'[w].content = Garbage
        \/ xfer'[w].content = Pkg(w) /\ xfer'[w].pos + xfer'[w].left = Want(w)
    BY <1>2, <2>1, <2>4, <2>5
  <2> QED
    BY <1>3, <2>2, <2>4, <2>6, <2>7
<1>7. ASSUME NEW phase \in {"ok", "failed"}, Finish(w, Pkg(w), phase) PROVE LoopKnows(w)'
  <2>1. Closed(f, w).len = f.len /\ Closed(f, w).of = f.of
    BY <1>1 DEF Closed, FileStates
  <2>2. files'[Path(w)] = Closed(f, w) /\ xfer'[w].phase = phase
    BY <1>0, <1>1, <1>7 DEF Finish, Transfers
  <2> QED
    BY <1>2, <1>3, <1>7, <2>1, <2>2
<1> QED
  BY <1>0, <1>4, <1>5, <1>6, <1>7 DEF Transfer, Complete, Interrupted, Die

\* The other steps of the loop (downloadclient.cpp:74-141).
LEMMA LoopStep ==
    ASSUME GoodInv, GoneIsEmpty, NEW w \in Workers, LoopKnows(w), Handle(w) \/ Work(w)
    PROVE  LoopKnows(w)'
<1> DEFINE f == files[Path(w)]
<1>0. /\ worker \in [Workers -> Threads] /\ files \in [Files -> FileStates]
      /\ xfer \in [Workers -> Transfers]
  BY DEF GoodInv, TypeInv, TypeOK, HttpsTypeOK, Threads
<1>1. worker[w].pc \in AtPackage =>
        /\ Path(w) \in Files /\ Local(w) = f /\ f \in FileStates
        /\ f.len \in Nat /\ Want(w) \in Nat /\ Want(w) > 0
        /\ ~f.exists => f.len = 0
  <2>1. \A p \in Packages : Size[p] > 0
    BY SizeAssumption
  <2> QED
    BY <2>1, PackageType DEF GoodInv, GoneIsEmpty, Local, Want
\* Outside of the loop there is little to know.
<1>2. ASSUME worker'[w].pc \notin {"removed", "download", "measured"},
             xfer'[w].phase = "idle"
      PROVE  LoopKnows(w)'
  BY <1>2 DEF LoopKnows
<1>3. ASSUME NEW label \in Labels, Goto(w, label), label \notin {"removed", "download", "measured"},
             UNCHANGED xfer, worker[w].pc # "download"
      PROVE  LoopKnows(w)'
  <2>1. worker'[w].pc = label
    BY <1>0, <1>3 DEF Goto, Threads
  <2> QED
    BY <1>2, <1>3, <2>1 DEF LoopKnows
<1>4. ASSUME Goto(w, "report"), UNCHANGED xfer, worker[w].pc # "download"
      PROVE  LoopKnows(w)'
  BY <1>3, <1>4 DEF Labels
<1>5. ASSUME NextPackage(w), UNCHANGED xfer, worker[w].pc # "download" PROVE LoopKnows(w)'
  <2>1. worker'[w].pc \in {"filesize", "ready"}
    BY <1>0, <1>5 DEF NextPackage, Threads
  <2> QED
    BY <1>2, <1>5, <2>1 DEF LoopKnows
<1>6. ASSUME UNCHANGED <<files, xfer, worker>> PROVE LoopKnows(w)'
  BY <1>6, KnowsTheSame
<1>7. ASSUME NEW cause, DieIn(cause) PROVE LoopKnows(w)'
  BY <1>6, <1>7 DEF DieIn, Die
\* The thread's package, its size and its file after a step at the same package.
<1>8. ASSUME worker'[w].at = worker[w].at
      PROVE  Path(w)' = Path(w) /\ Pkg(w)' = Pkg(w) /\ Want(w)' = Want(w)
             /\ Local(w)' = files'[Path(w)]
  BY <1>8 DEF Path, Pkg, Want, Local
<1>9. ASSUME NEW n \in Nat, StartFrom(w, n), n < Want(w), UNCHANGED <<files, xfer>>,
             worker[w].pc \in AtPackage \ {"download"}, f.len <= Want(w)
      PROVE  LoopKnows(w)'
  <2>1. worker'[w].pc = "download" /\ worker'[w].current = n /\ ~worker'[w].success
        /\ worker'[w].at = worker[w].at
    BY <1>0, <1>9 DEF StartFrom, Threads
  <2>2. xfer'[w].phase = "idle"
    BY <1>9 DEF LoopKnows
  <2> QED
    BY <1>1, <1>8, <1>9, <2>1, <2>2 DEF LoopKnows
<1>10. CASE Handle(w)
  <2>1. \/ \E c : DieIn(c)
        \/ /\ worker[w].pc = "idle" /\ UNCHANGED xfer
           /\ Goto(w, "ignored") \/ Goto(w, "end") \/ Goto(w, "ready") \/ Goto(w, "filesize")
    BY <1>10 DEF Handle, Ignore, Refuse, Accept, At, disk
  <2> QED
    BY <1>3, <1>7, <2>1 DEF Labels
<1>11. CASE GetFileSize(w) \/ CallPackageReady(w) \/ PackageReadyReturns(w) \/ SendReport(w)
  <2>1. \/ \E c : DieIn(c)
        \/ /\ worker[w].pc # "download" /\ UNCHANGED xfer
           /\ \/ Goto(w, "exists") \/ Goto(w, "called") \/ Goto(w, "end")
              \/ Goto(w, "report")
    BY <1>11 DEF GetFileSize, CallPackageReady, PackageReadyReturns, SendReport, At, disk
  <2> QED
    BY <1>3, <1>4, <1>7, <2>1 DEF Labels
<1>12. CASE Exists(w)
  <2>1. /\ worker[w].pc = "exists" /\ UNCHANGED <<files, xfer>>
        /\ Goto(w, "size") \/ (StartFrom(w, 0) /\ ~Local(w).exists)
    BY <1>12 DEF Exists, At, disk
  <2> QED
    BY <1>1, <1>3, <1>9, <2>1 DEF Labels, AtPackage
<1>13. CASE CompareSize(w)
  <2>1. \/ \E c : DieIn(c)
        \/ /\ worker[w].pc = "size" /\ UNCHANGED <<files, xfer>>
           /\ \/ Goto(w, "md5") \/ Goto(w, "remove")
              \/ StartFrom(w, Local(w).len) /\ Local(w).len < Want(w)
    BY <1>13 DEF CompareSize, At, disk
  <2> QED
    BY <1>1, <1>3, <1>7, <1>9, <2>1 DEF Labels, AtPackage
<1>14. CASE CheckMd5(w) \/ Verify(w)
  <2>1. \/ \E c : DieIn(c)
        \/ /\ worker[w].pc # "download" /\ UNCHANGED xfer
           /\ NextPackage(w) \/ Goto(w, "remove") \/ Goto(w, "report")
    BY <1>14 DEF CheckMd5, Verify, At, disk
  <2> QED
    BY <1>3, <1>4, <1>5, <1>7, <2>1 DEF Labels
<1>15. CASE RemoveBad(w)
  <2>1. worker[w].pc = "remove" /\ files' = [files EXCEPT ![Path(w)] = NoFile]
        /\ Goto(w, "removed") /\ UNCHANGED xfer
    BY <1>15 DEF RemoveBad, At
  <2>2. worker'[w].pc = "removed" /\ worker'[w].at = worker[w].at
    BY <1>0, <2>1 DEF Goto, Threads
  <2>3. ~files'[Path(w)].exists
    BY <1>0, <1>1, <2>1 DEF AtPackage, NoFile
  <2>4. xfer'[w].phase = "idle"
    BY <2>1 DEF LoopKnows
  <2> QED
    BY <1>8, <2>2, <2>3, <2>4 DEF LoopKnows
<1>16. CASE Removed(w)
  <2>1. \/ \E c : DieIn(c)
        \/ worker[w].pc = "removed" /\ StartFrom(w, 0) /\ UNCHANGED <<files, xfer>>
    BY <1>16 DEF Removed, At, disk
  <2>2. worker[w].pc = "removed" => ~Local(w).exists
    BY DEF LoopKnows
  <2> QED
    BY <1>1, <1>7, <1>9, <2>1, <2>2 DEF AtPackage
<1>17. CASE MeasureDownload(w) /\ ~DieIn("terminate")
  <2> DEFINE good == (Local(w).len = Want(w))
  <2>1. /\ worker[w].pc = "download" /\ UNCHANGED files
        /\ worker' = [worker EXCEPT ![w] = [worker[w] EXCEPT !.pc = "measured",
               !.repeat = worker[w].repeat + 1, !.success = good]]
        /\ xfer' = [xfer EXCEPT ![w] = NoTransfer]
    BY <1>0, <1>17 DEF MeasureDownload, At
  <2>2. good \in BOOLEAN
    OBVIOUS
  <2>3. good <=> Local(w).len = Want(w)
    OBVIOUS
  <2> HIDE DEF good
  <2>4. worker'[w].pc = "measured" /\ worker'[w].at = worker[w].at /\ worker'[w].success = good
    BY <1>0, <2>1 DEF Threads
  <2>5. xfer'[w].phase = "idle"
    BY <1>0, <2>1 DEF NoTransfer
  <2>6. Local(w)' = Local(w) /\ Want(w)' = Want(w)
    BY <1>8, <2>1, <2>4 DEF Local
  <2> QED
    BY <2>1, <2>3, <2>4, <2>5, <2>6 DEF LoopKnows
<1>18. CASE JudgeDownload(w) /\ ~DieIn("terminate") /\ ~DieIn("abort")
  <2>1. worker[w].pc = "measured" /\ Retry(w) /\ UNCHANGED <<files, xfer>>
    BY <1>18 DEF JudgeDownload, At, disk
  <2>2. /\ worker'[w].pc = IF worker[w].success THEN "verify"
                           ELSE IF worker[w].repeat < MAX_REPEAT_DOWNLOAD_COUNT
                           THEN "download" ELSE "report"
        /\ worker'[w].at = worker[w].at /\ worker'[w].success = worker[w].success
        /\ worker'[w].current = Local(w).len
    BY <1>0, <2>1 DEF Retry, Threads
  <2>3. /\ worker[w].success <=> f.len = Want(w)
        /\ f.len <= Want(w) \/ f.of = Garbage
        /\ xfer'[w].phase = "idle" /\ Local(w) = f /\ f.len \in Nat /\ Want(w) \in Nat
    BY <1>1, <2>1 DEF LoopKnows, AtPackage
  <2>4. Local(w)' = f /\ Want(w)' = Want(w)
    BY <1>8, <2>1, <2>2
  <2>5. CASE worker'[w].pc = "download"
    <3>1. ~worker[w].success
      BY <2>2, <2>5
    <3>2. f.len < Want(w) \/ f.len > Want(w)
      BY <2>3, <3>1
    <3> QED
      BY <2>2, <2>3, <2>4, <2>5, <3>1, <3>2 DEF LoopKnows
  <2>6. CASE worker'[w].pc # "download"
    BY <1>2, <2>2, <2>3, <2>6
  <2> QED
    BY <2>5, <2>6
<1> QED
  BY <1>7, <1>10, <1>11, <1>12, <1>13, <1>14, <1>15, <1>16, <1>17, <1>18, DownloadKnows
  DEF Work

\* The invariant of the loop is inductive.
LEMMA LoopInvStep ==
    ASSUME SeparateFiles
    PROVE  LoopInv /\ [Next]_vars => LoopInv'
<1> SUFFICES ASSUME LoopInv, [Next]_vars PROVE LoopInv'
  OBVIOUS
<1>1. GoodInv' /\ GoodInv /\ GoneIsEmpty
  BY GoodStep DEF LoopInv
<1>2. ASSUME UNCHANGED <<files, xfer, worker>> PROVE LoopInv'
  <2>1. GoneIsEmpty'
    BY <1>1, <1>2 DEF GoneIsEmpty
  <2>2. \A w \in Workers : LoopKnows(w)'
    BY <1>1, <1>2, KnowsTheSame DEF LoopInv
  <2> QED
    BY <1>1, <2>1, <2>2 DEF LoopInv
<1>3. ASSUME NEW v \in Workers, Handle(v) \/ StoreManifest(v) \/ Work(v) PROVE LoopInv'
  <2>1. GoneIsEmpty'
    BY <1>1, <1>3, GoneStaysEmpty DEF Next
  <2>2. ASSUME NEW w \in Workers PROVE LoopKnows(w)'
    <3>0. LoopKnows(w)
      BY DEF LoopInv
    <3>1. CASE v # w
      BY <1>1, <1>3, <3>0, <3>1, OthersKeepOut, KnowsTheSame
    <3>2. CASE v = w /\ StoreManifest(w)
      BY <1>1, <3>0, <3>2, KnowsTheSame DEF StoreManifest, disk
    <3>3. CASE v = w /\ ~StoreManifest(w)
      BY <1>1, <1>3, <3>0, <3>3, LoopStep
    <3> QED
      BY <3>1, <3>2, <3>3
  <2> QED
    BY <1>1, <2>1, <2>2 DEF LoopInv
<1>4. CASE Restart
  <2>1. GoneIsEmpty'
    BY <1>1, <1>4, GoneStaysEmpty DEF Next
  <2>2. ASSUME NEW w \in Workers PROVE LoopKnows(w)'
    <3>1. worker \in [Workers -> Threads]
      BY <1>1 DEF GoodInv, TypeInv, TypeOK, Threads
    <3>2. worker'[w].pc \notin {"removed", "download", "measured"}
      BY <1>4, <3>1 DEF Restart, Active, Threads
    <3>3. xfer'[w].phase = "idle"
      BY <1>4 DEF Restart, NoTransfer
    <3> QED
      BY <3>2, <3>3 DEF LoopKnows
  <2> QED
    BY <1>1, <2>1, <2>2 DEF LoopInv
<1> QED
  BY <1>2, <1>3, <1>4 DEF Next, Killed, DieIn, Die, vars

\* It holds before the first request.
LEMMA LoopInit == Init => LoopInv
<1> SUFFICES ASSUME Init PROVE LoopInv
  OBVIOUS
<1>1. GoneIsEmpty
  <2>1. \A f \in Files : ~files[f].exists => files[f].len = 0
    BY LeftoversAssumption DEF Init
  <2>2. \A f \in Files : files[f].writers = {}
    BY LeftoversAssumption DEF Init
  <2> QED
    BY <2>1, <2>2 DEF GoneIsEmpty
<1>2. \A w \in Workers : worker[w].pc = "idle" /\ xfer[w].phase = "idle"
  BY DEF Init, Waiting, NoTransfer
<1> QED
  BY <1>1, <1>2, GoodInit DEF LoopInv, LoopKnows

\* The assertions of the download loop hold, whatever was left there and whatever the
\* server sends, unless bytes of an error answer, or of a whole package in place of a
\* range, overshoot the package (downloadclient.cpp:93, 101, 116, 122, 124, 139).
THEOREM LoopAssertionsHoldAlways ==
    ASSUME SeparateFiles
    PROVE  Spec => []LoopAssertionsHold
<1>1. Init => LoopInv
  BY LoopInit
<1>2. LoopInv /\ [Next]_vars => LoopInv'
  BY LoopInvStep
<1>3. LoopInv => LoopAssertionsHold
  <2> SUFFICES ASSUME LoopInv, NEW w \in Workers
               PROVE  /\ At(w, "removed") => ~Local(w).exists
                      /\ At(w, "download") /\ xfer[w].phase = "idle" =>
                            worker[w].current < Want(w) \/ Overshot(w)
                      /\ At(w, "measured") => SizeAsserted(w) \/ Overshot(w)
    BY DEF LoopAssertionsHold
  <2>1. worker[w].pc \in AtPackage => Local(w).len \in Nat /\ Want(w) \in Nat
    BY PackageType DEF LoopInv, GoodInv
  <2>2. LoopKnows(w)
    BY DEF LoopInv
  <2>3. CASE worker[w].pc = "removed"
    BY <2>2, <2>3 DEF LoopKnows, At
  <2>4. CASE worker[w].pc = "download"
    BY <2>1, <2>2, <2>4 DEF LoopKnows, At, Overshot, AtPackage
  <2>5. CASE worker[w].pc = "measured"
    BY <2>1, <2>2, <2>5 DEF LoopKnows, At, Overshot, SizeAsserted, AtPackage
  <2> QED
    BY <2>3, <2>4, <2>5 DEF At
<1> QED
  BY <1>1, <1>2, <1>3, PTL DEF Spec

-----------------------------------------------------------------------------
(***************************************************************************)
(* The DLC implements FileDelivery: the state of a request is read from    *)
(* its thread, its report and the process, the good packages from the      *)
(* files, and each step is a step of a delivery or none.  No hypothesis is *)
(* made about the server, the leftovers or the build.                      *)
(***************************************************************************)
\* Each package has a local file of its own.
OneFileEach == \A p, q \in Packages : LocalFile[p] = LocalFile[q] => p = q

\* A thread removes, or downloads over, a bad file only.
Replaces(w) ==
    /\ worker[w].pc = "remove" => ~Good(Pkg(w))
    /\ worker[w].pc = "download" => Fetches(w, Pkg(w))

\* A report ends its thread.
ReportAtEnd == \A w \in Workers : w \in reported => worker[w].pc = "end"

FetchInv == LoopInv /\ ReportAtEnd /\ \A w \in Workers : Replaces(w)

\* What a thread replaces depends on its own record, transfer and file alone.
LEMMA ReplacesTheSame ==
    ASSUME GoodInv, NEW w \in Workers, Replaces(w),
           worker'[w] = worker[w], xfer'[w] = xfer[w],
           worker[w].pc \in AtPackage => files'[Path(w)] = files[Path(w)]
    PROVE  Replaces(w)'
<1>1. Pkg(w)' = Pkg(w) /\ Path(w) = LocalFile[Pkg(w)]
  BY DEF Path, Pkg
<1>2. CASE worker[w].pc = "remove"
  BY <1>1, <1>2 DEF Replaces, AtPackage, Good
<1>3. CASE worker[w].pc = "download"
  <2> DEFINE p == Pkg(w)
  <2>1. p' = p /\ files'[LocalFile[p]] = files[LocalFile[p]] /\ Fetches(w, p)
    BY <1>1, <1>3 DEF AtPackage, Replaces
  <2> HIDE DEF p
  <2>2. Fetches(w, p)'
    BY <2>1 DEF Fetches
  <2> QED
    BY <1>3, <2>2 DEF Replaces, p
<1> QED
  BY <1>2, <1>3 DEF Replaces

\* A thread comes to remove a file, or to download, only when the file is bad: it is
\* not there, has another size or fails its checksum (downloadclient.cpp:74-107), and
\* another attempt follows one that left another size (downloadclient.cpp:119-124).
LEMMA ReplaceStep ==
    ASSUME GoodInv, GoneIsEmpty, NEW w \in Workers, LoopKnows(w), Replaces(w),
           Handle(w) \/ Work(w)
    PROVE  Replaces(w)'
<1>0. /\ worker \in [Workers -> Threads] /\ files \in [Files -> FileStates]
      /\ xfer \in [Workers -> Transfers] /\ HttpsTypeOK
  BY DEF GoodInv, TypeInv, TypeOK, HttpsTypeOK, Threads
<1>1. worker[w].pc \in AtPackage =>
        /\ Pkg(w) \in Packages /\ Want(w) = Size[Pkg(w)] /\ Size[Pkg(w)] \in Nat
        /\ Local(w) = files[LocalFile[Pkg(w)]]
        /\ Local(w).len \in Nat
        /\ ~Local(w).exists => Local(w).len = 0
  BY PackageType, SizeAssumption DEF GoodInv, GoneIsEmpty, Local, Want, Path
<1>2. ASSUME worker'[w].pc \notin {"remove", "download"} PROVE Replaces(w)'
  BY <1>2 DEF Replaces
<1>3. ASSUME UNCHANGED <<files, xfer, worker>> PROVE Replaces(w)'
  BY <1>3, ReplacesTheSame
<1>4. ASSUME NEW cause, DieIn(cause) PROVE Replaces(w)'
  BY <1>3, <1>4 DEF DieIn, Die
<1>5. ASSUME worker'[w].at = worker[w].at, UNCHANGED <<files, xfer>>,
             worker[w].pc \in AtPackage \ {"download"}, ~Md5Good(Local(w), Pkg(w))
      PROVE  Replaces(w)'
  <2>1. xfer'[w].phase = "idle"
    BY <1>5 DEF LoopKnows
  <2>2. Pkg(w)' = Pkg(w)
    BY <1>5 DEF Pkg
  <2> QED
    BY <1>1, <1>5, <2>1, <2>2 DEF Replaces, Fetches, Good
<1>6. ASSUME NEW label, Goto(w, label) PROVE worker'[w].pc = label /\ worker'[w].at = worker[w].at
  BY <1>0, <1>6 DEF Goto, Threads
<1>7. ASSUME NEW n, StartFrom(w, n) PROVE worker'[w].at = worker[w].at
  BY <1>0, <1>7 DEF StartFrom, Threads
<1>8. ASSUME NextPackage(w) \/ Goto(w, "report") PROVE Replaces(w)'
  BY <1>0, <1>2, <1>8 DEF NextPackage, Goto, Threads
<1>9. CASE Handle(w)
  <2>1. \/ \E c : DieIn(c)
        \/ Goto(w, "ignored") \/ Goto(w, "end") \/ Goto(w, "ready") \/ Goto(w, "filesize")
    BY <1>9 DEF Handle, Ignore, Refuse, Accept
  <2> QED
    BY <1>2, <1>4, <1>6, <2>1
<1>10. CASE GetFileSize(w) \/ CallPackageReady(w) \/ PackageReadyReturns(w) \/ SendReport(w)
            \/ Verify(w) \/ RemoveBad(w)
  <2>1. \/ \E c : DieIn(c)
        \/ NextPackage(w) \/ Goto(w, "report")
        \/ Goto(w, "exists") \/ Goto(w, "called") \/ Goto(w, "end") \/ Goto(w, "removed")
    BY <1>10 DEF GetFileSize, CallPackageReady, PackageReadyReturns, SendReport, Verify,
       RemoveBad
  <2> QED
    BY <1>2, <1>4, <1>6, <1>8, <2>1
<1>11. CASE Exists(w) \/ Removed(w)
  <2>1. \/ \E c : DieIn(c)
        \/ Goto(w, "size")
        \/ /\ StartFrom(w, 0) /\ ~Local(w).exists /\ UNCHANGED <<files, xfer>>
           /\ worker[w].pc \in {"exists", "removed"}
    BY <1>11 DEF Exists, Removed, At, disk, LoopKnows
  <2> QED
    BY <1>2, <1>4, <1>5, <1>6, <1>7, <2>1 DEF Md5Good, AtPackage
<1>12. CASE CompareSize(w) \/ CheckMd5(w)
  <2>1. \/ \E c : DieIn(c)
        \/ Goto(w, "md5") \/ NextPackage(w)
        \/ /\ worker[w].pc \in {"size", "md5"} /\ UNCHANGED <<files, xfer>>
           /\ \/ Goto(w, "remove") /\ Local(w).len > Want(w)
              \/ Goto(w, "remove") /\ ~Md5Good(Local(w), Pkg(w))
              \/ StartFrom(w, Local(w).len) /\ Local(w).len < Want(w)
    BY <1>12 DEF CompareSize, CheckMd5, At, disk
  <2>2. ASSUME worker[w].pc \in {"size", "md5"}, Local(w).len > Want(w) \/ Local(w).len < Want(w)
        PROVE  ~Md5Good(Local(w), Pkg(w))
    BY <1>1, <2>2 DEF Md5Good, AtPackage
  <2> QED
    BY <1>2, <1>4, <1>5, <1>6, <1>7, <1>8, <2>1, <2>2 DEF AtPackage
<1>13. CASE Download(w)
  <2>1. /\ worker[w].pc = "download" /\ worker' = worker /\ worker[w].current \in Nat
        /\ DownloadFrom(w, Pkg(w), worker[w].current) \/ Transfer(w, Pkg(w))
    BY <1>0, <1>13 DEF Download, At, Threads
  <2>2. Pkg(w) \in Packages /\ Fetches(w, Pkg(w)) /\ Pkg(w)' = Pkg(w)
    BY <1>1, <2>1 DEF AtPackage, Replaces, Pkg
  <2>3. ~files[LocalFile[Pkg(w)]].exists => files[LocalFile[Pkg(w)]].len = 0
    BY <1>1, <2>1 DEF AtPackage
  <2> DEFINE p == Pkg(w)
             n == worker[w].current
  <2> HIDE DEF p, n
  <2>4. Fetches(w, p)'
    BY <1>0, <2>1, <2>2, <2>3, DownloadFetches DEF p, n
  <2> QED
    BY <2>1, <2>2, <2>4 DEF Replaces, Fetches, p
<1>14. CASE MeasureDownload(w)
  <2>1. \/ \E c : DieIn(c)
        \/ worker'[w].pc = "measured"
    BY <1>0, <1>14 DEF MeasureDownload, Threads
  <2> QED
    BY <1>2, <1>4, <2>1
<1>15. CASE JudgeDownload(w)
  <2>1. \/ \E c : DieIn(c)
        \/ worker[w].pc = "measured" /\ Retry(w) /\ UNCHANGED <<files, xfer>>
    BY <1>15 DEF JudgeDownload, At, disk
  <2>2. ASSUME worker[w].pc = "measured", Retry(w), UNCHANGED <<files, xfer>>
        PROVE  Replaces(w)'
    <3>1. /\ worker'[w].at = worker[w].at
          /\ worker'[w].pc \in {"remove", "download"} => ~worker[w].success
      BY <1>0, <2>2 DEF Retry, Threads
    <3>2. worker[w].success <=> Local(w).len = Want(w)
      BY <2>2 DEF LoopKnows
    <3>3. ~worker[w].success => ~Md5Good(Local(w), Pkg(w))
      BY <1>1, <2>2, <3>2 DEF Md5Good, AtPackage
    <3> QED
      BY <1>2, <1>5, <2>2, <3>1, <3>3 DEF AtPackage
  <2> QED
    BY <1>4, <2>1, <2>2
<1> QED
  BY <1>9, <1>10, <1>11, <1>12, <1>13, <1>14, <1>15 DEF Work

\* Only the report ends a thread that has one (main.cpp:48-54).
LEMMA ReportStep ==
    ASSUME TypeInv, ReportAtEnd, [Next]_vars
    PROVE  ReportAtEnd'
<1>0. worker \in [Workers -> Threads] /\ reported \subseteq Workers
  BY DEF TypeInv, TypeOK, Threads
<1>1. ASSUME UNCHANGED <<worker, reported>> PROVE ReportAtEnd'
  BY <1>1 DEF ReportAtEnd
<1>2. ASSUME NEW w \in Workers, \A v \in Workers \ {w} : worker'[v] = worker[v],
             UNCHANGED reported, worker[w].pc # "end"
      PROVE  ReportAtEnd'
  BY <1>0, <1>2 DEF ReportAtEnd
<1>3. ASSUME NEW w \in Workers, Goto(w, "end"), reported' = reported \cup {w}
      PROVE  ReportAtEnd'
  BY <1>0, <1>3 DEF Goto, ReportAtEnd, Threads
<1>4. ASSUME NEW w \in Workers, Refuse(w) \/ SendReport(w) PROVE ReportAtEnd'
  BY <1>3, <1>4 DEF Refuse, SendReport
<1>5. ASSUME NEW w \in Workers,
             Handle(w) \/ StoreManifest(w) \/ Work(w), ~Refuse(w), ~SendReport(w)
      PROVE  ReportAtEnd'
  <2>1. UNCHANGED reported
    BY <1>5 DEF Handle, Ignore, Accept, StoreManifest, Work, GetFileSize, Exists,
       CompareSize, CheckMd5, RemoveBad, Removed, Download, MeasureDownload, JudgeDownload,
       Verify, CallPackageReady, PackageReadyReturns, DieIn, link
  <2>2. UNCHANGED worker \/ worker[w].pc # "end"
    BY <1>5 DEF Handle, Ignore, Accept, StoreManifest, Work, GetFileSize, Exists,
       CompareSize, CheckMd5, RemoveBad, Removed, Download, MeasureDownload, JudgeDownload,
       Verify, CallPackageReady, PackageReadyReturns, DieIn, At
  <2>3. \A v \in Workers \ {w} : worker'[v] = worker[v]
    BY <1>0, <1>5 DEF Handle, Ignore, Accept, StoreManifest, Work, GetFileSize, Exists,
       CompareSize, CheckMd5, RemoveBad, Removed, Download, MeasureDownload, JudgeDownload,
       Verify, CallPackageReady, PackageReadyReturns, DieIn, Goto, StartFrom, NextPackage,
       Retry
  <2> QED
    BY <1>1, <1>2, <2>1, <2>2, <2>3
<1>6. CASE Restart
  BY <1>0, <1>6 DEF Restart, ReportAtEnd, Active, Threads
<1> QED
  BY <1>1, <1>4, <1>5, <1>6 DEF Next, Killed, DieIn, vars, link

\* The invariant of the refinement is inductive.
LEMMA FetchInvStep ==
    ASSUME SeparateFiles
    PROVE  FetchInv /\ [Next]_vars => FetchInv'
<1> SUFFICES ASSUME FetchInv, [Next]_vars PROVE FetchInv'
  OBVIOUS
<1>1. LoopInv /\ LoopInv' /\ GoodInv /\ GoneIsEmpty /\ TypeInv
  BY LoopInvStep DEF FetchInv, LoopInv, GoodInv
<1>2. ReportAtEnd'
  BY <1>1, ReportStep DEF FetchInv
<1>3. ASSUME UNCHANGED <<files, xfer, worker>> PROVE FetchInv'
  BY <1>1, <1>2, <1>3, ReplacesTheSame DEF FetchInv
<1>4. ASSUME NEW v \in Workers, Handle(v) \/ StoreManifest(v) \/ Work(v) PROVE FetchInv'
  <2>1. ASSUME NEW w \in Workers PROVE Replaces(w)'
    <3>0. Replaces(w) /\ LoopKnows(w)
      BY DEF FetchInv, LoopInv
    <3>1. CASE v # w
      BY <1>1, <1>4, <3>0, <3>1, OthersKeepOut, ReplacesTheSame
    <3>2. CASE v = w /\ StoreManifest(w)
      BY <1>1, <3>0, <3>2, ReplacesTheSame DEF StoreManifest, disk
    <3>3. CASE v = w /\ ~StoreManifest(w)
      BY <1>1, <1>4, <3>0, <3>3, ReplaceStep
    <3> QED
      BY <3>1, <3>2, <3>3
  <2> QED
    BY <1>1, <1>2, <2>1 DEF FetchInv
<1>5. CASE Restart
  <2>1. worker \in [Workers -> Threads]
    BY <1>1 DEF TypeInv, TypeOK, Threads
  <2>2. \A w \in Workers : worker'[w].pc \notin {"remove", "download"}
    BY <1>5, <2>1 DEF Restart, Active, Threads
  <2> QED
    BY <1>1, <1>2, <2>2 DEF FetchInv, Replaces
<1> QED
  BY <1>3, <1>4, <1>5 DEF Next, Killed, DieIn, Die, vars

\* Every request begins with its thread idle and no report.
LEMMA FetchInit == Init => FetchInv
<1> SUFFICES ASSUME Init PROVE FetchInv
  OBVIOUS
<1>1. \A w \in Workers : worker[w].pc = "idle" /\ w \notin reported
  BY DEF Init, Waiting
<1> QED
  BY <1>1, LoopInit DEF FetchInv, ReportAtEnd, Replaces

-----------------------------------------------------------------------------
Job == [w \in Workers |-> JobState(w)]
GoodPackages == {p \in Packages : Good(p)}

\* The states of a request, one by one.
LEMMA JobValues ==
    ASSUME NEW w \in Workers
    PROVE  /\ worker[w].pc \in {"idle", "ignored"} => Job[w] = "new"
           /\ worker[w].pc = "lost" => Job[w] = "lost"
           /\ Active(w) => Job[w] = IF Up THEN "running" ELSE "lost"
           /\ worker[w].pc \in {"called", "end"} =>
                 Job[w] = IF w \in reported THEN "failed" ELSE "delivered"
BY DEF Job, JobState, Active

\* And the same after a step.
LEMMA JobValuesNext ==
    ASSUME NEW w \in Workers
    PROVE  /\ worker'[w].pc \in {"idle", "ignored"} => Job'[w] = "new"
           /\ worker'[w].pc = "lost" => Job'[w] = "lost"
           /\ Active(w)' => Job'[w] = IF Up' THEN "running" ELSE "lost"
           /\ worker'[w].pc \in {"called", "end"} =>
                 Job'[w] = IF w \in reported' THEN "failed" ELSE "delivered"
BY DEF Job, JobState, Active

\* The requests of the threads that do not step stay in their states.
LEMMA JobsElsewhere ==
    ASSUME NEW w \in Workers, process' = process,
           worker'[w] = worker[w], w \in reported' <=> w \in reported
    PROVE  Job'[w] = Job[w]
BY DEF Job, JobState, Active, Up

\* The states of all requests after a step of one.
LEMMA OneJob ==
    ASSUME NEW w \in Workers, NEW s, Job'[w] = s, \A v \in Workers \ {w} : Job'[v] = Job[v]
    PROVE  Job' = [Job EXCEPT ![w] = s] /\ (Job[w] = s => Job' = Job)
<1>1. Job = [v \in Workers |-> Job[v]] /\ Job' = [v \in Workers |-> Job'[v]]
  BY DEF Job
<1> QED
  BY <1>1

\* The steps of a delivery, in the terms of the refinement.
LEMMA DeliverySteps ==
    /\ \A w \in Workers :
          /\ Job[w] = "new" /\ GoodPackages' = GoodPackages
          /\ Job' = [Job EXCEPT ![w] = "running"]
          => Delivery!Next
    /\ \A w \in Workers :
          /\ Job[w] = "running" /\ PackagesOf(w) \subseteq GoodPackages
          /\ GoodPackages' = GoodPackages /\ Job' = [Job EXCEPT ![w] = "delivered"]
          => Delivery!Next
    /\ \A w \in Workers :
          /\ Job[w] \in {"new", "running"} /\ GoodPackages' = GoodPackages
          /\ Job' = [Job EXCEPT ![w] = "failed"]
          => Delivery!Next
    /\ \A w \in Workers, p \in Packages :
          /\ Job[w] = "running" /\ Job' = Job /\ p \in PackagesOf(w) /\ p \notin GoodPackages
          /\ GoodPackages' = GoodPackages \cup {p}
          => Delivery!Next
    /\ /\ GoodPackages' = GoodPackages
       /\ Job' = [w \in Workers |-> IF Job[w] = "running" THEN "lost" ELSE Job[w]]
       => Delivery!Next
BY DEF Job, GoodPackages, Delivery!Next, Delivery!Accept, Delivery!Deliver,
       Delivery!Fail, Delivery!Obtain, Delivery!Lose, Delivery!Running

\* A step of a download makes its own package good, or changes nothing that is good or
\* bad (downloadclient.cpp:112-141).
LEMMA DownloadGood ==
    ASSUME FetchInv, OneFileEach, NEW w \in Workers, Download(w)
    PROVE  /\ Pkg(w) \in Packages
           /\ \/ GoodPackages' = GoodPackages
              \/ Pkg(w) \notin GoodPackages /\ GoodPackages' = GoodPackages \cup {Pkg(w)}
<1> DEFINE p == Pkg(w)
<1>1. /\ worker[w].pc = "download" /\ Replaces(w) /\ TypeInv /\ GoneIsEmpty
      /\ DownloadFrom(w, p, worker[w].current) \/ Transfer(w, p)
  BY DEF Download, At, FetchInv, LoopInv, GoodInv
<1>2. /\ p \in Packages /\ files \in [Files -> FileStates] /\ HttpsTypeOK
      /\ worker[w].current \in Nat
      /\ \A q \in Packages : LocalFile[q] \in Files
      /\ ~files[LocalFile[p]].exists => files[LocalFile[p]].len = 0
  BY <1>1, PackageType, LocalFileAssumption
     DEF AtPackage, TypeInv, TypeOK, HttpsTypeOK, GoneIsEmpty
<1>3. Fetches(w, p)
  BY <1>1 DEF Replaces
<1> HIDE DEF p
<1>4. Md5Good(files[LocalFile[p]], p) => Md5Good(files'[LocalFile[p]], p)
  <2> DEFINE n == worker[w].current
  <2>1. n \in Nat /\ (DownloadFrom(w, p, n) \/ Transfer(w, p))
    BY <1>1, <1>2
  <2> HIDE DEF n
  <2> QED
    BY <1>2, <1>3, <2>1, DownloadFetches
<1>5. UNCHANGED files \/ \E g : files' = [files EXCEPT ![LocalFile[p]] = g]
  BY <1>1 DEF DownloadFrom, Transfer, Receive, Complete, Interrupted, Finish, Die
<1>6. \A q \in Packages \ {p} : files'[LocalFile[q]] = files[LocalFile[q]]
  BY <1>2, <1>5 DEF OneFileEach
<1>7. \A q \in Packages \ {p} : q \in GoodPackages' <=> q \in GoodPackages
  BY <1>6 DEF GoodPackages, Good
<1>8. p \in GoodPackages => p \in GoodPackages'
  BY <1>2, <1>4 DEF GoodPackages, Good
<1>9. GoodPackages \subseteq Packages /\ GoodPackages' \subseteq Packages
  BY DEF GoodPackages
<1> QED
  BY <1>2, <1>7, <1>8, <1>9 DEF p

\* What a removal takes away was bad (downloadclient.cpp:99-101, 107-109).
LEMMA RemoveGood ==
    ASSUME FetchInv, OneFileEach, NEW w \in Workers, RemoveBad(w)
    PROVE  GoodPackages' = GoodPackages
<1> DEFINE p == Pkg(w)
<1>1. worker[w].pc = "remove" /\ Replaces(w) /\ TypeInv
      /\ files' = [files EXCEPT ![LocalFile[p]] = NoFile]
  BY DEF RemoveBad, At, FetchInv, LoopInv, GoodInv, Path
<1>2. p \in Packages /\ files \in [Files -> FileStates]
      /\ \A q \in Packages : LocalFile[q] \in Files
  BY <1>1, PackageType, LocalFileAssumption DEF AtPackage, TypeInv, TypeOK, HttpsTypeOK
<1>3. ~Good(p)
  BY <1>1 DEF Replaces
<1> HIDE DEF p
<1>4. \A q \in Packages \ {p} : files'[LocalFile[q]] = files[LocalFile[q]]
  BY <1>1, <1>2 DEF OneFileEach
<1>5. ~Md5Good(files'[LocalFile[p]], p)
  BY <1>1, <1>2 DEF Md5Good, NoFile
<1> QED
  BY <1>3, <1>4, <1>5 DEF GoodPackages, Good

\* Every step of the DLC is a step of a delivery, or none.
LEMMA DeliveryNext ==
    ASSUME FetchInv, FetchInv', OneFileEach, [Next]_vars
    PROVE  Delivery!Next \/ UNCHANGED <<Job, GoodPackages>>
<1> DEFINE Goal == Delivery!Next \/ UNCHANGED <<Job, GoodPackages>>
           Elsewhere(w) == /\ \A v \in Workers \ {w} : worker'[v] = worker[v]
                           /\ \A v \in Workers \ {w} : v \in reported' <=> v \in reported
                           /\ process' = process
<1>0. /\ worker \in [Workers -> Threads] /\ files \in [Files -> FileStates]
      /\ reported \subseteq Workers
      /\ TypeInv /\ ReadyIsGood
      /\ \A w \in Workers : worker[w].pc # "end" => w \notin reported
  BY DEF FetchInv, LoopInv, GoodInv, TypeInv, TypeOK, Threads, HttpsTypeOK, ReportAtEnd
<1>a. ASSUME files' = files PROVE GoodPackages' = GoodPackages
  BY <1>a DEF GoodPackages, Good
\* The jobs after a step of one thread,
<1>b. ASSUME NEW w \in Workers, Elsewhere(w), NEW s, Job'[w] = s
      PROVE  Job' = [Job EXCEPT ![w] = s] /\ (Job[w] = s => Job' = Job)
  BY <1>b, OneJob, JobsElsewhere
\* of one that goes on,
<1>c. ASSUME NEW w \in Workers, Up, Active(w), Active(w)', Elsewhere(w)
      PROVE  Job' = Job /\ Job[w] = "running"
  <2>1. Job[w] = "running" /\ Job'[w] = "running"
    BY <1>c, JobValues, JobValuesNext DEF Up
  <2> QED
    BY <1>b, <1>c, <2>1
\* and of a death.
<1>d. ASSUME Up, NEW cause \in Deaths, DieIn(cause) PROVE Goal
  <2>1. worker' = worker /\ reported' = reported /\ files' = files /\ ~Up'
    BY <1>d DEF DieIn, Die, Up, Deaths, link
  <2>2. ASSUME NEW w \in Workers
        PROVE  Job'[w] = IF Job[w] = "running" THEN "lost" ELSE Job[w]
    BY <1>d, <2>1 DEF Job, JobState, Active
  <2>3. Job' = [w \in Workers |-> Job'[w]]
    BY DEF Job
  <2>4. Job' = [w \in Workers |-> IF Job[w] = "running" THEN "lost" ELSE Job[w]]
    BY <2>2, <2>3
  <2> QED
    BY <1>a, <2>1, <2>4, DeliverySteps
\* A step of a running thread that leaves the files alone.
<1>e. ASSUME NEW w \in Workers, Up, Active(w), Active(w)', Elsewhere(w), files' = files
      PROVE  Goal
  BY <1>a, <1>c, <1>e
<1>1. ASSUME NEW w \in Workers, Ignore(w) PROVE Goal
  <2>1. /\ worker[w].pc = "idle" /\ worker'[w].pc = "ignored"
        /\ Elsewhere(w) /\ files' = files
    BY <1>0, <1>1 DEF Ignore, At, Goto, Threads, disk, link
  <2>2. Job[w] = "new" /\ Job'[w] = "new"
    BY <2>1, JobValues, JobValuesNext
  <2> QED
    BY <1>a, <1>b, <2>1, <2>2
<1>2. ASSUME NEW w \in Workers, Refuse(w) \/ SendReport(w) PROVE Goal
  <2>1. /\ Up /\ worker[w].pc \in {"idle", "report"} /\ worker'[w].pc = "end"
        /\ Elsewhere(w) /\ files' = files
    BY <1>0, <1>2 DEF Refuse, SendReport, At, Goto, Threads, disk, link
  <2>2. w \in reported'
    BY <1>2 DEF Refuse, SendReport
  <2>3. Job[w] \in {"new", "running"}
    BY <2>1, JobValues DEF Active
  <2>4. Job'[w] = "failed"
    BY <2>1, <2>2, JobValuesNext
  <2> QED
    BY <1>a, <1>b, <2>1, <2>3, <2>4, DeliverySteps
<1>3. ASSUME NEW w \in Workers, Accept(w) PROVE Goal
  <2>1. CASE DieIn("abort")
    BY <1>3, <1>d, <2>1 DEF Accept, At, Deaths
  <2>2. CASE ~DieIn("abort")
    <3>1. /\ Up /\ worker[w].pc = "idle" /\ worker'[w].pc \in {"ready", "filesize"}
          /\ Elsewhere(w) /\ files' = files
      BY <1>0, <1>3, <2>2 DEF Accept, At, Goto, Threads, disk
    <3>2. Job[w] = "new" /\ Job'[w] = "running"
      BY <3>1, JobValues, JobValuesNext DEF Active, Up
    <3> QED
      BY <1>a, <1>b, <3>1, <3>2, DeliverySteps
  <2> QED
    BY <2>1, <2>2
<1>4. ASSUME NEW w \in Workers, StoreManifest(w) PROVE Goal
  <2>1. UNCHANGED <<worker, reported, files, process>>
    BY <1>4 DEF StoreManifest, disk
  <2> QED
    BY <1>a, <2>1 DEF Job, JobState, Active, Up
<1>5. ASSUME NEW w \in Workers, GetFileSize(w) \/ Exists(w) \/ CompareSize(w)
      PROVE  Goal
  <2>1. \/ \E cause \in Deaths : DieIn(cause)
        \/ Active(w)' /\ Elsewhere(w) /\ files' = files
    <3>1. CASE GetFileSize(w) /\ ~DieIn("abort")
      <4>1. Goto(w, "exists") \/ Goto(w, "report")
        BY <3>1 DEF GetFileSize
      <4>2. worker'[w].pc \in {"exists", "report"}
            /\ \A v \in Workers \ {w} : worker'[v] = worker[v]
        BY <1>0, <4>1 DEF Goto, Threads
      <4>3. UNCHANGED <<disk, link>>
        BY <3>1 DEF GetFileSize
      <4> QED
        BY <4>2, <4>3 DEF disk, link, Active
    <3>2. CASE Exists(w)
      BY <1>0, <3>2 DEF Exists, Goto, StartFrom, Threads, disk, link, Active
    <3>3. CASE CompareSize(w) /\ ~DieIn("terminate")
      <4>1. \/ Goto(w, "md5") \/ Goto(w, "remove")
            \/ StartFrom(w, Local(w).len)
        BY <3>3 DEF CompareSize
      <4>2. worker'[w].pc \in {"md5", "remove", "download"}
            /\ \A v \in Workers \ {w} : worker'[v] = worker[v]
        BY <1>0, <4>1 DEF Goto, StartFrom, Threads
      <4> QED
        BY <3>3, <4>2 DEF CompareSize, disk, link, Active
    <3> QED
      BY <1>5, <3>1, <3>2, <3>3 DEF Deaths
  <2>2. Up /\ Active(w)
    BY <1>5 DEF GetFileSize, Exists, CompareSize, At, Active
  <2> QED
    BY <1>d, <1>e, <2>1, <2>2
<1>6. ASSUME NEW w \in Workers, CheckMd5(w) \/ Removed(w) \/ Verify(w) PROVE Goal
  <2>1. \/ \E cause \in Deaths : DieIn(cause)
        \/ Active(w)' /\ Elsewhere(w) /\ files' = files
    BY <1>0, <1>6 DEF CheckMd5, Removed, Verify, Goto, StartFrom, NextPackage,
       Threads, disk, link, Deaths, Active
  <2>2. Up /\ Active(w)
    BY <1>6 DEF CheckMd5, Removed, Verify, At, Active
  <2> QED
    BY <1>d, <1>e, <2>1, <2>2
<1>7. ASSUME NEW w \in Workers, RemoveBad(w) PROVE Goal
  <2>1. Up /\ Active(w) /\ Active(w)' /\ Elsewhere(w)
    BY <1>0, <1>7 DEF RemoveBad, At, Goto, Threads, link, Active
  <2> QED
    BY <1>7, <1>c, <2>1, RemoveGood
<1>8. ASSUME NEW w \in Workers, Download(w) PROVE Goal
  <2>1. Up /\ worker[w].pc = "download" /\ worker' = worker /\ reported' = reported
    BY <1>8 DEF Download, At, link
  <2>2. CASE process' = process
    <3>1. Job' = Job /\ Job[w] = "running"
      BY <1>c, <2>1, <2>2 DEF Active
    <3>2. Pkg(w) \in PackagesOf(w)
      BY <1>0, <2>1, PackageType DEF Pkg, PackagesOf, AtPackage
    <3> QED
      BY <1>8, <3>1, <3>2, DownloadGood, DeliverySteps
  <2>3. CASE process' # process
    <3>1. \E cause \in Deaths : DieIn(cause)
      BY <1>8, <2>1, <2>3
         DEF Download, DownloadFrom, Transfer, Receive, Complete, Interrupted, Finish,
             DieIn, Die, Deaths
    <3> QED
      BY <1>d, <2>1, <3>1
  <2> QED
    BY <2>2, <2>3
<1>9. ASSUME NEW w \in Workers, MeasureDownload(w) \/ JudgeDownload(w) PROVE Goal
  <2>1. \/ \E cause \in Deaths : DieIn(cause)
        \/ Active(w)' /\ Elsewhere(w) /\ files' = files
    BY <1>0, <1>9 DEF MeasureDownload, JudgeDownload, Retry, Threads, disk, link, Deaths,
       Active
  <2>2. Up /\ Active(w)
    BY <1>9 DEF MeasureDownload, JudgeDownload, At, Active
  <2> QED
    BY <1>d, <1>e, <2>1, <2>2
<1>10. ASSUME NEW w \in Workers, CallPackageReady(w) PROVE Goal
  <2>1. /\ Up /\ worker[w].pc = "ready" /\ worker'[w].pc = "called"
        /\ Elsewhere(w) /\ UNCHANGED <<files, reported>>
    BY <1>0, <1>10 DEF CallPackageReady, At, Goto, Threads, disk, link
  <2>2. w \notin reported'
    BY <1>0, <2>1
  <2>3. Job[w] = "running" /\ Job'[w] = "delivered"
    BY <2>1, <2>2, JobValues, JobValuesNext DEF Active
  <2>4. PackagesOf(w) \subseteq GoodPackages
    BY <1>0, <2>1, ManifestAssumption DEF ReadyIsGood, PackagesOf, GoodPackages
  <2> QED
    BY <1>a, <1>b, <2>1, <2>3, <2>4, DeliverySteps
<1>11. ASSUME NEW w \in Workers, PackageReadyReturns(w) PROVE Goal
  <2>1. CASE \E cause \in Deaths : DieIn(cause)
    BY <1>11, <1>d, <2>1 DEF PackageReadyReturns, At
  <2>2. CASE ~\E cause \in Deaths : DieIn(cause)
    <3>1. /\ worker[w].pc = "called" /\ worker'[w].pc = "end"
          /\ Elsewhere(w) /\ UNCHANGED <<files, reported>>
      BY <1>0, <1>11, <2>2 DEF PackageReadyReturns, At, Goto, Threads, disk, link, Deaths
    <3>2. Job'[w] = Job[w]
      BY <3>1, JobValues, JobValuesNext
    <3> QED
      BY <1>a, <1>b, <3>1, <3>2
  <2> QED
    BY <2>1, <2>2
<1>12. CASE Killed
  BY <1>12, <1>d DEF Killed, Deaths
<1>13. CASE Restart
  <2>1. \A f \in Files : /\ files'[f].exists = files[f].exists
                         /\ files'[f].len = files[f].len /\ files'[f].of = files[f].of
    BY <1>0, <1>13 DEF Restart, FileStates
  <2>2. GoodPackages' = GoodPackages
    BY <2>1, LocalFileAssumption DEF GoodPackages, Good, Md5Good
  <2>3. ASSUME NEW w \in Workers PROVE Job'[w] = Job[w]
    <3>1. /\ ~Up /\ Up' /\ (w \in reported' <=> w \in reported)
          /\ worker'[w].pc = IF Active(w) THEN "lost"
                             ELSE IF worker[w].pc = "called" THEN "end" ELSE worker[w].pc
      BY <1>0, <1>13 DEF Restart, Up, Threads
    <3> QED
      BY <3>1, JobValues, JobValuesNext DEF Active
  <2> QED
    BY <2>2, <2>3 DEF Job
<1>14. CASE UNCHANGED vars
  <2>1. UNCHANGED <<worker, reported, files, process>>
    BY <1>14 DEF vars, link
  <2> QED
    BY <1>a, <2>1 DEF Job, JobState, Active, Up
<1> QED
  BY <1>1, <1>2, <1>3, <1>4, <1>5, <1>6, <1>7, <1>8, <1>9, <1>10, <1>11, <1>12, <1>13, <1>14
     DEF Next, Handle, Work

\* The DLC is a file delivery, whatever the server sends, whatever was left on disk and
\* in either build, as long as no two packages share a local file (main.cpp:20-56,
\* downloadclient.cpp:62-158).
THEOREM DeliversAlways ==
    ASSUME SeparateFiles, OneFileEach
    PROVE  Spec => Delivers
<1>1. Init => Delivery!Init
  <2> SUFFICES ASSUME Init PROVE Delivery!Init
    OBVIOUS
  <2>1. \A w \in Workers : JobState(w) = "new"
    BY DEF Init, JobState, Active, Waiting
  <2> QED
    BY <2>1 DEF Delivery!Init
<1>2. FetchInv /\ FetchInv' /\ [Next]_vars
      => Delivery!Next \/ UNCHANGED <<[w \in Workers |-> JobState(w)],
                                      {p \in Packages : Good(p)}>>
  BY DeliveryNext DEF Job, GoodPackages
<1>3. FetchInv /\ [Next]_vars => FetchInv'
  BY FetchInvStep
<1> QED
  BY <1>1, <1>2, <1>3, FetchInit, PTL DEF Spec, Delivers, Delivery!Spec

\* What is delivered stays so: when a request has ended in a call to the orchestrator,
\* its packages are good from then on, over later requests, deaths and restarts
\* (main.cpp:41-46, downloadclient.cpp:62-158).
THEOREM DeliveredStaysGood ==
    ASSUME SeparateFiles, OneFileEach
    PROVE  Spec => [](\A w \in Workers : JobState(w) = "delivered" =>
                         \A p \in PackagesOf(w) : Good(p))
<1> DEFINE Kept == \A w \in Workers : Job[w] = "delivered" => PackagesOf(w) \subseteq GoodPackages
<1>1. Delivery!Init => Kept
  BY DEF Delivery!Init, Job
<1>2. Kept /\ [Delivery!Next]_<<[w \in Workers |-> JobState(w)], {p \in Packages : Good(p)}>>
      => Kept'
  <2>1. Job = [w \in Workers |-> JobState(w)] /\ GoodPackages = {p \in Packages : Good(p)}
    BY DEF Job, GoodPackages
  <2>2. /\ Job' = [w \in Workers |-> JobState(w)]'
        /\ GoodPackages' = {p \in Packages : Good(p)}'
    BY DEF Job, GoodPackages
  <2>3. DOMAIN Job = Workers
    BY DEF Job
  <2> SUFFICES ASSUME Kept,
                      [Delivery!Next]_<<[w \in Workers |-> JobState(w)], {p \in Packages : Good(p)}>>
               PROVE  Kept'
    OBVIOUS
  <2>4. CASE UNCHANGED <<[w \in Workers |-> JobState(w)], {p \in Packages : Good(p)}>>
    BY <2>1, <2>2, <2>4
  <2>5. ASSUME NEW j \in Workers, Delivery!Accept(j) \/ Delivery!Fail(j) PROVE Kept'
    BY <2>1, <2>2, <2>3, <2>5 DEF Delivery!Accept, Delivery!Fail
  <2>6. ASSUME NEW j \in Workers, Delivery!Deliver(j) PROVE Kept'
    BY <2>1, <2>2, <2>3, <2>6 DEF Delivery!Deliver
  <2>7. ASSUME NEW p \in Packages, Delivery!Obtain(p) PROVE Kept'
    BY <2>1, <2>2, <2>7 DEF Delivery!Obtain
  <2>8. CASE Delivery!Lose
    BY <2>1, <2>2, <2>8 DEF Delivery!Lose, Delivery!Running
  <2> QED
    BY <2>4, <2>5, <2>6, <2>7, <2>8 DEF Delivery!Next
<1>3. Kept => \A w \in Workers : JobState(w) = "delivered" => \A p \in PackagesOf(w) : Good(p)
  BY DEF Job, GoodPackages
<1> HIDE DEF Kept
<1>4. Spec => Delivers
  BY DeliversAlways
<1> QED
  BY <1>1, <1>2, <1>3, <1>4, PTL DEF Delivers, Delivery!Spec

=============================================================================
