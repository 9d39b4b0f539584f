------------------------ MODULE HttpsDownloadProofs ------------------------
(***************************************************************************)
(* What a download does to its file and to its own state, for any number   *)
(* of threads, packages and bytes: the lemmas that the proofs about the    *)
(* clients of DownloadFrom() rest on.                                      *)
(***************************************************************************)
EXTENDS HttpsDownload, TLAPS

\* What the steps of a transfer do to a file keeps it a file.
LEMMA OpenedType ==
    ASSUME NEW f \in FileStates, NEW w \in Workers
    PROVE  Opened(f, w) \in FileStates
BY DEF Opened, FileStates

\* Closing a stream keeps a file a file (https_download.cpp:154).
LEMMA ClosedType ==
    ASSUME NEW f \in FileStates, NEW w \in Workers
    PROVE  Closed(f, w) \in FileStates
BY DEF Closed, FileStates

\* A byte that is written keeps a file a file (https_download.cpp:157).
LEMMA WrittenType ==
    ASSUME NEW f \in FileStates, NEW w \in Workers, NEW c \in Contents, NEW n \in Nat
    PROVE  Written(f, w, c, n) \in FileStates
<1>1. f.len + 1 \in Nat
  BY DEF FileStates
<1>2. ASSUME NEW x \in Contents, NEW m \in Nat
      PROVE  [f EXCEPT !.len = m, !.of = x] \in FileStates
  BY DEF FileStates
<1>3. (IF PrefixOf(f, c) /\ f.len = n THEN c ELSE Garbage) \in Contents
  BY DEF Contents
<1> QED
  BY <1>1, <1>2, <1>3 DEF Written

\* A path that is gone is in the state of a file too.
LEMMA NoFileType == NoFile \in FileStates
BY DEF NoFile, FileStates, Contents

\* A worker outside of DownloadFrom() is in the state of a transfer too.
LEMMA NoTransferType == NoTransfer \in Transfers
BY DEF NoTransfer, Transfers, Phases, Contents

\* What an answer can be: the whole package, the asked range, or an error.
LEMMA AnswerKinds ==
    ASSUME NEW p \in Packages, NEW n \in Nat, NEW a \in Answers(p, n)
    PROVE  \/ a = Whole(p) /\ (RANGES => ~(n < Size[p]))
           \/ a = Partial(p, n) /\ n < Size[p]
           \/ a \in Errors
<1>1. n >= Size[p] <=> ~(n < Size[p])
  BY SizeAssumption
<1>2. CASE n < Size[p]
  <2>1. ~(n >= Size[p])
    BY <1>1, <1>2
  <2> QED
    BY <1>2, <2>1, Zenon DEF Answers
<1>3. CASE ~(n < Size[p])
  <2>1. n >= Size[p]
    BY <1>1, <1>3
  <2> QED
    BY <1>3, <2>1, Zenon DEF Answers
<1> QED
  BY <1>2, <1>3

\* Whatever the server answers is the start of a transfer.
LEMMA AnswersType ==
    ASSUME NEW p \in Packages, NEW n \in Nat
    PROVE  Answers(p, n) \subseteq Transfers
<1>1. Size[p] \in Nat /\ Served(p) \in Contents /\ Garbage \in Contents
  BY SizeAssumption DEF Served, Contents
<1>2. n < Size[p] => Size[p] - n \in Nat
  BY <1>1
<1>3. ASSUME NEW c \in Contents, NEW i \in Nat, NEW j \in Nat, NEW g \in BOOLEAN
      PROVE  Answer(c, i, j, g) \in Transfers
  BY DEF Answer, Transfers, Phases
<1>4. Whole(p) \in Transfers
  BY <1>1, <1>3 DEF Whole
<1>5. n < Size[p] => Partial(p, n) \in Transfers
  BY <1>1, <1>2, <1>3 DEF Partial
<1>6. Errors \subseteq Transfers
  BY <1>1, <1>3, ErrorBodiesAssumption DEF Errors
<1> QED
  BY <1>4, <1>5, <1>6, AnswerKinds

-----------------------------------------------------------------------------
\* A call of DownloadFrom() keeps files and transfers what they are
\* (https_download.cpp:130-152).
LEMMA DownloadFromType ==
    ASSUME HttpsTypeOK, NEW w \in Workers, NEW p \in Packages, NEW n \in Nat,
           DownloadFrom(w, p, n)
    PROVE  HttpsTypeOK'
<1>1. LocalFile[p] \in Files
  BY LocalFileAssumption
<1> QED
  BY <1>1, OpenedType, AnswersType DEF HttpsTypeOK, DownloadFrom, Die, Deaths

\* And so does what comes of it (https_download.cpp:154-231).
LEMMA TransferType ==
    ASSUME HttpsTypeOK, NEW w \in Workers, NEW p \in Packages, Transfer(w, p)
    PROVE  HttpsTypeOK'
<1> USE DEF HttpsTypeOK
<1>1. LocalFile[p] \in Files
  BY LocalFileAssumption
<1>2. ASSUME Receive(w, p) PROVE HttpsTypeOK'
  <2>1. xfer[w] \in Transfers /\ xfer[w].pos + 1 \in Nat /\ xfer[w].left - 1 \in Nat
    BY <1>2 DEF Receive, Transfers
  <2>2. ASSUME NEW i \in Nat, NEW j \in Nat
        PROVE  [xfer[w] EXCEPT !.pos = i, !.left = j] \in Transfers
    BY <2>1 DEF Transfers
  <2>3. xfer[w].content \in Contents /\ xfer[w].pos \in Nat
    BY <2>1 DEF Transfers
  <2>4. Written(files[LocalFile[p]], w, xfer[w].content, xfer[w].pos) \in FileStates
    BY <1>1, <2>3, WrittenType
  <2>5. CASE Die("sigfpe")
    BY <2>5 DEF Die, Deaths
  <2>6. CASE ~Die("sigfpe")
    <3>1. /\ files' = [files EXCEPT ![LocalFile[p]] =
                 Written(@, w, xfer[w].content, xfer[w].pos)]
          /\ xfer' = [xfer EXCEPT ![w].pos = @ + 1, ![w].left = @ - 1]
          /\ process' = process
      BY <1>2, <2>6 DEF Receive
    <3>2. xfer' = [xfer EXCEPT ![w] =
             [xfer[w] EXCEPT !.pos = xfer[w].pos + 1, !.left = xfer[w].left - 1]]
      BY <3>1
    <3>3. xfer' \in [Workers -> Transfers]
      BY <2>1, <2>2, <3>2
    <3> QED
      BY <1>1, <2>4, <3>1, <3>3
  <2> QED
    BY <2>5, <2>6
<1>3. ASSUME NEW phase \in Phases, Finish(w, p, phase) PROVE HttpsTypeOK'
  BY <1>1, <1>3, ClosedType DEF Finish, Transfers
<1>4. ASSUME Die("abort") PROVE HttpsTypeOK'
  BY <1>4 DEF Die, Deaths
<1> QED
  BY <1>2, <1>3, <1>4 DEF Transfer, Complete, Interrupted, Phases

-----------------------------------------------------------------------------
\* The file of a package holds some of its first bytes and no other.
HoldsPrefix(p) ==
    LET f == files[LocalFile[p]] IN PrefixOf(f, p) /\ f.len <= Size[p]

\* A transfer stands where its file ends.
FollowsFile(w, p) ==
    LET f == files[LocalFile[p]]
        x == xfer[w] IN
    /\ x.phase = "body" /\ x.good =>
          /\ x.content = p /\ x.pos = f.len /\ x.pos + x.left = Size[p]
          /\ w \in f.writers /\ f.exists
    /\ x.phase = "body" /\ ~x.good => x.left = 0 /\ f.len < Size[p]
    /\ x.phase = "failed" => f.len < Size[p]
    /\ x.phase = "ok" => f.len = Size[p]

\* A server that serves what it should, and the range that it is asked for, and whose
\* errors have no body.
GoodServer == Damaged = {} /\ ErrorBodies \subseteq {0} /\ RANGES

\* A step of one transfer leaves the files of other packages, and other transfers,
\* alone; its own file stays if it is there, and grows only if it is there; and the
\* transfer is not idle after it.
OnlyItsOwn(w, p) ==
    /\ \A f \in Files \ {LocalFile[p]} : files'[f] = files[f]
    /\ \A v \in Workers \ {w} : xfer'[v] = xfer[v]
    /\ files[LocalFile[p]].exists => files'[LocalFile[p]].exists
    /\ ~files'[LocalFile[p]].exists => files'[LocalFile[p]].len = files[LocalFile[p]].len
    /\ xfer'[w].phase # "idle" \/ UNCHANGED <<files, xfer>>

\* Every step of a download is of that kind (https_download.cpp:130-231).
LEMMA DownloadIsItsOwn ==
    ASSUME HttpsTypeOK, NEW w \in Workers, NEW p \in Packages, NEW n,
           DownloadFrom(w, p, n) \/ Transfer(w, p),
           xfer[w].phase = "body" /\ xfer[w].left > 0 => files[LocalFile[p]].exists
    PROVE  OnlyItsOwn(w, p)
<1> DEFINE f == files[LocalFile[p]]
<1>1. LocalFile[p] \in Files /\ f \in FileStates /\ files \in [Files -> FileStates]
      /\ xfer \in [Workers -> Transfers]
  BY LocalFileAssumption DEF HttpsTypeOK
<1>2. ASSUME NEW g, files' = [files EXCEPT ![LocalFile[p]] = g],
             f.exists => g.exists, g.exists \/ g.len = f.len,
             \A v \in Workers \ {w} : xfer'[v] = xfer[v],
             xfer'[w].phase # "idle"
      PROVE  OnlyItsOwn(w, p)
  BY <1>1, <1>2 DEF OnlyItsOwn
<1>3. ASSUME UNCHANGED <<files, xfer>> PROVE OnlyItsOwn(w, p)
  BY <1>3 DEF OnlyItsOwn
<1>4. CASE DownloadFrom(w, p, n)
  <2>1. Opened(f, w).exists
    BY <1>1 DEF Opened, FileStates
  <2>2. \A a \in Answers(p, n) : a.phase # "idle"
    BY DEF Answers, Answer, Partial, Whole, Errors
  <2> QED
    BY <1>1, <1>2, <1>3, <1>4, <2>1, <2>2 DEF DownloadFrom, Die
<1>5. ASSUME NEW phase \in {"ok", "failed"}, Finish(w, p, phase)
      PROVE  OnlyItsOwn(w, p)
  <2>1. Closed(f, w).exists = f.exists /\ Closed(f, w).len = f.len
    BY <1>1 DEF Closed, FileStates
  <2> QED
    BY <1>1, <1>2, <1>5, <2>1 DEF Finish, Transfers
<1>6. CASE Receive(w, p)
  <2> DEFINE g == Written(f, w, xfer[w].content, xfer[w].pos)
  <2>1. g.exists
    BY <1>1, <1>6 DEF Written, FileStates, Receive
  <2>2. \/ UNCHANGED <<files, xfer>>
        \/ /\ files' = [files EXCEPT ![LocalFile[p]] = g]
           /\ \A v \in Workers \ {w} : xfer'[v] = xfer[v]
           /\ xfer'[w].phase = "body"
    BY <1>1, <1>6 DEF Receive, Die, Transfers
  <2> HIDE DEF g
  <2> QED
    BY <1>2, <1>3, <2>1, <2>2
<1> QED
  BY <1>3, <1>4, <1>5, <1>6 DEF Transfer, Complete, Interrupted, Die

\* With a good server an attempt that begins where a prefix of the package ends adds
\* the bytes that follow, and no other (https_download.cpp:130-231).
LEMMA DownloadFollows ==
    ASSUME HttpsTypeOK, GoodServer, NEW w \in Workers, NEW p \in Packages, NEW n,
           HoldsPrefix(p), FollowsFile(w, p),
           \/ DownloadFrom(w, p, n) /\ n = files[LocalFile[p]].len /\ n < Size[p]
           \/ Transfer(w, p)
    PROVE  HoldsPrefix(p)' /\ FollowsFile(w, p)'
<1> DEFINE f == files[LocalFile[p]]
           x == xfer[w]
<1>1. /\ LocalFile[p] \in Files /\ f \in FileStates /\ files \in [Files -> FileStates]
      /\ x \in Transfers /\ xfer \in [Workers -> Transfers]
      /\ f.len \in Nat /\ Size[p] \in Nat
  BY LocalFileAssumption, SizeAssumption DEF HttpsTypeOK, FileStates
<1>2. PrefixOf(f, p) /\ f.len <= Size[p]
  BY DEF HoldsPrefix
<1>3. CASE UNCHANGED <<files, xfer>>
  BY <1>3 DEF HoldsPrefix, FollowsFile
<1>4. CASE DownloadFrom(w, p, n) /\ n = f.len /\ n < Size[p]
  <2>1. CASE Die("abort")
    BY <1>3, <2>1 DEF Die
  <2>2. CASE ~Die("abort")
    <3>1. PICK a \in Answers(p, n) :
              /\ files' = [files EXCEPT ![LocalFile[p]] = Opened(@, w)]
              /\ xfer' = [xfer EXCEPT ![w] = a]
      BY <1>4, <2>2 DEF DownloadFrom
    <3>2. /\ Opened(f, w).len = f.len /\ Opened(f, w).of = f.of
          /\ Opened(f, w).exists /\ w \in Opened(f, w).writers
      BY <1>1 DEF Opened, FileStates
    <3>3. n = f.len /\ f.len < Size[p]
      BY <1>4 DEF DownloadFrom
    <3>4. a = Answer(p, f.len, Size[p] - f.len, TRUE) \/ a = Answer(Garbage, 0, 0, FALSE)
      <4>1. a = Partial(p, f.len) \/ a \in Errors
        BY <1>1, <3>1, <3>3, AnswerKinds DEF GoodServer
      <4> QED
        BY <4>1 DEF GoodServer, Served, Partial, Errors
    <3>5. files'[LocalFile[p]] = Opened(f, w) /\ xfer'[w] = a
      BY <1>1, <3>1
    <3>6. FollowsFile(w, p)'
      BY <1>1, <3>2, <3>3, <3>4, <3>5 DEF FollowsFile, Answer
    <3>7. HoldsPrefix(p)'
      BY <1>2, <3>2, <3>5 DEF HoldsPrefix, PrefixOf
    <3> QED
      BY <3>6, <3>7
  <2> QED
    BY <2>1, <2>2
<1>5. CASE Receive(w, p)
  <2>1. CASE Die("sigfpe")
    BY <1>3, <2>1 DEF Die
  <2>2. CASE ~Die("sigfpe")
    <3> DEFINE g == Written(f, w, x.content, x.pos)
    <3>1. /\ files' = [files EXCEPT ![LocalFile[p]] = Written(@, w, x.content, x.pos)]
          /\ xfer' = [xfer EXCEPT ![w].pos = @ + 1, ![w].left = @ - 1]
          /\ x.phase = "body" /\ x.left > 0
      BY <1>5, <2>2 DEF Receive
    <3>2. /\ x.good /\ x.content = p /\ x.pos = f.len /\ w \in f.writers /\ f.exists
          /\ x.pos + x.left = Size[p]
      BY <1>1, <3>1 DEF FollowsFile, Transfers
    <3>3. x.pos \in Nat /\ x.left \in Nat
      BY <1>1 DEF Transfers
    <3>4. g = [f EXCEPT !.len = f.len + 1, !.of = p]
      BY <1>2, <3>2 DEF Written
    <3>5. g.len = f.len + 1 /\ g.of = p /\ g.exists /\ g.writers = f.writers
      BY <1>1, <3>2, <3>4 DEF FileStates
    <3>6. files'[LocalFile[p]] = g
      BY <1>1, <3>1
    <3>7. xfer'[w] = [x EXCEPT !.pos = x.pos + 1, !.left = x.left - 1]
      BY <1>1, <3>1
    <3>8. /\ xfer'[w].phase = "body" /\ xfer'[w].good /\ xfer'[w].content = p
          /\ xfer'[w].pos = x.pos + 1 /\ xfer'[w].left = x.left - 1
      BY <1>1, <3>1, <3>2, <3>7 DEF Transfers
    <3>9. x.pos + 1 + (x.left - 1) = Size[p] /\ x.pos + 1 <= Size[p]
      BY <1>1, <3>1, <3>2, <3>3
    <3> HIDE DEF g
    <3>10. FollowsFile(w, p)'
      BY <1>1, <3>2, <3>5, <3>6, <3>8, <3>9 DEF FollowsFile
    <3>11. HoldsPrefix(p)'
      BY <3>2, <3>5, <3>6, <3>9 DEF HoldsPrefix, PrefixOf
    <3> QED
      BY <3>10, <3>11
  <2> QED
    BY <2>1, <2>2
<1>6. ASSUME NEW phase \in {"ok", "failed"}, Finish(w, p, phase),
             phase = "ok" => f.len = Size[p],
             phase = "failed" => f.len < Size[p]
      PROVE  HoldsPrefix(p)' /\ FollowsFile(w, p)'
  <2>1. Closed(f, w).len = f.len /\ Closed(f, w).of = f.of
    BY <1>1 DEF Closed, FileStates
  <2>2. files'[LocalFile[p]] = Closed(f, w)
    BY <1>1, <1>6 DEF Finish
  <2>3. xfer'[w].phase = phase
    BY <1>1, <1>6 DEF Finish, Transfers
  <2> QED
    BY <1>2, <1>6, <2>1, <2>2, <2>3 DEF FollowsFile, HoldsPrefix, PrefixOf
<1>7. CASE Complete(w, p)
  <2>1. x.phase = "body" /\ x.left = 0 /\ x.pos \in Nat
    BY <1>1, <1>7 DEF Complete, Transfers
  <2>2. /\ x.good => f.len = Size[p]
        /\ ~x.good => f.len < Size[p]
    BY <1>1, <2>1 DEF FollowsFile
  <2> QED
    BY <1>6, <1>7, <2>2 DEF Complete
<1>8. CASE Interrupted(w, p)
  <2>1. CASE Die("abort")
    BY <1>3, <2>1 DEF Die
  <2>2. CASE ~Die("abort")
    <3>1. x.phase = "body" /\ x.left > 0 /\ Finish(w, p, "failed")
      BY <1>8, <2>2 DEF Interrupted
    <3>2. f.len < Size[p]
      BY <1>1, <3>1 DEF FollowsFile, Transfers
    <3> QED
      BY <1>6, <3>1, <3>2
  <2> QED
    BY <2>1, <2>2
<1> QED
  BY <1>4, <1>5, <1>7, <1>8 DEF Transfer

-----------------------------------------------------------------------------
\* What a thread that fetches package p over a file it found bad knows, whatever the
\* server sends: the file is bad until the last byte of the package has come, and bad
\* again after a failure.
Fetches(w, p) ==
    LET f == files[LocalFile[p]]
        x == xfer[w] IN
    /\ x.phase \in {"idle", "failed"} => ~Md5Good(f, p)
    /\ x.phase = "body" =>
          /\ f.exists
          /\ \/ x.content = Garbage /\ ~Md5Good(f, p)
             \/ /\ x.content = p /\ x.good /\ x.pos + x.left = Size[p]
                /\ Md5Good(f, p) => x.left = 0

\* A download never takes a good package away again, and keeps what its thread knows of
\* it: no hypothesis is made about the server or about what the file held before
\* (https_download.cpp:130-231).
LEMMA DownloadFetches ==
    ASSUME HttpsTypeOK, NEW w \in Workers, NEW p \in Packages, NEW n \in Nat,
           ~files[LocalFile[p]].exists => files[LocalFile[p]].len = 0,
           Fetches(w, p), DownloadFrom(w, p, n) \/ Transfer(w, p)
    PROVE  /\ Fetches(w, p)'
           /\ Md5Good(files[LocalFile[p]], p) => Md5Good(files'[LocalFile[p]], p)
<1> DEFINE f == files[LocalFile[p]]
           x == xfer[w]
           Goal == /\ Fetches(w, p)'
                   /\ Md5Good(f, p) => Md5Good(files'[LocalFile[p]], p)
<1>1. /\ LocalFile[p] \in Files /\ f \in FileStates /\ files \in [Files -> FileStates]
      /\ x \in Transfers /\ xfer \in [Workers -> Transfers]
      /\ f.len \in Nat /\ Size[p] \in Nat /\ Size[p] > 0 /\ x.pos \in Nat /\ x.left \in Nat
      /\ p # Garbage
  BY LocalFileAssumption, SizeAssumption, GarbageAssumption
     DEF HttpsTypeOK, FileStates, Transfers
<1>2. ASSUME UNCHANGED <<files, xfer>> PROVE Goal
  BY <1>2 DEF Fetches
<1>3. CASE DownloadFrom(w, p, n) /\ ~Die("abort")
  <2>1. PICK a \in Answers(p, n) :
            /\ x.phase = "idle"
            /\ files' = [files EXCEPT ![LocalFile[p]] = Opened(f, w)]
            /\ xfer' = [xfer EXCEPT ![w] = a]
    BY <1>3 DEF DownloadFrom
  <2>2. Opened(f, w).len = f.len /\ Opened(f, w).of = f.of /\ Opened(f, w).exists
    BY <1>1 DEF Opened, FileStates
  <2>3. ~Md5Good(f, p)
    BY <2>1 DEF Fetches
  <2>4. files'[LocalFile[p]] = Opened(f, w) /\ xfer'[w] = a
    BY <1>1, <2>1
  <2>5. /\ a.phase = "body"
        /\ \/ a.content = Garbage
           \/ a.content = p /\ a.good /\ a.pos + a.left = Size[p]
    <3>1. n < Size[p] => n + (Size[p] - n) = Size[p]
      BY <1>1
    <3>2. 0 + Size[p] = Size[p]
      BY <1>1
    <3>3. a = Whole(p) \/ (a = Partial(p, n) /\ n < Size[p]) \/ a \in Errors
      BY <2>1, AnswerKinds
    <3>4. CASE a = Whole(p)
      BY <3>2, <3>4 DEF Answer, Served, Whole
    <3>5. CASE a = Partial(p, n) /\ n < Size[p]
      BY <3>1, <3>5 DEF Answer, Served, Partial
    <3>6. CASE a \in Errors
      BY <3>6 DEF Answer, Errors
    <3> QED
      BY <3>3, <3>4, <3>5, <3>6
  <2>6. ~Md5Good(Opened(f, w), p)
    <3>1. CASE f.exists
      BY <2>2, <2>3, <3>1 DEF Md5Good
    <3>2. CASE ~f.exists
      BY <1>1, <2>2, <3>2 DEF Md5Good
    <3> QED
      BY <3>1, <3>2
  <2> QED
    BY <2>2, <2>3, <2>4, <2>5, <2>6 DEF Fetches
<1>4. CASE Receive(w, p) /\ ~Die("sigfpe")
  <2> DEFINE g == Written(f, w, x.content, x.pos)
  <2>1. /\ files' = [files EXCEPT ![LocalFile[p]] = g]
        /\ xfer' = [xfer EXCEPT ![w].pos = @ + 1, ![w].left = @ - 1]
        /\ x.phase = "body" /\ x.left > 0
    BY <1>4 DEF Receive
  <2>2. files'[LocalFile[p]] = g
    BY <1>1, <2>1
  <2>3. /\ xfer'[w].phase = "body" /\ xfer'[w].content = x.content
        /\ xfer'[w].good = x.good
        /\ xfer'[w].pos = x.pos + 1 /\ xfer'[w].left = x.left - 1
    <3> DEFINE i == x.pos + 1
               j == x.left - 1
               y == [x EXCEPT !.pos = i, !.left = j]
    <3>1. xfer'[w] = y
      BY <1>1, <2>1
    <3> HIDE DEF i, j
    <3>2. /\ y.phase = x.phase /\ y.content = x.content /\ y.good = x.good
          /\ y.pos = i /\ y.left = j
      BY <1>1 DEF Transfers
    <3> HIDE DEF y
    <3> QED
      BY <2>1, <3>1, <3>2 DEF i, j
  <2>4. x.pos + 1 + (x.left - 1) = x.pos + x.left
    BY <1>1
  <2>5. ~Md5Good(f, p) /\ f.exists
    BY <1>1, <2>1 DEF Fetches
  <2>6. /\ g.exists
        /\ Md5Good(g, p) =>
              x.content = p /\ g.len = f.len + 1 /\ f.len = x.pos
    <3>1. CASE w \notin f.writers
      BY <2>5, <3>1 DEF Written
    <3>2. CASE w \in f.writers
      <4>1. g = [f EXCEPT !.len = f.len + 1,
                          !.of = IF PrefixOf(f, x.content) /\ f.len = x.pos
                                 THEN x.content ELSE Garbage]
        BY <3>2 DEF Written
      <4>2. g.exists /\ g.len = f.len + 1
            /\ (g.of = Garbage \/ (g.of = x.content /\ f.len = x.pos))
        BY <1>1, <2>5, <4>1 DEF FileStates
      <4> QED
        BY <1>1, <4>2 DEF Md5Good
    <3> QED
      BY <3>1, <3>2
  <2> HIDE DEF g
  <2>7. CASE x.content = Garbage
    BY <1>1, <2>2, <2>3, <2>5, <2>6, <2>7 DEF Fetches
  <2>8. CASE x.content = p /\ x.good /\ x.pos + x.left = Size[p]
    <3>1. Md5Good(g, p) => x.left - 1 = 0
      <4>1. Md5Good(g, p) => x.pos + 1 = Size[p]
        BY <2>6 DEF Md5Good
      <4> QED
        BY <1>1, <2>8, <4>1
    <3> QED
      BY <2>2, <2>3, <2>4, <2>5, <2>6, <2>8, <3>1 DEF Fetches
  <2> QED
    BY <2>1, <2>7, <2>8 DEF Fetches
<1>5. ASSUME NEW phase \in {"ok", "failed"}, Finish(w, p, phase),
             phase = "failed" => ~Md5Good(f, p)
      PROVE  Goal
  <2>1. Closed(f, w).len = f.len /\ Closed(f, w).of = f.of /\ Closed(f, w).exists = f.exists
    BY <1>1 DEF Closed, FileStates
  <2>2. files'[LocalFile[p]] = Closed(f, w)
    BY <1>1, <1>5 DEF Finish
  <2>3. xfer'[w].phase = phase
    BY <1>1, <1>5 DEF Finish, Transfers
  <2> QED
    BY <1>5, <2>1, <2>2, <2>3 DEF Fetches, Md5Good
<1>6. CASE Complete(w, p)
  <2>1. x.phase = "body" /\ (~x.good => ~Md5Good(f, p))
    BY <1>6 DEF Complete, Fetches
  <2> QED
    BY <1>5, <1>6, <2>1 DEF Complete
<1>7. CASE Interrupted(w, p) /\ ~Die("abort")
  <2>1. x.phase = "body" /\ x.left > 0 /\ Finish(w, p, "failed")
    BY <1>7 DEF Interrupted
  <2>2. ~Md5Good(f, p)
    BY <1>1, <2>1 DEF Fetches
  <2> QED
    BY <1>5, <2>1, <2>2
<1> QED
  BY <1>2, <1>3, <1>4, <1>6, <1>7 DEF Transfer, Receive, Interrupted, DownloadFrom, Die

-----------------------------------------------------------------------------
\* What a thread that fetches package p into an empty file knows, whatever errors the
\* server sends: the bytes of a good answer are those of the package, from its first.
StartsAfresh(w, p) ==
    LET f == files[LocalFile[p]]
        x == xfer[w] IN
    /\ x.phase = "idle" => f.len = 0
    /\ x.phase = "body" => f.exists
    /\ x.phase = "body" /\ x.good =>
          /\ x.content = p /\ x.pos = f.len /\ x.pos + x.left = Size[p]
          /\ PrefixOf(f, p) /\ w \in f.writers
    /\ x.phase = "ok" => Md5Good(f, p)

\* A download that begins with an empty file keeps to this (https_download.cpp:130-231).
LEMMA DownloadStartsAfresh ==
    ASSUME HttpsTypeOK, Damaged = {}, NEW w \in Workers, NEW p \in Packages,
           StartsAfresh(w, p), DownloadFrom(w, p, 0) \/ Transfer(w, p)
    PROVE  StartsAfresh(w, p)'
<1> DEFINE f == files[LocalFile[p]]
           x == xfer[w]
<1>1. /\ LocalFile[p] \in Files /\ f \in FileStates /\ files \in [Files -> FileStates]
      /\ x \in Transfers /\ xfer \in [Workers -> Transfers]
      /\ f.len \in Nat /\ Size[p] \in Nat /\ Size[p] > 0 /\ x.pos \in Nat /\ x.left \in Nat
  BY LocalFileAssumption, SizeAssumption DEF HttpsTypeOK, FileStates, Transfers
<1>2. ASSUME UNCHANGED <<files, xfer>> PROVE StartsAfresh(w, p)'
  BY <1>2 DEF StartsAfresh
<1>3. CASE DownloadFrom(w, p, 0) /\ ~Die("abort")
  <2>1. PICK a \in Answers(p, 0) :
            /\ x.phase = "idle"
            /\ files' = [files EXCEPT ![LocalFile[p]] = Opened(f, w)]
            /\ xfer' = [xfer EXCEPT ![w] = a]
    BY <1>3 DEF DownloadFrom
  <2>2. /\ Opened(f, w).len = f.len /\ Opened(f, w).of = f.of
        /\ Opened(f, w).exists /\ w \in Opened(f, w).writers
    BY <1>1 DEF Opened, FileStates
  <2>3. a = Answer(p, 0, Size[p], TRUE) \/ \E n : a = Answer(Garbage, 0, n, FALSE)
    <3>1. Size[p] - 0 = Size[p] /\ ~(0 >= Size[p])
      BY <1>1
    <3> QED
      BY <2>1, <3>1 DEF Answers, Served, Partial, Whole, Errors
  <2>4. /\ a.phase = "body"
        /\ a.good => a.content = p /\ a.pos = 0 /\ a.left = Size[p]
    BY <2>3 DEF Answer
  <2>5. files'[LocalFile[p]] = Opened(f, w) /\ xfer'[w] = a
    BY <1>1, <2>1
  <2>6. f.len = 0 /\ 0 + Size[p] = Size[p]
    BY <1>1, <2>1 DEF StartsAfresh
  <2> QED
    BY <2>2, <2>4, <2>5, <2>6 DEF StartsAfresh, PrefixOf
<1>4. CASE Receive(w, p) /\ ~Die("sigfpe")
  <2> DEFINE g == Written(f, w, x.content, x.pos)
  <2>1. /\ files' = [files EXCEPT ![LocalFile[p]] = g]
        /\ xfer' = [xfer EXCEPT ![w].pos = @ + 1, ![w].left = @ - 1]
        /\ x.phase = "body" /\ x.left > 0
    BY <1>4 DEF Receive
  <2>2. files'[LocalFile[p]] = g
    BY <1>1, <2>1
  <2>3. /\ xfer'[w].phase = "body" /\ xfer'[w].content = x.content
        /\ xfer'[w].good = x.good
        /\ xfer'[w].pos = x.pos + 1 /\ xfer'[w].left = x.left - 1
    <3> DEFINE i == x.pos + 1
               j == x.left - 1
               y == [x EXCEPT !.pos = i, !.left = j]
    <3>1. xfer'[w] = y
      BY <1>1, <2>1
    <3> HIDE DEF i, j
    <3>2. /\ y.phase = x.phase /\ y.content = x.content /\ y.good = x.good
          /\ y.pos = i /\ y.left = j
      BY <1>1 DEF Transfers
    <3> HIDE DEF y
    <3> QED
      BY <2>1, <3>1, <3>2 DEF i, j
  <2>4. x.pos + 1 + (x.left - 1) = x.pos + x.left
    BY <1>1
  <2>5. g.exists
    BY <1>1, <2>1 DEF Written, FileStates, StartsAfresh
  <2>6. CASE ~x.good
    BY <2>2, <2>3, <2>5, <2>6 DEF StartsAfresh
  <2>7. CASE x.good
    <3>1. /\ x.content = p /\ x.pos = f.len /\ x.pos + x.left = Size[p]
          /\ PrefixOf(f, p) /\ w \in f.writers
      BY <2>1, <2>7 DEF StartsAfresh
    <3>2. g = [f EXCEPT !.len = f.len + 1, !.of = p]
      BY <3>1 DEF Written
    <3>3. g.len = f.len + 1 /\ g.of = p /\ g.writers = f.writers
      BY <1>1, <3>2 DEF FileStates
    <3> HIDE DEF g
    <3> QED
      BY <2>2, <2>3, <2>4, <2>5, <3>1, <3>3 DEF StartsAfresh, PrefixOf
  <2> QED
    BY <2>6, <2>7
<1>5. ASSUME NEW phase \in {"ok", "failed"}, Finish(w, p, phase),
             phase = "ok" => Md5Good(f, p)
      PROVE  StartsAfresh(w, p)'
  <2>1. Closed(f, w).len = f.len /\ Closed(f, w).of = f.of /\ Closed(f, w).exists = f.exists
    BY <1>1 DEF Closed, FileStates
  <2>2. files'[LocalFile[p]] = Closed(f, w)
    BY <1>1, <1>5 DEF Finish
  <2>3. xfer'[w].phase = phase
    BY <1>1, <1>5 DEF Finish, Transfers
  <2> QED
    BY <1>5, <2>1, <2>2, <2>3 DEF StartsAfresh, Md5Good
<1>6. CASE Complete(w, p)
  <2>1. x.phase = "body" /\ x.left = 0
    BY <1>6 DEF Complete
  <2>2. x.good => Md5Good(f, p)
    BY <1>1, <2>1 DEF StartsAfresh, Md5Good, PrefixOf
  <2> QED
    BY <1>5, <1>6, <2>2 DEF Complete
<1>7. CASE Interrupted(w, p) /\ ~Die("abort")
  BY <1>5, <1>7 DEF Interrupted
<1> QED
  BY <1>2, <1>3, <1>4, <1>6, <1>7 DEF Transfer, Receive, Interrupted, DownloadFrom, Die

=============================================================================
