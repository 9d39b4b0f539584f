-------------------------- MODULE DlcServiceProofs --------------------------
(***************************************************************************)
(* Theorems about DlcService, for any messages, publications and ids, and  *)
(* any number of calls and attempts.                                       *)
(***************************************************************************)
EXTENDS DlcService, TLAPS, WellFoundedInduction

CallType ==
    /\ dmc \in DmcStates /\ dlc \in DlcStates
    /\ gateway \in {"off", "serving"} /\ linked \subseteq {"dmc", "gateway"}
    /\ asked \subseteq AskedSoFar /\ passed \subseteq PassedSoFar
    /\ workers \subseteq Manifests /\ offered \subseteq Manifests /\ done \subseteq DoneSoFar

NewsType ==
    /\ news \in [made : 0..Len(News), toDlc : Seq(1..Len(News)), toDmc : Seq(1..Len(News))]
    /\ seen \in [HMI : 0..Len(News), cloud : 0..Len(News)]

\* A call has one request at the DLC and one at the gateway, the latter only once the
\* DLC has passed it on.
OneRequestPerCall ==
    /\ \A r1, r2 \in asked : r1.call = r2.call => r1 = r2
    /\ \A q1, q2 \in passed : q1.call = q2.call => q1 = q2
    /\ \A r \in asked, q \in passed : r.call = q.call => r.stage = "passed"

\* The answer of a call comes to an end of the call, and says what has been done.
ToldAtTheEnd == dmc.pc = "call" => dmc.told = "none"
AgreedIsDone == \A q \in passed : q.answer = "true" => \E d \in done : d.call = q.call

CallInv ==
    /\ CallType /\ OneRequestPerCall /\ ToldAtTheEnd /\ AgreedIsDone
    /\ AnsweredIsOver /\ TrueIsEarned

-----------------------------------------------------------------------------
\* What is made of a message (main.cpp:58-140).
LEMMA HandlingRange ==
    ASSUME NEW m \in Messages
    PROVE  Handling(m) \in {"reported", "ignored", "packages", "aborts"}
BY DEF Handling, Outcome

\* What a lost connection leaves of the requests of the DMC.
LEMMA OrphansOfDmc ==
    ASSUME NEW S \in SUBSET AskedSoFar, NEW T \in Orphaned(S)
    PROVE  /\ T \subseteq AskedSoFar
           /\ \A x \in T : \E y \in S : /\ x = [y EXCEPT !.live = FALSE]
                                        /\ x.call = y.call /\ x.stage = y.stage
<1>1. PICK arrived \in SUBSET S : T = {[r EXCEPT !.live = FALSE] : r \in arrived}
  BY DEF Orphaned
<1>2. ASSUME NEW y \in AskedSoFar
      PROVE  /\ [y EXCEPT !.live = FALSE] \in AskedSoFar
             /\ [y EXCEPT !.live = FALSE].call = y.call
             /\ [y EXCEPT !.live = FALSE].stage = y.stage
  BY DEF AskedSoFar
<1>3. ASSUME NEW x \in T
      PROVE  \E y \in S : /\ x \in AskedSoFar /\ x = [y EXCEPT !.live = FALSE]
                         /\ x.call = y.call /\ x.stage = y.stage
  <2>1. PICK y \in arrived : x = [y EXCEPT !.live = FALSE]
    BY <1>1, <1>3
  <2>2. y \in S /\ y \in AskedSoFar
    OBVIOUS
  <2>3. x \in AskedSoFar /\ x.call = y.call /\ x.stage = y.stage
    BY <1>2, <2>1, <2>2
  <2> QED
    BY <2>1, <2>2, <2>3
<1> QED
  BY <1>3

\* And of those of the DLC.
LEMMA OrphansOfDlc ==
    ASSUME NEW S \in SUBSET PassedSoFar, NEW T \in Orphaned(S)
    PROVE  /\ T \subseteq PassedSoFar
           /\ \A x \in T : \E y \in S : /\ x = [y EXCEPT !.live = FALSE]
                                        /\ x.call = y.call /\ x.answer = y.answer
<1>1. PICK arrived \in SUBSET S : T = {[r EXCEPT !.live = FALSE] : r \in arrived}
  BY DEF Orphaned
<1>2. ASSUME NEW y \in PassedSoFar
      PROVE  /\ [y EXCEPT !.live = FALSE] \in PassedSoFar
             /\ [y EXCEPT !.live = FALSE].call = y.call
             /\ [y EXCEPT !.live = FALSE].answer = y.answer
  BY DEF PassedSoFar
<1>3. ASSUME NEW x \in T
      PROVE  \E y \in S : /\ x \in PassedSoFar /\ x = [y EXCEPT !.live = FALSE]
                         /\ x.call = y.call /\ x.answer = y.answer
  <2>1. PICK y \in arrived : x = [y EXCEPT !.live = FALSE]
    BY <1>1, <1>3
  <2>2. y \in S /\ y \in PassedSoFar
    OBVIOUS
  <2>3. x \in PassedSoFar /\ x.call = y.call /\ x.answer = y.answer
    BY <1>2, <2>1, <2>2
  <2> QED
    BY <2>1, <2>2, <2>3
<1> QED
  BY <1>3

\* Type correctness holds when the processes start.
LEMMA TypeInit == Init => CallType /\ NewsType
<1> SUFFICES ASSUME Init PROVE CallType /\ NewsType
  OBVIOUS
<1>1. MAX_TRY \in Nat /\ MAX_CALLS \in Nat /\ WORD \in Nat /\ WORD > MAX_TRY
      /\ Len(News) \in Nat
  BY BoundsAssumption, NewsAssumption
<1>2. dmc \in DmcStates /\ dlc \in DlcStates
  BY <1>1 DEF Init, DmcStates, DlcStates, Results
<1>3. NewsType
  BY <1>1 DEF Init, NewsType
<1> QED
  BY <1>2, <1>3 DEF Init, CallType

-----------------------------------------------------------------------------
\* The call that is answered goes on, whatever its answer says.
LEMMA AnswerType ==
    ASSUME CallType, NEW r, NEW result \in Results, Answer(r, result)
    PROVE  /\ dmc' \in DmcStates /\ dmc'.call = dmc.call
           /\ asked' \subseteq AskedSoFar
           /\ \/ dmc' = dmc
              \/ /\ dmc'.pc = "idle" /\ dmc'.told = result
                 /\ dmc.pc = "call" /\ dmc.call = r.call
BY DEF CallType, Answer, DmcStates

\* A step that makes no new call.
LEMMA SameCallType ==
    ASSUME CallType, dmc' \in DmcStates, dmc'.call = dmc.call, dlc' \in DlcStates,
           gateway' \in {"off", "serving"}, linked' \subseteq {"dmc", "gateway"},
           asked' \subseteq AskedSoFar, passed' \subseteq PassedSoFar,
           workers' \subseteq Manifests, offered' \subseteq Manifests,
           done' \subseteq DoneSoFar
    PROVE  CallType'
BY DEF CallType, AskedSoFar, PassedSoFar, DoneSoFar, DmcStates, DlcStates

\* The end of the DLC's process (main.cpp:213-216).
LEMMA EndDlcType ==
    ASSUME CallType, EndDlc
    PROVE  CallType'
<1>1. dlc' \in DlcStates
  BY BoundsAssumption DEF EndDlc, DlcStates
<1>2. passed' \subseteq PassedSoFar
  BY OrphansOfDlc DEF EndDlc, CallType
<1> QED
  BY <1>1, <1>2, SameCallType DEF EndDlc, CallType

\* The services keep the types of the calls.
LEMMA CallTypeNext ==
    ASSUME CallType, Services
    PROVE  CallType'
<1>0. /\ dmc \in DmcStates /\ dlc \in DlcStates
      /\ gateway \in {"off", "serving"} /\ linked \subseteq {"dmc", "gateway"}
      /\ asked \subseteq AskedSoFar /\ passed \subseteq PassedSoFar
      /\ workers \subseteq Manifests /\ offered \subseteq Manifests
      /\ done \subseteq DoneSoFar
      /\ MAX_TRY \in Nat /\ MAX_CALLS \in Nat /\ WORD \in Nat /\ WORD > MAX_TRY
      /\ dmc.call \in 0..MAX_CALLS /\ dmc.count \in -1..MAX_TRY /\ dlc.count \in Nat
  BY BoundsAssumption DEF CallType, DmcStates, DlcStates
<1>1. CASE DmcConnect \/ DmcTryAgain \/ DmcGiveUp \/ CallThrows
  <2>1. dmc' \in DmcStates /\ dmc'.call = dmc.call
    <3>1. CASE DmcConnect
      BY <1>0, <3>1 DEF DmcConnect, DmcStates
    <3>2. CASE DmcTryAgain
      <4>1. dmc' = [dmc EXCEPT !.count = dmc.count - 1] /\ dmc.count >= 0
        BY <3>2 DEF DmcTryAgain
      <4>2. dmc.count - 1 \in -1..MAX_TRY
        BY <1>0, <4>1
      <4> QED
        BY <1>0, <4>1, <4>2 DEF DmcStates
    <3>3. CASE DmcGiveUp
      BY <1>0, <3>3 DEF DmcGiveUp, DmcStates
    <3>4. CASE CallThrows
      BY <1>0, <3>4 DEF CallThrows, DmcStates, Results
    <3> QED
      BY <1>1, <3>1, <3>2, <3>3, <3>4
  <2> QED
    BY <1>0, <1>1, <2>1, SameCallType DEF DmcConnect, DmcTryAgain, DmcGiveUp, CallThrows
<1>2. ASSUME NEW op \in {"ToVehicle", "CheckNewPackage", "StartUpgrade"}, NEW argument,
             op = "ToVehicle" => argument \in Messages,
             op # "ToVehicle" => argument \in Ids \cup {""}, Ask(op, argument)
      PROVE  CallType'
  <2>0. dmc.call + 1 \in 0..MAX_CALLS
    <3>1. dmc.call < MAX_CALLS
      BY <1>2 DEF Ask
    <3> QED
      BY <1>0, <3>1
  <2>1. dmc' = [dmc EXCEPT !.pc = "call", !.call = dmc.call + 1, !.op = op, !.told = "none"]
    BY <1>2 DEF Ask
  <2>2. dmc' \in DmcStates /\ dmc'.call = dmc.call + 1
    BY <1>0, <1>2, <2>0, <2>1 DEF DmcStates, Results
  <2>3. 1..dmc.call \subseteq 1..dmc'.call /\ dmc.call + 1 \in 1..dmc'.call
    BY <1>0, <2>2
  <2>4. /\ AskedSoFar \subseteq AskedSoFar' /\ PassedSoFar \subseteq PassedSoFar'
        /\ DoneSoFar \subseteq DoneSoFar'
    BY <2>3 DEF AskedSoFar, PassedSoFar, DoneSoFar
  <2>5. [call |-> dmc.call + 1, op |-> op, argument |-> argument, stage |-> "sent", live |-> TRUE]
           \in AskedSoFar'
    BY <1>2, <2>3 DEF AskedSoFar
  <2>6. asked' \subseteq AskedSoFar'
    BY <1>0, <1>2, <2>4, <2>5 DEF Ask
  <2> QED
    BY <1>0, <1>2, <2>2, <2>4, <2>6 DEF CallType, Ask, DlcStates
<1>3. CASE DlcStart \/ DlcTryAgain \/ DlcConnect \/ DlcServe
  <2>1. dlc' \in DlcStates
    <3>1. (dlc.count - 1) % WORD \in 0..(WORD - 1) /\ MAX_TRY \in 0..(WORD - 1)
          /\ 0 \in 0..(WORD - 1)
      BY <1>0
    <3> QED
      BY <1>0, <1>3, <3>1 DEF DlcStart, DlcTryAgain, DlcConnect, DlcServe, DlcStates
  <2> QED
    BY <1>0, <1>3, <2>1, SameCallType DEF DlcStart, DlcTryAgain, DlcConnect, DlcServe
<1>4. ASSUME NEW r \in asked, HandleRemoteRequest(r) PROVE CallType'
  <2>1. CASE EndDlc
    BY <2>1, EndDlcType
  <2>2. CASE ~EndDlc
    <3>1. r.op = "ToVehicle" /\ r.argument \in Messages /\ r.call \in 1..dmc.call
      BY <1>0, <1>4 DEF HandleRemoteRequest, AskedSoFar
    <3>2. Handling(r.argument) \in {"reported", "ignored", "packages"}
      BY <1>4, <2>2, <3>1, HandlingRange DEF HandleRemoteRequest
    <3>3. [call |-> r.call, how |-> Handling(r.argument)] \in DoneSoFar
      BY <3>1, <3>2 DEF DoneSoFar
    <3>4. dlc' \in DlcStates /\ workers' \subseteq Manifests
      BY <1>0, <1>4, <2>2 DEF HandleRemoteRequest, DlcStates
    <3>5. dmc' \in DmcStates /\ dmc'.call = dmc.call /\ asked' \subseteq AskedSoFar
      BY <1>4, <2>2, AnswerType DEF HandleRemoteRequest, Results
    <3> QED
      BY <1>0, <1>4, <2>2, <3>3, <3>4, <3>5, SameCallType DEF HandleRemoteRequest
  <2> QED
    BY <2>1, <2>2
<1>5. ASSUME NEW r \in asked, CallOrchestrator(r) PROVE CallType'
  <2>1. CASE EndDlc
    BY <2>1, EndDlcType
  <2>2. CASE ~EndDlc
    <3>1. /\ r.op \in {"CheckNewPackage", "StartUpgrade"} /\ r.call \in 1..dmc.call
          /\ [r EXCEPT !.stage = "passed"] \in AskedSoFar
      BY <1>0, <1>5 DEF CallOrchestrator, AskedSoFar
    <3>2. [call |-> r.call, op |-> r.op, argument |-> dlc.manifest, answer |-> "none",
           live |-> TRUE] \in PassedSoFar
      BY <1>0, <3>1 DEF PassedSoFar, DlcStates
    <3>3. asked' \subseteq AskedSoFar /\ passed' \subseteq PassedSoFar
      BY <1>0, <1>5, <2>2, <3>1, <3>2 DEF CallOrchestrator
    <3> QED
      BY <1>0, <1>5, <2>2, <3>3, SameCallType DEF CallOrchestrator
  <2> QED
    BY <2>1, <2>2
<1>6. ASSUME NEW r \in asked, NEW q \in passed, ReturnAnswer(r, q) PROVE CallType'
  <2>1. q.answer \in Results
    BY <1>0 DEF PassedSoFar, Results
  <2>2. dmc' \in DmcStates /\ dmc'.call = dmc.call /\ asked' \subseteq AskedSoFar
    BY <1>6, <2>1, AnswerType DEF ReturnAnswer
  <2> QED
    BY <1>0, <1>6, <2>2, SameCallType DEF ReturnAnswer
<1>7. ASSUME NEW r \in asked, HandlerThrows(r) PROVE CallType'
  <2>1. dmc' \in DmcStates /\ dmc'.call = dmc.call /\ asked' \subseteq AskedSoFar
    BY <1>7, AnswerType DEF HandlerThrows, Results
  <2> QED
    BY <1>0, <1>7, <2>1, SameCallType DEF HandlerThrows
<1>8. ASSUME NEW m \in workers, DownloadFails(m) \/ CallPackageReady(m) PROVE CallType'
  <2>1. CASE EndDlc
    BY <2>1, EndDlcType
  <2>2. CASE ~EndDlc
    BY <1>0, <1>8, <2>2, SameCallType DEF DownloadFails, CallPackageReady
  <2> QED
    BY <2>1, <2>2
<1>9. CASE DlcKilled
  BY <1>9, EndDlcType DEF DlcKilled
<1>10. CASE GatewayStart \/ GatewayStop
  BY <1>0, <1>10, SameCallType DEF GatewayStart, GatewayStop
<1>11. ASSUME NEW q \in passed, HandleAtGateway(q) PROVE CallType'
  <2>1. q.call \in 1..dmc.call /\ q \in PassedSoFar
    BY <1>0 DEF PassedSoFar
  <2>2. PICK answer \in {"true", "false"} :
          /\ passed' = (passed \ {q}) \cup {a \in {[q EXCEPT !.answer = answer]} : a.live}
          /\ done' = IF answer = "true" THEN done \cup {[call |-> q.call, how |-> "agreed"]}
                                        ELSE done
    BY <1>11 DEF HandleAtGateway
  <2>3. [q EXCEPT !.answer = answer] \in PassedSoFar
    BY <2>1 DEF PassedSoFar
  <2>4. [call |-> q.call, how |-> "agreed"] \in DoneSoFar
    BY <2>1 DEF DoneSoFar
  <2>5. passed' \subseteq PassedSoFar /\ done' \subseteq DoneSoFar
    BY <1>0, <2>2, <2>3, <2>4
  <2> QED
    BY <1>0, <1>11, <2>5, SameCallType DEF HandleAtGateway
<1>12. ASSUME NEW end \in {"dmc", "gateway"}, Disconnect(end) \/ Reconnect(end)
       PROVE  CallType'
  <2>1. asked' \subseteq AskedSoFar /\ passed' \subseteq PassedSoFar
    BY <1>0, <1>12, OrphansOfDmc, OrphansOfDlc DEF Disconnect, Reconnect
  <2> QED
    BY <1>0, <1>12, <2>1, SameCallType DEF Disconnect, Reconnect
<1> QED
  BY <1>1, <1>2, <1>3, <1>4, <1>5, <1>6, <1>7, <1>8, <1>9, <1>10, <1>11, <1>12
     DEF Services, Dmc, Dlc, Gateway

-----------------------------------------------------------------------------
\* A step after which no more requests are under way than before, and that answers
\* no call but with an error.
LEMMA FewerRequests ==
    ASSUME CallInv, CallType', dmc'.call = dmc.call, done \subseteq done',
           \/ dmc'.pc = dmc.pc /\ dmc'.told = dmc.told
           \/ dmc'.pc # "call" /\ dmc'.told \in {dmc.told, "error"},
           \A x \in asked' : \E y \in asked : x.call = y.call /\ x.stage = y.stage,
           \A x \in passed' : \E y \in passed : x.call = y.call /\ x.answer = y.answer,
           \A x1, x2 \in asked' : x1.call = x2.call => x1 = x2,
           \A x1, x2 \in passed' : x1.call = x2.call => x1 = x2
    PROVE  CallInv'
<1>1. OneRequestPerCall'
  <2>1. ASSUME NEW x \in asked', NEW z \in passed', x.call = z.call
        PROVE  x.stage = "passed"
    <3>1. PICK y \in asked : x.call = y.call /\ x.stage = y.stage
      OBVIOUS
    <3>2. PICK q \in passed : z.call = q.call
      OBVIOUS
    <3>3. y.call = q.call => y.stage = "passed"
      BY DEF CallInv, OneRequestPerCall
    <3> QED
      BY <2>1, <3>1, <3>2, <3>3
  <2> QED
    BY <2>1 DEF OneRequestPerCall
<1>2. ToldAtTheEnd'
  BY DEF CallInv, ToldAtTheEnd
<1>3. AgreedIsDone'
  <2>1. ASSUME NEW z \in passed', z.answer = "true"
        PROVE  \E d \in done' : d.call = z.call
    <3>1. PICK q \in passed : z.call = q.call /\ z.answer = q.answer
      OBVIOUS
    <3> QED
      BY <2>1, <3>1 DEF CallInv, AgreedIsDone
  <2> QED
    BY <2>1 DEF AgreedIsDone
<1>4. AnsweredIsOver' /\ TrueIsEarned'
  <2>1. dmc'.told = dmc.told \/ dmc'.told = "error"
    OBVIOUS
  <2>2. TrueIsEarned'
    BY <2>1 DEF CallInv, TrueIsEarned
  <2>3. ASSUME dmc'.told \in {"true", "false"}, NEW x \in asked' \cup passed'
        PROVE  x.call # dmc'.call
    <3>1. PICK y \in asked \cup passed : x.call = y.call
      OBVIOUS
    <3> QED
      BY <2>1, <2>3, <3>1 DEF CallInv, AnsweredIsOver
  <2> QED
    BY <2>2, <2>3 DEF AnsweredIsOver
<1> QED
  BY <1>1, <1>2, <1>3, <1>4 DEF CallInv

\* The end of a connection leaves no more requests under way than there were.
LEMMA OrphansAreFewer ==
    ASSUME CallInv, NEW A, A \in Orphaned(asked) \/ A = asked \/ A = {},
           NEW P, P \in Orphaned(passed) \/ P = passed \/ P = {}
    PROVE  /\ \A x \in A : \E y \in asked : x.call = y.call /\ x.stage = y.stage
           /\ \A x \in P : \E y \in passed : x.call = y.call /\ x.answer = y.answer
           /\ \A x1, x2 \in A : x1.call = x2.call => x1 = x2
           /\ \A x1, x2 \in P : x1.call = x2.call => x1 = x2
<1>0. /\ asked \subseteq AskedSoFar /\ passed \subseteq PassedSoFar
      /\ \A r1, r2 \in asked : r1.call = r2.call => r1 = r2
      /\ \A q1, q2 \in passed : q1.call = q2.call => q1 = q2
  BY DEF CallInv, CallType, OneRequestPerCall
<1>1. /\ \A x \in A : \E y \in asked : x.call = y.call /\ x.stage = y.stage
      /\ \A x1, x2 \in A : x1.call = x2.call => x1 = x2
  <2>1. CASE A \in Orphaned(asked)
    <3>1. \A x \in A : \E y \in asked : /\ x = [y EXCEPT !.live = FALSE]
                                        /\ x.call = y.call /\ x.stage = y.stage
      BY <1>0, <2>1, OrphansOfDmc
    <3>2. ASSUME NEW x1 \in A, NEW x2 \in A, x1.call = x2.call PROVE x1 = x2
      <4>1. PICK y1 \in asked : x1 = [y1 EXCEPT !.live = FALSE] /\ x1.call = y1.call
        BY <3>1
      <4>2. PICK y2 \in asked : x2 = [y2 EXCEPT !.live = FALSE] /\ x2.call = y2.call
        BY <3>1
      <4>3. y1 = y2
        BY <1>0, <3>2, <4>1, <4>2
      <4> QED
        BY <4>1, <4>2, <4>3
    <3>3. ASSUME NEW x \in A
          PROVE  \E y \in asked : x.call = y.call /\ x.stage = y.stage
      BY <3>1
    <3> QED
      BY <3>2, <3>3
  <2> QED
    BY <1>0, <2>1
<1>2. /\ \A x \in P : \E y \in passed : x.call = y.call /\ x.answer = y.answer
      /\ \A x1, x2 \in P : x1.call = x2.call => x1 = x2
  <2>1. CASE P \in Orphaned(passed)
    <3>1. \A x \in P : \E y \in passed : /\ x = [y EXCEPT !.live = FALSE]
                                         /\ x.call = y.call /\ x.answer = y.answer
      BY <1>0, <2>1, OrphansOfDlc
    <3>2. ASSUME NEW x1 \in P, NEW x2 \in P, x1.call = x2.call PROVE x1 = x2
      <4>1. PICK y1 \in passed : x1 = [y1 EXCEPT !.live = FALSE] /\ x1.call = y1.call
        BY <3>1
      <4>2. PICK y2 \in passed : x2 = [y2 EXCEPT !.live = FALSE] /\ x2.call = y2.call
        BY <3>1
      <4>3. y1 = y2
        BY <1>0, <3>2, <4>1, <4>2
      <4> QED
        BY <4>1, <4>2, <4>3
    <3>3. ASSUME NEW x \in P
          PROVE  \E y \in passed : x.call = y.call /\ x.answer = y.answer
      BY <3>1
    <3> QED
      BY <3>2, <3>3
  <2> QED
    BY <1>0, <2>1
<1> QED
  BY <1>1, <1>2

\* A call is made.
LEMMA AskKeeps ==
    ASSUME CallInv, CallType', NEW op, NEW argument, Ask(op, argument)
    PROVE  CallInv'
<1>1. /\ dmc'.call = dmc.call + 1 /\ dmc'.told = "none" /\ dmc.call \in Nat
      /\ passed' = passed /\ done' = done
      /\ \A x \in asked' \ asked : x.call = dmc.call + 1
      /\ \A x1, x2 \in asked' \ asked : x1 = x2
      /\ asked \subseteq AskedSoFar /\ passed \subseteq PassedSoFar
  <2>1. dmc.call \in 0..MAX_CALLS /\ dmc.call \in Nat
    BY BoundsAssumption DEF CallInv, CallType, DmcStates
  <2>2. dmc' = [dmc EXCEPT !.pc = "call", !.call = dmc.call + 1, !.op = op, !.told = "none"]
    BY DEF Ask
  <2>3. dmc'.call = dmc.call + 1 /\ dmc'.told = "none"
    BY <2>2 DEF CallInv, CallType, DmcStates
  <2>4. passed' = passed /\ done' = done
    BY DEF Ask
  <2> DEFINE request == [call |-> dmc.call + 1, op |-> op, argument |-> argument,
                         stage |-> "sent", live |-> TRUE]
  <2>5. asked' = asked \/ asked' = asked \cup {request}
    BY DEF Ask
  <2>6. request.call = dmc.call + 1
    OBVIOUS
  <2> HIDE DEF request
  <2>7. \A x \in asked' \ asked : x = request
    BY <2>5
  <2>8. /\ \A x \in asked' \ asked : x.call = dmc.call + 1
        /\ \A x1, x2 \in asked' \ asked : x1 = x2
    BY <2>6, <2>7
  <2> QED
    BY <2>1, <2>3, <2>4, <2>8 DEF CallInv, CallType
<1>2. /\ \A r \in asked : r.call \in 1..dmc.call
      /\ \A q \in passed : q.call \in 1..dmc.call
  BY <1>1 DEF AskedSoFar, PassedSoFar
<1>3. \A r \in asked \cup passed : r.call # dmc.call + 1
  BY <1>1, <1>2
<1>4. OneRequestPerCall'
  <2>1. ASSUME NEW x1 \in asked', NEW x2 \in asked', x1.call = x2.call PROVE x1 = x2
    BY <1>1, <1>3, <2>1 DEF CallInv, OneRequestPerCall
  <2>2. ASSUME NEW x \in asked', NEW q \in passed', x.call = q.call PROVE x.stage = "passed"
    BY <1>1, <1>3, <2>2 DEF CallInv, OneRequestPerCall
  <2> QED
    BY <1>1, <2>1, <2>2 DEF CallInv, OneRequestPerCall
<1> QED
  BY <1>1, <1>4 DEF CallInv, ToldAtTheEnd, AgreedIsDone, AnsweredIsOver, TrueIsEarned

\* What is told to the call of r when nothing of that call is left under way.
LEMMA AnswerKeeps ==
    ASSUME CallInv, CallType', NEW r \in asked, NEW result \in Results \ {"none"},
           Answer(r, result), passed' \subseteq passed, done \subseteq done',
           \A q \in passed' : q.call # r.call,
           result = "true" => \E d \in done' : d.call = r.call
    PROVE  CallInv'
<1>1. /\ dmc'.call = dmc.call /\ asked' = asked \ {r}
      /\ \/ dmc' = dmc
         \/ dmc'.pc = "idle" /\ dmc'.told = result /\ dmc.call = r.call
  BY AnswerType DEF CallInv, Answer
<1>2. CASE dmc' = dmc
  BY <1>1, <1>2, FewerRequests DEF CallInv, OneRequestPerCall
<1>3. CASE dmc'.pc = "idle" /\ dmc'.told = result /\ dmc.call = r.call
  <2>1. OneRequestPerCall'
    BY <1>1 DEF CallInv, OneRequestPerCall
  <2>2. AgreedIsDone'
    BY DEF CallInv, AgreedIsDone
  <2>3. AnsweredIsOver'
    <3>1. ASSUME NEW x \in asked' PROVE x.call # r.call
      BY <1>1 DEF CallInv, OneRequestPerCall
    <3> QED
      BY <1>1, <1>3, <3>1 DEF AnsweredIsOver
  <2> QED
    BY <1>1, <1>3, <2>1, <2>2, <2>3 DEF CallInv, ToldAtTheEnd, TrueIsEarned
<1> QED
  BY <1>1, <1>2, <1>3

\* The services keep the invariant of the calls.
LEMMA CallInvNext ==
    ASSUME CallInv, Services
    PROVE  CallInv'
<1>0. CallType' /\ CallType
  BY CallTypeNext DEF CallInv
<1>1. ASSUME dmc' = dmc, done' = done,
             asked' \in Orphaned(asked) \/ asked' = asked \/ asked' = {},
             passed' \in Orphaned(passed) \/ passed' = passed \/ passed' = {}
      PROVE  CallInv'
  BY <1>0, <1>1, OrphansAreFewer, FewerRequests
<1>2. EndDlc => CallInv'
  BY <1>1 DEF EndDlc
<1>3. CASE DmcConnect \/ DmcTryAgain \/ DmcGiveUp \/ CallThrows
  <2>1. /\ dmc'.call = dmc.call
        /\ \/ dmc'.pc = dmc.pc /\ dmc'.told = dmc.told
           \/ dmc'.pc # "call" /\ dmc'.told \in {dmc.told, "error"}
    <3>1. CASE DmcConnect
      BY <1>0, <3>1 DEF DmcConnect, CallType, DmcStates
    <3>2. CASE DmcTryAgain
      BY <1>0, <3>2 DEF DmcTryAgain, CallType, DmcStates
    <3>3. CASE DmcGiveUp
      BY <1>0, <3>3 DEF DmcGiveUp, CallType, DmcStates
    <3>4. CASE CallThrows
      BY <1>0, <3>4 DEF CallThrows, CallType, DmcStates
    <3> QED
      BY <1>3, <3>1, <3>2, <3>3, <3>4
  <2>2. asked' = asked /\ passed' = passed /\ done' = done
    BY <1>3 DEF DmcConnect, DmcTryAgain, DmcGiveUp, CallThrows
  <2> QED
    BY <1>0, <2>1, <2>2, FewerRequests DEF CallInv, OneRequestPerCall
<1>4. ASSUME NEW op, NEW argument, Ask(op, argument) PROVE CallInv'
  BY <1>0, <1>4, AskKeeps
<1>5. CASE DlcStart \/ DlcTryAgain \/ DlcConnect \/ DlcServe
  BY <1>1, <1>5 DEF DlcStart, DlcTryAgain, DlcConnect, DlcServe
<1>6. ASSUME NEW r \in asked, HandleRemoteRequest(r) PROVE CallInv'
  <2>1. CASE ~EndDlc
    <3>1. /\ passed' = passed /\ Answer(r, "true") /\ r.op = "ToVehicle"
          /\ done' = done \cup {[call |-> r.call, how |-> Handling(r.argument)]}
      BY <1>6, <2>1 DEF HandleRemoteRequest
    <3>2. r.stage # "passed"
      BY <1>0, <3>1 DEF CallType, AskedSoFar
    <3>3. \A q \in passed' : q.call # r.call
      BY <3>1, <3>2 DEF CallInv, OneRequestPerCall
    <3>4. \E d \in done' : d.call = r.call
      <4> DEFINE deed == [call |-> r.call, how |-> Handling(r.argument)]
      <4>1. deed \in done'
        BY <3>1
      <4>2. deed.call = r.call
        OBVIOUS
      <4> HIDE DEF deed
      <4> QED
        BY <4>1, <4>2
    <3>5. "true" \in Results \ {"none"}
      BY DEF Results
    <3> QED
      BY <1>0, <3>1, <3>3, <3>4, <3>5, AnswerKeeps
  <2> QED
    BY <1>2, <2>1
<1>7. ASSUME NEW r \in asked, CallOrchestrator(r) PROVE CallInv'
  <2>1. CASE ~EndDlc
    <3> DEFINE onward == [r EXCEPT !.stage = "passed"]
               request == [call |-> r.call, op |-> r.op, argument |-> dlc.manifest,
                           answer |-> "none", live |-> TRUE]
    <3>1. /\ asked' = (asked \ {r}) \cup {onward} /\ r.stage = "sent"
          /\ passed' = passed \/ passed' = passed \cup {request}
          /\ dmc' = dmc /\ done' = done
      BY <1>7, <2>1 DEF CallOrchestrator
    <3>2. onward.call = r.call /\ onward.stage = "passed"
      BY <1>0 DEF CallType, AskedSoFar
    <3>3. request.call = r.call /\ request.answer = "none"
      OBVIOUS
    <3> HIDE DEF onward, request
    <3>4. \A q \in passed : q.call # r.call
      BY <3>1 DEF CallInv, OneRequestPerCall
    <3>5. r.call # dmc.call \/ dmc.told \notin {"true", "false"}
      BY DEF CallInv, AnsweredIsOver
    <3>6. OneRequestPerCall'
      <4>1. \A x1, x2 \in asked' : x1.call = x2.call => x1 = x2
        BY <3>1, <3>2 DEF CallInv, OneRequestPerCall
      <4>2. \A x1, x2 \in passed' : x1.call = x2.call => x1 = x2
        BY <3>1, <3>3, <3>4 DEF CallInv, OneRequestPerCall
      <4>3. ASSUME NEW x \in asked', NEW q \in passed', x.call = q.call
            PROVE  x.stage = "passed"
        <5>1. CASE x = onward
          BY <3>2, <5>1
        <5>2. CASE x \in asked \ {r}
          <6>1. x.call # r.call
            BY <5>2 DEF CallInv, OneRequestPerCall
          <6>2. q \in passed
            BY <3>1, <3>3, <4>3, <6>1
          <6> QED
            BY <4>3, <5>2, <6>2 DEF CallInv, OneRequestPerCall
        <5> QED
          BY <3>1, <5>1, <5>2
      <4> QED
        BY <4>1, <4>2, <4>3 DEF OneRequestPerCall
    <3>7. AgreedIsDone'
      BY <3>1, <3>3 DEF CallInv, AgreedIsDone
    <3>8. AnsweredIsOver'
      BY <3>1, <3>2, <3>3, <3>5 DEF CallInv, AnsweredIsOver
    <3> QED
      BY <1>0, <3>1, <3>6, <3>7, <3>8 DEF CallInv, ToldAtTheEnd, TrueIsEarned
  <2> QED
    BY <1>2, <2>1
<1>8. ASSUME NEW r \in asked, NEW q \in passed, ReturnAnswer(r, q) PROVE CallInv'
  <2>1. /\ q.call = r.call /\ q.answer # "none" /\ Answer(r, q.answer)
        /\ passed' = passed \ {q} /\ done' = done
    BY <1>8 DEF ReturnAnswer
  <2>2. q.answer \in Results \ {"none"}
    BY <1>0, <2>1 DEF CallType, PassedSoFar, Results
  <2>3. \A p \in passed' : p.call # r.call
    BY <2>1 DEF CallInv, OneRequestPerCall
  <2>4. q.answer = "true" => \E d \in done' : d.call = r.call
    BY <2>1 DEF CallInv, AgreedIsDone
  <2> QED
    BY <1>0, <2>1, <2>2, <2>3, <2>4, AnswerKeeps
<1>9. ASSUME NEW r \in asked, HandlerThrows(r) PROVE CallInv'
  <2>1. Answer(r, "error") /\ passed' = passed /\ done' = done /\ asked' = asked \ {r}
    BY <1>9 DEF HandlerThrows, Answer
  <2>2. /\ dmc'.call = dmc.call
        /\ dmc' = dmc \/ (dmc'.pc = "idle" /\ dmc'.told = "error")
    <3>1. "error" \in Results
      BY DEF Results
    <3> QED
      BY <1>0, <2>1, <3>1, AnswerType
  <2> QED
    BY <1>0, <2>1, <2>2, FewerRequests DEF CallInv, OneRequestPerCall
<1>10. ASSUME NEW m \in workers, DownloadFails(m) \/ CallPackageReady(m) PROVE CallInv'
  BY <1>1, <1>2, <1>10 DEF DownloadFails, CallPackageReady
<1>11. CASE DlcKilled
  BY <1>2, <1>11 DEF DlcKilled
<1>12. CASE GatewayStart \/ GatewayStop
  BY <1>1, <1>12 DEF GatewayStart, GatewayStop
<1>13. ASSUME NEW q \in passed, HandleAtGateway(q) PROVE CallInv'
  <2>1. PICK answer \in {"true", "false"} :
          /\ passed' = (passed \ {q}) \cup {a \in {[q EXCEPT !.answer = answer]} : a.live}
          /\ done' = IF answer = "true" THEN done \cup {[call |-> q.call, how |-> "agreed"]}
                                        ELSE done
    BY <1>13 DEF HandleAtGateway
  <2> DEFINE answered == [q EXCEPT !.answer = answer]
             agreed == [call |-> q.call, how |-> "agreed"]
  <2>2. answered.call = q.call /\ answered.answer = answer /\ agreed.call = q.call
    BY <1>0 DEF CallType, PassedSoFar
  <2>3. /\ \A x \in passed' : x = answered \/ x \in passed \ {q}
        /\ answer = "true" => agreed \in done'
        /\ done \subseteq done' /\ dmc' = dmc /\ asked' = asked
    BY <1>13, <2>1 DEF HandleAtGateway
  <2> HIDE DEF answered, agreed
  <2>4. \A x \in passed' : x.call = q.call => x = answered
    BY <2>3 DEF CallInv, OneRequestPerCall
  <2>5. \A x \in passed' : \E y \in passed : x.call = y.call
    BY <2>2, <2>3
  <2>6. OneRequestPerCall'
    <3>1. ASSUME NEW x1 \in passed', NEW x2 \in passed', x1.call = x2.call
          PROVE  x1 = x2
      BY <2>2, <2>3, <2>4, <3>1 DEF CallInv, OneRequestPerCall
    <3>2. ASSUME NEW x \in asked', NEW z \in passed', x.call = z.call
          PROVE  x.stage = "passed"
      BY <2>3, <2>5, <3>2 DEF CallInv, OneRequestPerCall
    <3> QED
      BY <2>3, <3>1, <3>2 DEF CallInv, OneRequestPerCall
  <2>7. AgreedIsDone'
    <3>1. ASSUME NEW x \in passed', x.answer = "true" PROVE \E d \in done' : d.call = x.call
      BY <2>2, <2>3, <3>1 DEF CallInv, AgreedIsDone
    <3> QED
      BY <3>1 DEF AgreedIsDone
  <2>8. AnsweredIsOver'
    BY <2>3, <2>5 DEF CallInv, AnsweredIsOver
  <2> QED
    BY <1>0, <2>3, <2>6, <2>7, <2>8 DEF CallInv, ToldAtTheEnd, TrueIsEarned
<1>14. ASSUME NEW end \in {"dmc", "gateway"}, Disconnect(end) \/ Reconnect(end)
       PROVE  CallInv'
  BY <1>1, <1>14 DEF Disconnect, Reconnect
<1> QED
  BY <1>3, <1>4, <1>5, <1>6, <1>7, <1>8, <1>9, <1>10, <1>11, <1>12, <1>13, <1>14
     DEF Services, Dmc, Dlc, Gateway

-----------------------------------------------------------------------------
Rises(items) == \A i, j \in 1..Len(items) : i < j => items[i] < items[j]

\* What is under way to the DLC is newer than what is under way to the DMC, and that
\* is newer than what the HMI and the cloud have seen.
NewsInv ==
    /\ NewsType
    /\ Rises(news.toDlc) /\ Rises(news.toDmc)
    /\ \A i \in 1..Len(news.toDlc) : news.toDlc[i] <= news.made
    /\ \A i \in 1..Len(news.toDlc), j \in 1..Len(news.toDmc) : news.toDmc[j] < news.toDlc[i]
    /\ \A j \in 1..Len(news.toDmc) : news.toDmc[j] <= news.made
    /\ \A sink \in {"HMI", "cloud"} :
          /\ seen[sink] <= news.made
          /\ \A i \in 1..Len(news.toDlc) : seen[sink] < news.toDlc[i]
          /\ \A j \in 1..Len(news.toDmc) : seen[sink] < news.toDmc[j]

\* The three fields of the news, each on its own.
NewsParts(made, toDlc, toDmc) ==
    /\ made \in 0..Len(News)
    /\ toDlc \in Seq(1..Len(News)) /\ toDmc \in Seq(1..Len(News))
    /\ Rises(toDlc) /\ Rises(toDmc)
    /\ \A i \in 1..Len(toDlc) : toDlc[i] <= made
    /\ \A i \in 1..Len(toDlc), j \in 1..Len(toDmc) : toDmc[j] < toDlc[i]
    /\ \A j \in 1..Len(toDmc) : toDmc[j] <= made

SeenParts(last, made, toDlc, toDmc) ==
    /\ last \in 0..Len(News) /\ last <= made
    /\ \A i \in 1..Len(toDlc) : last < toDlc[i]
    /\ \A j \in 1..Len(toDmc) : last < toDmc[j]

LEMMA NewsInvParts ==
    ASSUME NEW made, NEW toDlc, NEW toDmc, news = [made |-> made, toDlc |-> toDlc, toDmc |-> toDmc],
           NEW hmi, NEW cloud, seen = [HMI |-> hmi, cloud |-> cloud]
    PROVE  NewsInv <=> /\ NewsParts(made, toDlc, toDmc)
                       /\ SeenParts(hmi, made, toDlc, toDmc) /\ SeenParts(cloud, made, toDlc, toDmc)
<1>1. /\ news.made = made /\ news.toDlc = toDlc /\ news.toDmc = toDmc
      /\ seen["HMI"] = hmi /\ seen["cloud"] = cloud
  OBVIOUS
<1>2. NewsType <=> /\ made \in 0..Len(News) /\ hmi \in 0..Len(News) /\ cloud \in 0..Len(News)
                   /\ toDlc \in Seq(1..Len(News)) /\ toDmc \in Seq(1..Len(News))
  BY DEF NewsType
<1>3. (\A sink \in {"HMI", "cloud"} :
          /\ seen[sink] <= news.made
          /\ \A i \in 1..Len(news.toDlc) : seen[sink] < news.toDlc[i]
          /\ \A j \in 1..Len(news.toDmc) : seen[sink] < news.toDmc[j])
      <=> \A last \in {hmi, cloud} :
             /\ last <= made
             /\ \A i \in 1..Len(toDlc) : last < toDlc[i]
             /\ \A j \in 1..Len(toDmc) : last < toDmc[j]
  BY <1>1
<1> QED
  BY <1>1, <1>2, <1>3 DEF NewsInv, NewsParts, SeenParts

\* What comes last and is greater than the rest rises with it.
LEMMA AppendRises ==
    ASSUME NEW items \in Seq(1..Len(News)), NEW last \in 1..Len(News), Rises(items),
           \A i \in 1..Len(items) : items[i] < last
    PROVE  Rises(Append(items, last))
<1> DEFINE more == Append(items, last)
<1>1. /\ Len(items) \in Nat /\ Len(more) = Len(items) + 1
      /\ \A i \in 1..Len(items) : more[i] = items[i]
      /\ more[Len(items) + 1] = last
  OBVIOUS
<1> HIDE DEF more
<1>2. ASSUME NEW i \in 1..Len(more), NEW j \in 1..Len(more), i < j
      PROVE  more[i] < more[j]
  <2>1. i \in 1..Len(items) /\ (j \in 1..Len(items) \/ j = Len(items) + 1)
    BY <1>1, <1>2
  <2>2. CASE j \in 1..Len(items)
    BY <1>1, <1>2, <2>1, <2>2 DEF Rises
  <2>3. CASE j = Len(items) + 1
    BY <1>1, <2>1, <2>3
  <2> QED
    BY <2>1, <2>2, <2>3
<1> QED
  BY <1>2 DEF Rises, more

\* A lost connection takes what was under way on it.
LEMMA NewsLost ==
    ASSUME NEW made, NEW a, NEW b, NEW a1 \in {a, <<>>}, NEW b1 \in {b, <<>>},
           NEW hmi, NEW cloud,
           NewsParts(made, a, b), SeenParts(hmi, made, a, b), SeenParts(cloud, made, a, b)
    PROVE  /\ NewsParts(made, a1, b1)
           /\ SeenParts(hmi, made, a1, b1) /\ SeenParts(cloud, made, a1, b1)
<1>1. /\ <<>> \in Seq(1..Len(News)) /\ Len(<<>>) = 0 /\ 1..0 = {}
  OBVIOUS
<1>2. NewsParts(made, a1, b1)
  BY <1>1 DEF NewsParts, Rises
<1> QED
  BY <1>1, <1>2 DEF SeenParts

\* A publication is newer than all before it.
LEMMA NewsMade ==
    ASSUME NEW made, NEW a, NEW b, NEW a1 \in {a, Append(a, made + 1)}, NEW hmi, NEW cloud,
           made < Len(News),
           NewsParts(made, a, b), SeenParts(hmi, made, a, b), SeenParts(cloud, made, a, b)
    PROVE  /\ NewsParts(made + 1, a1, b)
           /\ SeenParts(hmi, made + 1, a1, b) /\ SeenParts(cloud, made + 1, a1, b)
<1>0. /\ Len(News) \in Nat /\ made \in Nat /\ made + 1 \in 0..Len(News)
      /\ a \in Seq(1..Len(News)) /\ b \in Seq(1..Len(News)) /\ made + 1 \in 1..Len(News)
      /\ Len(a) \in Nat /\ Len(b) \in Nat
      /\ \A i \in 1..Len(a) : a[i] \in Nat /\ a[i] <= made
      /\ \A i \in 1..Len(b) : b[i] \in Nat /\ b[i] <= made
      /\ hmi \in Nat /\ cloud \in Nat /\ hmi <= made /\ cloud <= made
  BY NewsAssumption DEF NewsParts, SeenParts
<1>1. CASE a1 = a
  BY <1>0, <1>1 DEF NewsParts, SeenParts
<1>2. CASE a1 = Append(a, made + 1)
  <2>1. /\ a1 \in Seq(1..Len(News)) /\ Len(a1) = Len(a) + 1
        /\ \A i \in 1..Len(a) : a1[i] = a[i]
        /\ a1[Len(a) + 1] = made + 1
    BY <1>0, <1>2
  <2>2. \A i \in 1..Len(a1) : i \in 1..Len(a) \/ i = Len(a) + 1
    BY <1>0, <2>1
  <2>3. Rises(a1)
    <3>1. \A i \in 1..Len(a) : a[i] < made + 1
      BY <1>0
    <3> QED
      BY <1>0, <1>2, <3>1, AppendRises DEF NewsParts
  <2>4. ASSUME NEW i \in 1..Len(a1)
        PROVE  /\ a1[i] <= made + 1
               /\ \A j \in 1..Len(b) : b[j] < a1[i]
               /\ hmi < a1[i] /\ cloud < a1[i]
    <3>1. CASE i \in 1..Len(a)
      <4>1. a1[i] = a[i] /\ a[i] <= made + 1
        BY <1>0, <2>1, <3>1
      <4>2. hmi < a[i] /\ cloud < a[i] /\ \A j \in 1..Len(b) : b[j] < a[i]
        BY <3>1 DEF NewsParts, SeenParts
      <4> QED
        BY <4>1, <4>2
    <3>2. CASE i = Len(a) + 1
      BY <1>0, <2>1, <3>2
    <3> QED
      BY <2>2, <3>1, <3>2
  <2>5. \A j \in 1..Len(b) : b[j] <= made + 1
    BY <1>0
  <2>6. NewsParts(made + 1, a1, b)
    BY <1>0, <2>1, <2>3, <2>4, <2>5 DEF NewsParts
  <2>7. SeenParts(hmi, made + 1, a1, b) /\ SeenParts(cloud, made + 1, a1, b)
    BY <1>0, <2>4 DEF SeenParts
  <2> QED
    BY <2>6, <2>7
<1> QED
  BY <1>1, <1>2

\* The oldest publication under way to the DLC leaves, and may go on to the DMC.
LEMMA NewsForwarded ==
    ASSUME NEW made, NEW a, NEW b, NEW b1 \in {b, Append(b, Head(a))}, NEW hmi, NEW cloud,
           a # <<>>,
           NewsParts(made, a, b), SeenParts(hmi, made, a, b), SeenParts(cloud, made, a, b)
    PROVE  /\ NewsParts(made, Tail(a), b1)
           /\ SeenParts(hmi, made, Tail(a), b1) /\ SeenParts(cloud, made, Tail(a), b1)
<1>0. /\ Len(News) \in Nat /\ made \in Nat
      /\ a \in Seq(1..Len(News)) /\ b \in Seq(1..Len(News))
      /\ Len(a) \in Nat /\ Len(b) \in Nat
      /\ \A i \in 1..Len(a) : a[i] \in Nat /\ a[i] <= made
      /\ \A i \in 1..Len(b) : b[i] \in Nat /\ b[i] <= made
      /\ hmi \in Nat /\ cloud \in Nat /\ hmi <= made /\ cloud <= made
  BY NewsAssumption DEF NewsParts, SeenParts
<1>1. Len(a) >= 1 /\ 1 \in 1..Len(a) /\ Head(a) = a[1] /\ a[1] \in 1..Len(News)
  BY <1>0
<1>2. /\ Tail(a) \in Seq(1..Len(News)) /\ Len(Tail(a)) = Len(a) - 1
      /\ \A i \in 1..Len(Tail(a)) : Tail(a)[i] = a[i + 1] /\ i + 1 \in 1..Len(a)
  BY <1>0, <1>1
<1> DEFINE rest == Tail(a)
<1> HIDE DEF rest
<1>3. /\ rest \in Seq(1..Len(News)) /\ Rises(rest)
      /\ \A i \in 1..Len(rest) : a[1] < rest[i] /\ rest[i] <= made /\ rest[i] \in Nat
      /\ \A i \in 1..Len(rest) : hmi < rest[i] /\ cloud < rest[i]
      /\ \A i \in 1..Len(rest), j \in 1..Len(b) : b[j] < rest[i]
  <2>1. rest \in Seq(1..Len(News)) /\ Len(rest) = Len(a) - 1
    BY <1>2 DEF rest
  <2>2. \A i \in 1..Len(rest) : rest[i] = a[i + 1] /\ i + 1 \in 1..Len(a)
    BY <1>2 DEF rest
  <2>3. Rises(rest)
    <3>1. ASSUME NEW i \in 1..Len(rest), NEW j \in 1..Len(rest), i < j
          PROVE  rest[i] < rest[j]
      <4>1. i + 1 < j + 1
        BY <2>1, <3>1
      <4> QED
        BY <2>2, <4>1 DEF NewsParts, Rises
    <3> QED
      BY <3>1 DEF Rises
  <2>4. ASSUME NEW i \in 1..Len(rest) PROVE 1 < i + 1 /\ i + 1 \in 1..Len(a)
    BY <2>2
  <2>5. \A i \in 1..Len(rest) : a[1] < rest[i] /\ rest[i] <= made /\ rest[i] \in Nat
    BY <1>0, <1>1, <2>2, <2>4 DEF NewsParts, Rises
  <2> QED
    BY <2>1, <2>2, <2>3, <2>5 DEF NewsParts, SeenParts
<1>4. CASE b1 = b
  BY <1>0, <1>3, <1>4 DEF NewsParts, SeenParts, rest
<1>5. CASE b1 = Append(b, Head(a))
  <2>1. /\ b1 \in Seq(1..Len(News)) /\ Len(b1) = Len(b) + 1
        /\ \A i \in 1..Len(b) : b1[i] = b[i]
        /\ b1[Len(b) + 1] = a[1]
    BY <1>0, <1>1, <1>5
  <2>2. \A i \in 1..Len(b1) : i \in 1..Len(b) \/ i = Len(b) + 1
    BY <1>0, <2>1
  <2>3. /\ \A j \in 1..Len(b) : b[j] < a[1]
        /\ hmi < a[1] /\ cloud < a[1] /\ a[1] <= made
    BY <1>0, <1>1 DEF NewsParts, SeenParts
  <2>4. Rises(b1)
    BY <1>0, <1>1, <1>5, <2>3, AppendRises DEF NewsParts
  <2>5. /\ \A j \in 1..Len(b1) : b1[j] <= made /\ hmi < b1[j] /\ cloud < b1[j]
        /\ \A i \in 1..Len(rest), j \in 1..Len(b1) : b1[j] < rest[i]
    <3>1. ASSUME NEW j \in 1..Len(b1) PROVE b1[j] <= made /\ hmi < b1[j] /\ cloud < b1[j]
      BY <1>0, <2>1, <2>2, <2>3 DEF SeenParts
    <3>2. ASSUME NEW i \in 1..Len(rest), NEW j \in 1..Len(b1) PROVE b1[j] < rest[i]
      BY <1>3, <2>1, <2>2
    <3> QED
      BY <3>1, <3>2
  <2>6. NewsParts(made, rest, b1)
    BY <1>0, <1>3, <2>1, <2>4, <2>5 DEF NewsParts
  <2>7. SeenParts(hmi, made, rest, b1) /\ SeenParts(cloud, made, rest, b1)
    BY <1>0, <1>3, <2>5 DEF SeenParts
  <2> QED
    BY <2>6, <2>7 DEF rest
<1> QED
  BY <1>4, <1>5

\* The oldest publication under way to the DMC is newer than what was seen, and older
\* than what is to come.
LEMMA NewsNoticed ==
    ASSUME NEW made, NEW a, NEW b, NEW hmi, b # <<>>,
           NewsParts(made, a, b), SeenParts(hmi, made, a, b)
    PROVE  /\ NewsParts(made, a, Tail(b))
           /\ SeenParts(hmi, made, a, Tail(b)) /\ SeenParts(Head(b), made, a, Tail(b))
           /\ Head(b) > hmi
<1>0. /\ Len(News) \in Nat /\ made \in Nat
      /\ a \in Seq(1..Len(News)) /\ b \in Seq(1..Len(News))
      /\ Len(a) \in Nat /\ Len(b) \in Nat
      /\ \A i \in 1..Len(b) : b[i] \in 1..Len(News) /\ b[i] <= made
      /\ hmi \in Nat /\ hmi <= made
  BY NewsAssumption DEF NewsParts, SeenParts
<1>1. Len(b) >= 1 /\ 1 \in 1..Len(b) /\ Head(b) = b[1] /\ b[1] \in 1..Len(News)
  BY <1>0
<1>2. /\ Tail(b) \in Seq(1..Len(News)) /\ Len(Tail(b)) = Len(b) - 1
      /\ \A i \in 1..Len(Tail(b)) : Tail(b)[i] = b[i + 1] /\ i + 1 \in 1..Len(b)
  BY <1>0, <1>1
<1> DEFINE rest == Tail(b)
<1>3. rest \in Seq(1..Len(News)) /\ Len(rest) = Len(b) - 1
  BY <1>2
<1>4. \A i \in 1..Len(rest) : rest[i] = b[i + 1] /\ i + 1 \in 1..Len(b)
  BY <1>2
<1> HIDE DEF rest
<1>5. Rises(rest)
  <2>1. ASSUME NEW i \in 1..Len(rest), NEW j \in 1..Len(rest), i < j
        PROVE  rest[i] < rest[j]
    <3>1. i + 1 < j + 1
      BY <1>3, <2>1
    <3> QED
      BY <1>4, <3>1 DEF NewsParts, Rises
  <2> QED
    BY <2>1 DEF Rises
<1>6. \A i \in 1..Len(rest) : 1 < i + 1
  BY <1>3
<1>7. \A i \in 1..Len(rest) : b[1] < rest[i]
  BY <1>1, <1>4, <1>6 DEF NewsParts, Rises
<1>8. NewsParts(made, a, rest)
  BY <1>3, <1>4, <1>5 DEF NewsParts
<1>9. SeenParts(hmi, made, a, rest) /\ SeenParts(b[1], made, a, rest) /\ b[1] > hmi
  <2>1. b[1] > hmi /\ b[1] \in 0..Len(News) /\ b[1] <= made
    BY <1>0, <1>1 DEF SeenParts
  <2>2. \A i \in 1..Len(rest) : hmi < rest[i]
    BY <1>4 DEF SeenParts
  <2>3. SeenParts(hmi, made, a, rest)
    BY <2>2 DEF SeenParts
  <2>4. SeenParts(b[1], made, a, rest)
    BY <1>1, <1>7, <2>1 DEF NewsParts, SeenParts
  <2> QED
    BY <2>1, <2>3, <2>4
<1> QED
  BY <1>1, <1>8, <1>9 DEF rest

\* Every step keeps the order of the news, and shows the HMI and the cloud only what
\* is newer than what they have seen.
LEMMA NewsInvNext ==
    ASSUME NewsInv, [Next]_vars
    PROVE  /\ NewsInv'
           /\ \A sink \in {"HMI", "cloud"} :
                 seen'[sink] # seen[sink] => seen'[sink] > seen[sink]
<1> DEFINE made == news.made
           a == news.toDlc
           b == news.toDmc
           hmi == seen["HMI"]
           cloud == seen["cloud"]
<1>1. /\ news = [made |-> made, toDlc |-> a, toDmc |-> b]
      /\ seen = [HMI |-> hmi, cloud |-> cloud]
  BY DEF NewsInv, NewsType
<1>2. NewsParts(made, a, b) /\ SeenParts(hmi, made, a, b) /\ SeenParts(cloud, made, a, b)
  BY <1>1, NewsInvParts
<1>3. ASSUME NEW made1, NEW a1, NEW b1, NEW hmi1, NEW cloud1,
             news' = [made |-> made1, toDlc |-> a1, toDmc |-> b1],
             seen' = [HMI |-> hmi1, cloud |-> cloud1],
             NewsParts(made1, a1, b1),
             SeenParts(hmi1, made1, a1, b1), SeenParts(cloud1, made1, a1, b1)
      PROVE  NewsInv'
  <2>1. /\ news'.made = made1 /\ news'.toDlc = a1 /\ news'.toDmc = b1
        /\ seen'["HMI"] = hmi1 /\ seen'["cloud"] = cloud1
    BY <1>3
  <2>2. NewsType'
    <3>1. /\ made1 \in 0..Len(News)
          /\ a1 \in Seq(1..Len(News)) /\ b1 \in Seq(1..Len(News))
          /\ hmi1 \in 0..Len(News) /\ cloud1 \in 0..Len(News)
      BY <1>3 DEF NewsParts, SeenParts
    <3> QED
      BY <1>3, <3>1 DEF NewsType
  <2>3. ASSUME NEW sink \in {"HMI", "cloud"}
        PROVE  /\ seen'[sink] <= made1
               /\ \A i \in 1..Len(a1) : seen'[sink] < a1[i]
               /\ \A j \in 1..Len(b1) : seen'[sink] < b1[j]
    BY <1>3, <2>1 DEF SeenParts
  <2> QED
    BY <1>3, <2>1, <2>2, <2>3 DEF NewsInv, NewsParts, Rises
<1>4. CASE Services /\ news' = NewsOn(linked') /\ UNCHANGED seen
  <2>1. PICK a1 \in {a, <<>>}, b1 \in {b, <<>>} :
          news' = [made |-> made, toDlc |-> a1, toDmc |-> b1]
    <3> DEFINE a1 == IF "gateway" \in linked' THEN a ELSE <<>>
               b1 == IF "dmc" \in linked' THEN b ELSE <<>>
    <3>1. news' = [made |-> made, toDlc |-> a1, toDmc |-> b1]
      BY <1>1, <1>4 DEF NewsOn
    <3>2. a1 \in {a, <<>>} /\ b1 \in {b, <<>>}
      OBVIOUS
    <3> QED
      BY <3>1, <3>2
  <2>2. /\ NewsParts(made, a1, b1)
        /\ SeenParts(hmi, made, a1, b1) /\ SeenParts(cloud, made, a1, b1)
    BY <1>2, NewsLost
  <2>3. seen' = [HMI |-> hmi, cloud |-> cloud] /\ seen' = seen
    BY <1>1, <1>4
  <2>4. NewsInv'
    BY <1>3, <2>1, <2>2, <2>3
  <2> QED
    BY <2>3, <2>4
<1>5. CASE Publish
  <2>1. made < Len(News) /\ seen' = seen
    BY <1>5 DEF Publish
  <2>2. PICK a1 \in {a, Append(a, made + 1)} :
          news' = [made |-> made + 1, toDlc |-> a1, toDmc |-> b]
    <3> DEFINE a1 == IF "gateway" \in linked THEN Append(a, made + 1) ELSE a
    <3>1. news' = [made |-> made + 1, toDlc |-> a1, toDmc |-> b]
      BY <1>1, <1>5 DEF Publish
    <3>2. a1 \in {a, Append(a, made + 1)}
      OBVIOUS
    <3> QED
      BY <3>1, <3>2
  <2>3. /\ NewsParts(made + 1, a1, b)
        /\ SeenParts(hmi, made + 1, a1, b) /\ SeenParts(cloud, made + 1, a1, b)
    BY <1>2, <2>1, NewsMade
  <2>4. NewsInv'
    BY <1>1, <1>3, <2>1, <2>2, <2>3
  <2> QED
    BY <2>1, <2>4
<1>6. CASE Forward
  <2>1. a # <<>> /\ seen' = seen
    BY <1>6 DEF Forward
  <2>2. PICK b1 \in {b, Append(b, Head(a))} :
          news' = [made |-> made, toDlc |-> Tail(a), toDmc |-> b1]
    <3> DEFINE goes == News[Head(a)] # "DownloadFinished" /\ dlc.pc = "serving"
                          /\ "dmc" \in linked /\ dmc.pc # "failed"
               b1 == IF goes THEN Append(b, Head(a)) ELSE b
    <3>1. news' = [made |-> made, toDlc |-> Tail(a), toDmc |-> b1]
      BY <1>1, <1>6 DEF Forward
    <3>2. b1 \in {b, Append(b, Head(a))}
      OBVIOUS
    <3> QED
      BY <3>1, <3>2
  <2>3. /\ NewsParts(made, Tail(a), b1)
        /\ SeenParts(hmi, made, Tail(a), b1) /\ SeenParts(cloud, made, Tail(a), b1)
    BY <1>2, <2>1, NewsForwarded
  <2>4. NewsInv'
    BY <1>1, <1>3, <2>1, <2>2, <2>3
  <2> QED
    BY <2>1, <2>4
<1>7. CASE Notify
  <2>1. b # <<>> /\ news' = [made |-> made, toDlc |-> a, toDmc |-> Tail(b)]
    BY <1>1, <1>7 DEF Notify
  <2>2. /\ NewsParts(made, a, Tail(b))
        /\ SeenParts(hmi, made, a, Tail(b)) /\ SeenParts(cloud, made, a, Tail(b))
        /\ SeenParts(Head(b), made, a, Tail(b)) /\ Head(b) > hmi /\ Head(b) > cloud
    BY <1>2, <2>1, NewsNoticed
  <2>3. PICK sink \in {"HMI", "cloud"} : seen' = [seen EXCEPT ![sink] = Head(b)]
    BY <1>7 DEF Notify
  <2>4. CASE sink = "HMI"
    <3>1. seen' = [HMI |-> Head(b), cloud |-> cloud]
      BY <1>1, <2>3, <2>4
    <3>2. seen'["HMI"] = Head(b) /\ seen'["cloud"] = cloud
      BY <3>1
    <3> QED
      BY <1>3, <2>1, <2>2, <3>1, <3>2
  <2>5. CASE sink = "cloud"
    <3>1. seen' = [HMI |-> hmi, cloud |-> Head(b)]
      BY <1>1, <2>3, <2>5
    <3>2. seen'["HMI"] = hmi /\ seen'["cloud"] = Head(b)
      BY <3>1
    <3> QED
      BY <1>3, <2>1, <2>2, <3>1, <3>2
  <2> QED
    BY <2>3, <2>4, <2>5
<1>8. CASE UNCHANGED vars
  <2>1. news' = news /\ seen' = seen
    BY <1>8 DEF vars
  <2> QED
    BY <1>1, <1>2, <1>3, <2>1
<1> QED
  BY <1>4, <1>5, <1>6, <1>7, <1>8 DEF Next, VehicleNews

-----------------------------------------------------------------------------
\* Both invariants hold when the processes start, and every step keeps that of the
\* calls.
LEMMA InvInit == Init => CallInv /\ NewsInv
<1> SUFFICES ASSUME Init PROVE CallInv /\ NewsInv
  OBVIOUS
<1>1. CallType /\ NewsType
  BY TypeInit
<1>2. CallInv
  BY <1>1 DEF Init, CallInv, OneRequestPerCall, ToldAtTheEnd, AgreedIsDone,
              AnsweredIsOver, TrueIsEarned
<1>3. NewsParts(0, <<>>, <<>>) /\ SeenParts(0, 0, <<>>, <<>>)
  <2>1. Len(News) \in Nat /\ <<>> \in Seq(1..Len(News)) /\ Len(<<>>) = 0 /\ 1..0 = {}
    BY NewsAssumption
  <2> QED
    BY <2>1 DEF NewsParts, SeenParts, Rises
<1>4. NewsInv
  BY <1>3, NewsInvParts DEF Init
<1> QED
  BY <1>2, <1>4

LEMMA CallInvStep == CallInv /\ [Next]_vars => CallInv'
<1> SUFFICES ASSUME CallInv, [Next]_vars PROVE CallInv'
  OBVIOUS
<1>1. CASE Services
  BY <1>1, CallInvNext
<1>2. CASE UNCHANGED calls
  BY <1>2 DEF calls, CallInv, CallType, DmcStates, DlcStates, AskedSoFar, PassedSoFar,
              DoneSoFar, OneRequestPerCall, ToldAtTheEnd, AgreedIsDone, AnsweredIsOver,
              TrueIsEarned
<1> QED
  BY <1>1, <1>2 DEF Next, VehicleNews, Publish, Forward, Notify, vars

\* Every variable keeps its type, whatever the cloud sends and the orchestrator
\* publishes.
THEOREM TypeCorrect == Spec => []TypeOK
<1>1. Init => CallInv /\ NewsInv
  BY InvInit
<1>2. CallInv /\ [Next]_vars => CallInv'
  BY CallInvStep
<1>3. NewsInv /\ [Next]_vars => NewsInv'
  BY NewsInvNext
<1>4. CallInv /\ NewsInv => TypeOK
  BY DEF CallInv, CallType, NewsInv, NewsType, TypeOK
<1> QED
  BY <1>1, <1>2, <1>3, <1>4, PTL DEF Spec

\* A call that returns true was carried out: that very call, whatever is still under
\* way of earlier ones (msg-passer.cpp:19-57, main.cpp:135-139).
THEOREM TrueIsEarnedAlways == Spec => []TrueIsEarned
<1>1. Init => CallInv
  BY InvInit
<1>2. CallInv /\ [Next]_vars => CallInv'
  BY CallInvStep
<1>3. CallInv => TrueIsEarned
  BY DEF CallInv
<1> QED
  BY <1>1, <1>2, <1>3, PTL DEF Spec

\* A call that was answered has nothing left under way, at the DLC or at the gateway
\* (msg-passer.cpp:54-57, main.cpp:135-139).
THEOREM AnsweredIsOverAlways == Spec => []AnsweredIsOver
<1>1. Init => CallInv
  BY InvInit
<1>2. CallInv /\ [Next]_vars => CallInv'
  BY CallInvStep
<1>3. CallInv => AnsweredIsOver
  BY DEF CallInv
<1> QED
  BY <1>1, <1>2, <1>3, PTL DEF Spec

\* The HMI and the cloud never hear of anything twice or of something older, however
\* many publications there are and wherever the connections break
\* (dlc-proxy.cpp:44-60, main.cpp:159-180, msg-passer.cpp:76-98).
THEOREM NewsInOrderAlways == Spec => NewsInOrder
<1>1. Init => NewsInv
  BY InvInit
<1>2. NewsInv /\ [Next]_vars => NewsInv'
  BY NewsInvNext
<1>3. NewsInv /\ [Next]_vars =>
         [\A sink \in {"HMI", "cloud"} :
             seen'[sink] # seen[sink] => seen'[sink] > seen[sink]]_vars
  BY NewsInvNext
<1> QED
  BY <1>1, <1>2, <1>3, PTL DEF Spec, NewsInOrder

-----------------------------------------------------------------------------
\* A set of numbers has a least one.
LEMMA LeastExists ==
    ASSUME NEW S \in SUBSET Nat, S # {}
    PROVE  \E x \in S : \A y \in S : x <= y
<1>1. PICK x \in S : \A y \in S : <<y, x>> \notin OpToRel(<, Nat)
  BY NatLessThanWellFounded, WFMin
<1>2. \A y \in S : ~(y < x)
  BY <1>1, Zenon DEF OpToRel
<1>3. \A y \in S : x <= y
  BY <1>2
<1> QED
  BY <1>3

\* Of the places of a manifest one is read first (parse_manifest.cpp:88-113).
LEMMA FirstPlace ==
    ASSUME NEW P \in SUBSET (Nat \X Nat), P # {}
    PROVE  \E p \in P : \A q \in P : p[1] < q[1] \/ (p[1] = q[1] /\ p[2] <= q[2])
<1> DEFINE I == {p[1] : p \in P}
<1>1. I \in SUBSET Nat /\ I # {}
  OBVIOUS
<1>2. PICK i \in I : \A j \in I : i <= j
  BY <1>1, LeastExists
<1> DEFINE F == {p[2] : p \in {q \in P : q[1] = i}}
<1>3. F \in SUBSET Nat /\ F # {}
  BY <1>2
<1>4. PICK f \in F : \A g \in F : f <= g
  BY <1>3, LeastExists
<1>5. PICK p \in P : p[1] = i /\ p[2] = f
  BY <1>4
<1>6. ASSUME NEW q \in P PROVE p[1] < q[1] \/ (p[1] = q[1] /\ p[2] <= q[2])
  <2>1. q[1] \in I /\ i <= q[1] /\ i \in Nat /\ q[1] \in Nat
    BY <1>1, <1>2
  <2>2. CASE q[1] = i
    <3>1. q[2] \in F
      BY <2>2
    <3> QED
      BY <1>4, <1>5, <2>2, <3>1
  <2> QED
    BY <1>5, <2>1, <2>2
<1> QED
  BY <1>6

\* All that is read of a manifest's packages is a string, and there as well.
Readable(L1) ==
    \A i \in DOMAIN GetDownloadPackages(L1) : \A f \in 1..3 :
        IsString(GetDownloadPackages(L1)[i][f])
Filled(L1) ==
    /\ GetDownloadPackages(L1) # <<>>
    /\ \A i \in DOMAIN GetDownloadPackages(L1) : \A f \in 1..3 :
          GetDownloadPackages(L1)[i][f] # Empty

\* One package is read for each that is listed (parse_manifest.cpp:88-113).
LEMMA OneEach ==
    ASSUME NEW L1, Len(L1.manifest.of.of) \in Nat
    PROVE  LET read == GetDownloadPackages(L1)
           IN  Len(read) \in Nat /\ DOMAIN read = 1..Len(read)
<1> DEFINE n == Len(L1.manifest.of.of)
           read == GetDownloadPackages(L1)
           packages == {read[i] : i \in 1..n}
<1>1. read = [i \in 1..n |-> read[i]]
  BY DEF GetDownloadPackages
<1> HIDE DEF n, read
<1>2. n \in Nat
  BY DEF n
<1>3. read \in [1..n -> packages]
  BY <1>1
<1>4. read \in Seq(packages)
  BY <1>2, <1>3
<1> QED
  BY <1>4 DEF read

\* A thread is made for a manifest only if all of its packages can be read and, in the
\* debug build, are filled in (parse_manifest.cpp:79-117).
LEMMA PackagesAreReadable ==
    ASSUME NEW L1, Len(L1.manifest.of.of) \in Nat, Outcome(L1, NDEBUG) = "packages"
    PROVE  Readable(L1) /\ (~NDEBUG => Filled(L1))
<1> DEFINE read == GetDownloadPackages(L1)
<1>1. ASSUME NEW i \in DOMAIN read, NEW f \in 1..3
      PROVE  IsString(read[i][f]) /\ (~NDEBUG => read[i][f] # Empty)
  <2>1. <<i, f>> \in (1..Len(read)) \X (1..3)
    BY <1>1, OneEach
  <2> DEFINE places == {p \in (1..Len(read)) \X (1..3) :
                           \/ ~IsString(read[p[1]][p[2]])
                           \/ ~NDEBUG /\ read[p[1]][p[2]] = Empty}
  <2>2. places = {}
    BY DEF Outcome
  <2>3. <<i, f>> \notin places
    BY <2>2
  <2> HIDE DEF read
  <2> QED
    BY <2>1, <2>3
<1>2. ~NDEBUG => read # <<>>
  BY DEF Outcome
<1> QED
  BY <1>1, <1>2 DEF Readable, Filled

\* And for every manifest that can be read, in the release build: whatever else it lacks
\* is an exception (parse_manifest.cpp:79-117).
LEMMA OutcomeInRelease ==
    ASSUME NEW L1, Len(L1.manifest.of.of) \in Nat, NDEBUG
    PROVE  Outcome(L1, NDEBUG) = IF Readable(L1) THEN "packages" ELSE "throws"
<1> DEFINE read == GetDownloadPackages(L1)
           Throws(i, f) == ~IsString(read[i][f])
           Asserts(i, f) == ~NDEBUG /\ read[i][f] = Empty
           places == {p \in (1..Len(read)) \X (1..3) : Throws(p[1], p[2]) \/ Asserts(p[1], p[2])}
           first == CHOOSE p \in places : \A q \in places :
                       p[1] < q[1] \/ (p[1] = q[1] /\ p[2] <= q[2])
<1>1. Outcome(L1, NDEBUG) =
         IF places # {} THEN IF Throws(first[1], first[2]) THEN "throws" ELSE "aborts"
         ELSE IF ~NDEBUG /\ read = <<>> THEN "aborts" ELSE "packages"
  BY DEF Outcome
<1>2. \A p \in places : Throws(p[1], p[2])
  OBVIOUS
<1>3. places # {} => first \in places
  <2>1. places \in SUBSET (Nat \X Nat)
    OBVIOUS
  <2> HIDE DEF places
  <2> QED
    BY <2>1, FirstPlace
<1>4. places = {} <=> Readable(L1)
  <2>1. ASSUME NEW i \in DOMAIN read, NEW f \in 1..3, Throws(i, f)
        PROVE  <<i, f>> \in places
    BY <2>1, OneEach
  <2>2. \A p \in places : p[1] \in DOMAIN read /\ p[2] \in 1..3
    BY OneEach
  <2>3. Readable(L1) <=> \A i \in DOMAIN read : \A f \in 1..3 : ~Throws(i, f)
    BY DEF Readable
  <2> HIDE DEF places, read, Throws
  <2> QED
    BY <1>2, <2>1, <2>2, <2>3
<1> HIDE DEF places
<1> QED
  BY <1>1, <1>2, <1>3, <1>4

\* What a manifest of a thread is: a well-formed request with a list of packages
\* (main.cpp:65-74).
LEMMA ManifestIsRead ==
    ASSUME NEW m \in Manifests
    PROVE  /\ Text[m].is = "request" /\ IsWellFormated(Text[m].of)
           /\ Outcome(Text[m].of, NDEBUG) = "packages"
           /\ Len(Text[m].of.manifest.of.of) \in Nat
<1>1. m \in Messages /\ Handling(m) = "packages"
  BY DEF Manifests
<1>2. /\ Text[m].is = "request" /\ IsWellFormated(Text[m].of)
      /\ Outcome(Text[m].of, NDEBUG) = "packages"
  BY <1>1, TextAssumption DEF Handling
<1> QED
  BY <1>1, <1>2, ArrayAssumption

\* The threads of the DLC only work on manifests.
LEMMA WorkersHaveManifests == Spec => [](workers \subseteq Manifests)
<1>1. CallInv => workers \subseteq Manifests
  BY DEF CallInv, CallType
<1>2. Init => CallInv
  BY InvInit
<1> QED
  BY <1>1, <1>2, CallInvStep, PTL DEF Spec

\* A thread of the DLC that downloads meets no url, certificate or checksum that is absent
\* or no string nor, in the debug build, one that is empty or an empty list: although
\* IsWellFormated() looks at nothing of a delta, such a manifest is stopped before its
\* thread is made, whichever package of it comes first (parse_manifest.cpp:79-117,
\* main.cpp:69-72).
THEOREM WorkersReadTheirPackages ==
    Spec => [](/\ PackagesCanBeRead
               /\ ~NDEBUG => \A m \in workers : GetDownloadPackages(Text[m].of) # <<>>)
<1> DEFINE Conclusion == /\ PackagesCanBeRead
                         /\ ~NDEBUG => \A m \in workers : GetDownloadPackages(Text[m].of) # <<>>
<1>1. workers \subseteq Manifests =>
         \A m \in workers : Readable(Text[m].of) /\ (~NDEBUG => Filled(Text[m].of))
  BY ManifestIsRead, PackagesAreReadable
<1>2. (\A m \in workers : Readable(Text[m].of) /\ (~NDEBUG => Filled(Text[m].of)))
         => Conclusion
  BY NDEBUGAssumption DEF Readable, Filled, PackagesCanBeRead
<1> QED
  BY <1>1, <1>2, WorkersHaveManifests, PTL

\* The call that brought a message is carried out: the message is reported, ignored or
\* given a thread, the process goes on, and the call is told so if it still waits.
MessageIsHandled(r) ==
    /\ [call |-> r.call, how |-> Handling(r.argument)] \in done'
    /\ dlc'.pc = dlc.pc /\ workers \subseteq workers'
    /\ r.live /\ dmc.pc = "call" /\ dmc.call = r.call => dmc'.told = "true"

\* In the release build nothing that a message lacks ends the process
\* (main.cpp:57-103, parse_manifest.cpp:79-117).
LEMMA NoMessageAborts ==
    ASSUME NDEBUG, NEW m \in Messages
    PROVE  Handling(m) # "aborts"
<1>1. CASE Text[m].is = "request" /\ IsWellFormated(Text[m].of)
  <2>1. Outcome(Text[m].of, NDEBUG) \in {"packages", "throws"}
    BY <1>1, ArrayAssumption, OutcomeInRelease
  <2> QED
    BY <2>1 DEF Handling
<1>2. CASE ~(Text[m].is = "request" /\ IsWellFormated(Text[m].of))
  BY <1>2, TextAssumption DEF Handling
<1> QED
  BY <1>1, <1>2

\* The release build outlives every message, well formed or not, and says true of it
\* (main.cpp:57-103, parse_manifest.cpp:79-117).
THEOREM MessagesAreHandled ==
    ASSUME NDEBUG
    PROVE  Spec => [][\A r \in asked : HandleRemoteRequest(r) => MessageIsHandled(r)]_vars
<1>1. CallInv /\ [Next]_vars =>
         [\A r \in asked : HandleRemoteRequest(r) => MessageIsHandled(r)]_vars
  <2> SUFFICES ASSUME CallInv, NEW r \in asked, HandleRemoteRequest(r)
               PROVE  MessageIsHandled(r)
    OBVIOUS
  <2>1. r.argument \in Messages /\ dmc \in DmcStates /\ dlc \in DlcStates
    BY DEF CallInv, CallType, AskedSoFar, HandleRemoteRequest
  <2>2. Handling(r.argument) # "aborts"
    BY <2>1, NoMessageAborts
  <2>3. dlc'.pc = dlc.pc /\ workers \subseteq workers'
    BY <2>1, <2>2 DEF HandleRemoteRequest, DlcStates
  <2>4. r.live /\ dmc.pc = "call" /\ dmc.call = r.call => dmc'.told = "true"
    BY <2>1, <2>2 DEF HandleRemoteRequest, Answer, DmcStates
  <2> QED
    BY <2>2, <2>3, <2>4 DEF HandleRemoteRequest, MessageIsHandled
<1>2. Init => CallInv
  BY InvInit
<1> QED
  BY <1>1, <1>2, CallInvStep, PTL DEF Spec

=============================================================================
