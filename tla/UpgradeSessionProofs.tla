------------------------ MODULE UpgradeSessionProofs ------------------------
(***************************************************************************)
(* Theorems about UpgradeSession, for any script, any number of turns,     *)
(* attempts, publications and threads, and any losses and restarts.        *)
(***************************************************************************)
EXTENDS UpgradeSession, TLAPS, WellFoundedInduction

\* A call that waits has a number.
CallIsNumbered == gw.pc = "call" => gw.call > 0

TypeInv == TypeOK /\ CallIsNumbered

\* Of all requests under way none belongs to a call to come, and each belongs to a
\* call of its own.
OneRequestPerCall ==
    \A r1, r2 \in pending : r1.call = r2.call => r1 = r2

\* An answer is owed only by the request that the orchestrator waits for.
LiveIsAwaited ==
    \A r \in pending : r.live =>
        /\ Waiting /\ r.call = gw.call
        /\ r.op = "GetErrorCause" <=> gw.pc = "cause"

\* The self-installer is asked once for each call, and answers it once.
AskedOnce ==
    /\ \A r \in pending : r.op # "GetErrorCause" => \A e \in log : e.call # r.call
    /\ \A e1, e2 \in log : e1.call = e2.call => e1 = e2

\* What bears the number of the present call was asked by it.
OfThisCall ==
    gw.op # "none" =>
        \A e \in log : e.call = gw.call => e.op = gw.op /\ e.turn = gw.turn

SentByThisCall ==
    gw.op # "none" =>
        \A r \in pending : r.call = gw.call =>
            r.op \in {gw.op, "GetErrorCause"} /\ r.turn = gw.turn

\* The present call has been answered with this code, and nothing of it is left.
AnsweredWith(code) == \E e \in log : e.call = gw.call /\ e.code = code
NothingLeft == \A r \in pending : r.call # gw.call

\* What the orchestrator's thread knows from where it is.
AnswerIsTrue ==
    /\ reply # "none" => /\ Waiting /\ NothingLeft
                         /\ gw.pc = "call" => AnsweredWith(reply)
    /\ gw.pc = "cause" => AnsweredWith("refused")
    /\ gw.pc = "result" /\ gw.op # "none" /\ gw.error \in {"ok", "selfinstaller"} =>
          /\ NothingLeft
          /\ AnsweredWith(IF gw.error = "ok" THEN "ok" ELSE "refused")

\* The call under way is the one its pc and its task say.
CallIsDue ==
    /\ gw.pc \in {"connect", "menu", "task"} => gw.op = "none"
    /\ Waiting => gw.op # "none"

TaskIsDue ==
    /\ gw.pc \in {"connect", "menu"} => gw.task = 0
    /\ gw.pc = "task" => gw.task > 0
    /\ gw.pc \in {"call", "cause", "result"} /\ gw.task > 0 =>
          IF gw.op = "none" THEN Script[gw.task] \notin Operations
                            ELSE gw.op = Script[gw.task]

CallInv ==
    /\ TypeInv
    /\ OneRequestPerCall /\ LiveIsAwaited /\ AskedOnce
    /\ OfThisCall /\ SentByThisCall
    /\ AnswerIsTrue /\ CallIsDue /\ TaskIsDue

-----------------------------------------------------------------------------
\* The operation op of a turn has been accepted.
Finished(op, turn) == \E e \in log : e.op = op /\ e.turn = turn /\ e.code = "ok"

\* The script has come as far as it has because all before it was accepted.
ScriptSoFar ==
    gw.pc \in {"task", "call", "cause", "result"} =>
        \A j \in 1..Len(Script) : j < gw.task /\ Script[j] \in Operations =>
            Finished(Script[j], gw.turn)

\* A phase that is under way or performed follows the one before it.
FollowsItsPhase ==
    \A r \in pending \cup log :
        r.op \in {"Upgrade", "Finalize"} => Finished(Before(r.op), r.turn)

ScriptInv == ScriptSoFar /\ FollowsItsPhase

\* Each phase of the script comes after the one it needs.
OrderedScript ==
    \A i \in 1..Len(Script) : Script[i] \in {"Upgrade", "Finalize"} =>
        \E j \in 1..Len(Script) : j < i /\ Script[j] = Before(Script[i])

-----------------------------------------------------------------------------
Accepted(op) == \E e \in log : e.op = op /\ e.code = "ok"

\* A state that says of a phase that it is done speaks of an accepted one.
Earned(what) ==
    /\ what = "PREPARATION_DONE" => Accepted("PrepareUpgrade")
    /\ what = "ACTIVATION_DONE" => Accepted("Upgrade")
    /\ what = "FINAILIZE_DONE" => Accepted("Finalize")

NewsInv ==
    /\ \A t \in threads : Accepted(t.op) /\ Earned(t.said)
    /\ Earned(state)
    /\ \A i \in 1..Len(news) : Earned(news[i])

-----------------------------------------------------------------------------
\* A set of entries of the table has a first one (hh_helper.cpp:97-107).
LEMMA FirstIsIn ==
    ASSUME NEW S \in SUBSET Nat, S # {}
    PROVE  First(S) \in S /\ \A j \in S : First(S) <= j
<1>1. PICK x \in S : \A y \in S : <<y, x>> \notin OpToRel(<, Nat)
  BY NatLessThanWellFounded, WFMin
<1>2. \A y \in S : ~(y < x)
  BY <1>1, Zenon DEF OpToRel
<1>3. \A y \in S : x <= y
  BY <1>2
<1> QED
  BY <1>3 DEF First

\* The lookups of a box by its name and by an address of the table find a box
\* (hh_helper.cpp:119-147).
LEMMA LookupsFind ==
    ASSUME NEW n \in Nodes
    PROVE  /\ NodeToInt(n) + 1 \in Entries
           /\ ECUNames[NodeToInt(n) + 1] = n
           /\ IpToNode(NodeToIp(n)) \in Nodes
<1>1. Entries \subseteq Nat
  BY DEF Entries
<1> DEFINE S == {i \in Entries : ECUNames[i] = n}
<1>2. S # {} /\ S \subseteq Nat
  BY <1>1 DEF Nodes
<1>3. First(S) \in S
  BY <1>2, FirstIsIn
<1>4. NodeToInt(n) + 1 = First(S) /\ First(S) \in Entries /\ ECUNames[First(S)] = n
  <2>1. NodeToInt(n) = First(S) - 1
    BY DEF NodeToInt
  <2>2. First(S) \in Nat /\ First(S) \in Entries /\ ECUNames[First(S)] = n
    BY <1>1, <1>3
  <2> QED
    BY <2>1, <2>2
<1> DEFINE T == {i \in Entries : IpOf(i) = NodeToIp(n)}
<1>5. First(S) \in T /\ T \subseteq Nat
  BY <1>1, <1>4 DEF NodeToIp
<1>6. First(T) \in T
  BY <1>5, FirstIsIn
<1>7. IpToNode(NodeToIp(n)) \in Nodes
  BY <1>6 DEF IpToNode, Nodes
<1> QED
  BY <1>4, <1>7

\* What has been sent is news, and so is what of it arrives.
LEMMA NewsType ==
    ASSUME NEW s \in Seq(News), Len(s) <= MAX_NEWS, NEW n \in 0..Len(s)
    PROVE  SubSeq(s, 1, n) \in Seq(News) /\ Len(SubSeq(s, 1, n)) <= MAX_NEWS
BY BoundsAssumption

\* Before its first attempt to connect the orchestrator's thread has called nothing.
LEMMA NothingCalledYet ==
    Init => gw.pc \in {"connect", "exit"} /\ gw.op = "none" /\ gw.task = 0
<1> SUFFICES ASSUME Init PROVE gw.pc \in {"connect", "exit"} /\ gw.op = "none" /\ gw.task = 0
  OBVIOUS
<1>1. PICK pc \in {"connect", "exit"} :
          gw = [pc |-> pc, tries |-> MAX_TRY, proxy |-> FALSE, turn |-> 0,
                task |-> 0, call |-> 0, op |-> "none", error |-> "unset"]
  BY DEF Init
<1>2. gw.pc = pc /\ gw.op = "none" /\ gw.task = 0
  BY <1>1
<1> QED
  BY <1>2

\* Type correctness holds when the session starts.
LEMMA TypeInit == Init => TypeOK
<1> SUFFICES ASSUME Init PROVE TypeOK
  OBVIOUS
<1>1. gw \in OrchestratorStates
  <2>1. PICK pc \in {"connect", "exit"} :
            gw = [pc |-> pc, tries |-> MAX_TRY, proxy |-> FALSE, turn |-> 0,
                  task |-> 0, call |-> 0, op |-> "none", error |-> "unset"]
    BY DEF Init
  <2>2. MAX_TRY \in 0..MAX_TRY /\ 0 \in 0..MAX_TURNS /\ 0 \in 0..Len(Script)
    BY BoundsAssumption, ScriptAssumption
  <2> QED
    BY <2>1, <2>2 DEF OrchestratorStates
<1>2. news \in Seq(News) /\ Len(news) <= MAX_NEWS
  BY BoundsAssumption DEF Init
<1> QED
  BY <1>1, <1>2, ScriptNodesAssumption DEF Init, TypeOK, InstallerInit, UpdateStates

\* A thread, a call and an answer of the present call are among those so far.
LEMMA SoFarGrows ==
    ASSUME TypeOK, gw' \in OrchestratorStates, gw.call <= gw'.call, gw.turn <= gw'.turn
    PROVE  /\ RequestsSoFar \subseteq RequestsSoFar'
           /\ AnswersSoFar \subseteq AnswersSoFar'
           /\ ThreadsSoFar \subseteq ThreadsSoFar'
<1>1. /\ gw.call \in Nat /\ gw'.call \in Nat /\ gw.turn \in Nat /\ gw'.turn \in Nat
      /\ 1..gw.call \subseteq 1..gw'.call /\ 0..gw.turn \subseteq 0..gw'.turn
  BY BoundsAssumption DEF TypeOK, OrchestratorStates
<1> QED
  BY <1>1 DEF RequestsSoFar, AnswersSoFar, ThreadsSoFar

\* A request that is sent by the present call is of the type of a request.
LEMMA SendType ==
    ASSUME TypeOK, gw' \in OrchestratorStates, gw.call <= gw'.call, gw.turn <= gw'.turn,
           gw'.call > 0, NEW op \in Calls \cup {"GetErrorCause"}, Send(op)
    PROVE  pending' \subseteq RequestsSoFar'
<1>1. gw'.call \in 1..gw'.call /\ gw'.turn \in 0..gw'.turn
  BY BoundsAssumption DEF OrchestratorStates
<1>2. [op |-> op, call |-> gw'.call, turn |-> gw'.turn, live |-> TRUE] \in RequestsSoFar'
  BY <1>1 DEF RequestsSoFar
<1>3. pending \subseteq RequestsSoFar'
  BY SoFarGrows DEF TypeOK
<1> QED
  BY <1>2, <1>3 DEF Send

\* Requests that nobody awaits are requests all the same.
LEMMA UnawaitedType ==
    ASSUME NEW S \in SUBSET RequestsSoFar
    PROVE  Unawaited(S) \subseteq RequestsSoFar
BY DEF Unawaited, RequestsSoFar

\* A step that leaves the box and the installer alone.
LEMMA CallStepType ==
    ASSUME TypeOK, gw' \in OrchestratorStates, gw.call <= gw'.call, gw.turn <= gw'.turn,
           pending' \subseteq RequestsSoFar', online' \in BOOLEAN,
           reply' \in {"none", "ok", "refused"},
           UNCHANGED <<node, box, news, notified, log, installer>>
    PROVE  TypeOK'
BY SoFarGrows DEF TypeOK, installer, UpdateStates, News

\* A step of the box or the network, during which the orchestrator stands still.
LEMMA BoxStepType ==
    ASSUME TypeOK, UNCHANGED <<node, gw>>, online' \in BOOLEAN,
           box' \in {"off", "starting", "serving"},
           pending' \subseteq RequestsSoFar, log' \subseteq AnswersSoFar,
           threads' \subseteq ThreadsSoFar, reply' \in {"none", "ok", "refused"},
           news' \in Seq(News), Len(news') <= MAX_NEWS, notified' \in Nodes \cup {"none"},
           state' \in UpdateStates
    PROVE  TypeOK'
BY DEF TypeOK, RequestsSoFar, AnswersSoFar, ThreadsSoFar, OrchestratorStates

\* Where the orchestrator goes on from an outcome.
LEMMA GoOnWays ==
    ASSUME GoOn
    PROVE  \/ gw' = BackToMenu \/ gw' = [BackToMenu EXCEPT !.proxy = TRUE]
           \/ gw' = [gw EXCEPT !.pc = "exit"]
           \/ /\ gw' = NextTask /\ gw.task < Len(Script) /\ gw.error = "ok"
              /\ gw.task > 0
BY DEF GoOn, AfterInit, AfterTask, InScript

\* The steps of the orchestrator keep its own state typed.
LEMMA OrchestratorType ==
    ASSUME TypeOK, Orchestrator
    PROVE  /\ gw' \in OrchestratorStates
           /\ gw.call <= gw'.call /\ gw.turn <= gw'.turn
<1> USE DEF OrchestratorStates
<1>0. /\ gw \in OrchestratorStates /\ Operations \subseteq Calls
      /\ gw.call \in Nat /\ gw.turn \in Nat /\ gw.tries \in Nat /\ gw.task \in Nat
      /\ Choices \subseteq Calls /\ "GetAllSoftwareVersion" \in Calls
      /\ MAX_TRY \in Nat /\ MAX_TURNS \in Nat /\ Len(Script) \in Nat
  BY ScriptAssumption, BoundsAssumption, ChoicesAssumption DEF TypeOK, Calls
<1>a. ASSUME NEW op \in Calls, Call(op)
      PROVE  gw' \in OrchestratorStates /\ gw.call <= gw'.call /\ gw.turn <= gw'.turn
  <2>1. gw' = [gw EXCEPT !.pc = "call", !.op = op, !.call = gw.call + 1]
    BY <1>a DEF Call
  <2>2. gw.call + 1 \in Nat /\ gw.call <= gw.call + 1
    BY <1>0
  <2>3. gw' \in OrchestratorStates
    BY <1>0, <2>1, <2>2
  <2>4. gw'.call = gw.call + 1 /\ gw'.turn = gw.turn
    BY <1>0, <2>1
  <2> QED
    BY <1>0, <2>2, <2>3, <2>4
<1>1. CASE Connect
  BY <1>0, <1>1, <1>a DEF Connect
<1>2. CASE TryAgain
  BY <1>0, <1>2 DEF TryAgain, Attempt
<1>3. CASE GiveUpConnecting \/ Leave
  BY <1>0, <1>3 DEF GiveUpConnecting, Leave
<1>b. ASSUME NEW pc \in {"result"}, NEW error \in {"ok", "selfinstaller", "rpc"},
             gw' = [gw EXCEPT !.pc = pc, !.error = error]
      PROVE  gw' \in OrchestratorStates /\ gw.call <= gw'.call /\ gw.turn <= gw'.turn
  <2>1. gw' \in OrchestratorStates
    BY <1>0, <1>b
  <2>2. gw'.call = gw.call /\ gw'.turn = gw.turn
    BY <1>0, <1>b
  <2> QED
    BY <1>0, <2>1, <2>2
<1>4. CASE Return \/ ReturnCause \/ Throw
  <2>1. CASE gw' = [gw EXCEPT !.pc = "cause"]
    BY <1>0, <2>1
  <2> QED
    BY <1>4, <1>b, <2>1 DEF Return, ReturnCause, Throw, Result
<1>5. CASE RunScript
  <2>1. gw' = [gw EXCEPT !.pc = "task", !.turn = gw.turn + 1, !.task = 1]
    BY <1>5 DEF RunScript
  <2>2. gw.turn + 1 \in 0..MAX_TURNS /\ 1 \in 0..Len(Script)
    BY <1>0, <1>5, ScriptAssumption DEF RunScript
  <2>3. gw' \in OrchestratorStates
    BY <1>0, <2>1, <2>2
  <2>4. gw'.call = gw.call /\ gw'.turn = gw.turn + 1
    BY <1>0, <2>1
  <2> QED
    BY <1>0, <2>3, <2>4
<1>6. ASSUME NEW op \in Choices, Choose(op)
      PROVE  gw' \in OrchestratorStates /\ gw.call <= gw'.call /\ gw.turn <= gw'.turn
  <2>1. gw' = [gw EXCEPT !.pc = "call", !.turn = gw.turn + 1, !.op = op, !.call = gw.call + 1]
    BY <1>6 DEF Choose
  <2>2. gw.turn + 1 \in 0..MAX_TURNS /\ gw.call + 1 \in Nat /\ op \in Calls
    BY <1>0, <1>6 DEF Choose
  <2>3. gw' \in OrchestratorStates
    BY <1>0, <2>1, <2>2
  <2>4. gw'.call = gw.call + 1 /\ gw'.turn = gw.turn + 1
    BY <1>0, <2>1
  <2> QED
    BY <1>0, <2>3, <2>4
<1>7. CASE CallTask
  BY <1>0, <1>7, <1>a DEF CallTask
<1>8. CASE PassOver
  <2>1. gw.error \in {"unset", "ok", "selfinstaller", "rpc"}
    BY <1>0
  <2> QED
    BY <1>8, <1>b, <2>1 DEF PassOver, Result
<1>9. CASE GoOn
  <2>1. /\ BackToMenu \in OrchestratorStates
        /\ BackToMenu.call = gw.call /\ BackToMenu.turn = gw.turn
    <3>1. 0 \in 0..Len(Script)
      BY <1>0
    <3>2. BackToMenu \in OrchestratorStates
      BY <1>0, <3>1 DEF BackToMenu
    <3>3. BackToMenu.call = gw.call /\ BackToMenu.turn = gw.turn
      BY <1>0 DEF BackToMenu
    <3> QED
      BY <3>2, <3>3
  <2>2. [BackToMenu EXCEPT !.proxy = TRUE] \in OrchestratorStates
    BY <2>1
  <2>3. gw.task < Len(Script) => gw.task + 1 \in 0..Len(Script)
    BY <1>0
  <2>4. gw.task < Len(Script) =>
           /\ NextTask \in OrchestratorStates
           /\ NextTask.call = gw.call /\ NextTask.turn = gw.turn
    BY <1>0, <2>3 DEF NextTask
  <2>5. [BackToMenu EXCEPT !.proxy = TRUE].call = gw.call
        /\ [BackToMenu EXCEPT !.proxy = TRUE].turn = gw.turn
    BY <2>1
  <2>6. CASE gw' = [gw EXCEPT !.pc = "exit"]
    BY <1>0, <2>6
  <2> QED
    <3> HIDE DEF OrchestratorStates
    <3>0. gw.call <= gw.call /\ gw.turn <= gw.turn
      BY <1>0
    <3>1. CASE gw' = BackToMenu
      BY <2>1, <3>0, <3>1
    <3>3. CASE gw' = [BackToMenu EXCEPT !.proxy = TRUE]
      BY <2>2, <2>5, <3>0, <3>3
    <3>2. CASE gw.task < Len(Script) /\ gw' = NextTask
      BY <1>0, <2>4, <3>2
    <3> QED
      BY <1>9, <2>6, <3>1, <3>2, <3>3, GoOnWays
<1> QED
  BY <1>1, <1>2, <1>3, <1>4, <1>5, <1>6, <1>7, <1>8, <1>9 DEF Orchestrator

\* The calls of the orchestrator, and what it does with their answers, keep the types.
LEMMA TypeOfOrchestrator ==
    ASSUME TypeInv, Orchestrator
    PROVE  TypeOK'
<1> USE DEF installer, remote
<1>0. /\ TypeOK
      /\ gw \in OrchestratorStates /\ gw.call \in Nat /\ gw.call + 1 > 0
      /\ pending \subseteq RequestsSoFar
      /\ online \in BOOLEAN /\ reply \in {"none", "ok", "refused"}
      /\ Operations \subseteq Calls
      /\ "GetAllSoftwareVersion" \in Calls /\ Choices \subseteq Calls
  BY ChoicesAssumption DEF TypeInv, TypeOK, OrchestratorStates, Calls
<1>1. gw' \in OrchestratorStates /\ gw.call <= gw'.call /\ gw.turn <= gw'.turn
  BY <1>0, OrchestratorType
<1>2. pending \subseteq RequestsSoFar'
  BY <1>0, <1>1, SoFarGrows
<1>3. CASE Connect \/ CallTask \/ \E op \in Choices : Choose(op)
  <2>1. gw'.call = gw.call + 1
    BY <1>0, <1>3 DEF Connect, CallTask, Choose, Call, OrchestratorStates
  <2>2. \E op \in Calls : Send(op)
    BY <1>0, <1>3 DEF Connect, CallTask, Choose, Call
  <2>3. pending' \subseteq RequestsSoFar'
    BY <1>0, <1>1, <2>1, <2>2, SendType
  <2> QED
    BY <1>0, <1>1, <1>3, <2>3, CallStepType DEF Connect, CallTask, Choose, Call
<1>4. CASE Return
  <2>1. CASE reply = "ok"
    BY <1>0, <1>1, <1>2, <1>4, <2>1, CallStepType DEF Return, Result
  <2>2. CASE reply # "ok"
    <3>1. gw' = [gw EXCEPT !.pc = "cause"] /\ gw.pc = "call" /\ Send("GetErrorCause")
      BY <1>4, <2>2 DEF Return
    <3>2. gw'.call > 0
      BY <1>0, <3>1 DEF TypeInv, CallIsNumbered, OrchestratorStates
    <3>3. pending' \subseteq RequestsSoFar'
      BY <1>0, <1>1, <3>1, <3>2, SendType
    <3> QED
      BY <1>0, <1>1, <1>4, <2>2, <3>3, CallStepType DEF Return
  <2> QED
    BY <2>1, <2>2
<1>5. CASE Throw
  <2>1. Unawaited(pending) \subseteq RequestsSoFar
    BY <1>0, UnawaitedType
  <2>2. pending' \subseteq RequestsSoFar'
    BY <1>0, <1>1, <1>5, <2>1, SoFarGrows DEF Throw
  <2> QED
    BY <1>0, <1>1, <1>5, <2>2, CallStepType DEF Throw, Result
<1>6. CASE ReturnCause \/ PassOver
  BY <1>0, <1>1, <1>2, <1>6, CallStepType DEF ReturnCause, PassOver, Result
<1>7. CASE TryAgain \/ GiveUpConnecting \/ RunScript \/ Leave \/ GoOn
  BY <1>0, <1>1, <1>2, <1>7, CallStepType
     DEF TryAgain, Attempt, GiveUpConnecting, RunScript, Leave, GoOn
<1> QED
  BY <1>3, <1>4, <1>5, <1>6, <1>7 DEF Orchestrator

\* So do the steps of the box.
LEMMA TypeOfBox ==
    ASSUME TypeOK, Box
    PROVE  TypeOK'
<1> USE DEF installer
<1>0. /\ online \in BOOLEAN /\ box \in {"off", "starting", "serving"}
      /\ pending \subseteq RequestsSoFar /\ log \subseteq AnswersSoFar
      /\ threads \subseteq ThreadsSoFar /\ reply \in {"none", "ok", "refused"}
      /\ news \in Seq(News) /\ Len(news) <= MAX_NEWS
      /\ notified \in Nodes \cup {"none"}
      /\ state \in UpdateStates
  BY DEF TypeOK
<1>1. CASE Start \/ Serve
  BY <1>0, <1>1, BoxStepType DEF Start, Serve
<1>2. ASSUME NEW r \in pending, Perform(r) PROVE TypeOK'
  <2>1. /\ r.op \in Calls \cup {"GetErrorCause"} /\ r.call \in 1..gw.call
        /\ r.turn \in 0..gw.turn
    BY <1>0 DEF RequestsSoFar
  <2>2. PICK code \in CodeOf(r.op) :
          /\ reply' = IF r.live THEN code ELSE reply
          /\ log' = IF r.op = "GetErrorCause" THEN log
                    ELSE log \cup {[op |-> r.op, call |-> r.call, turn |-> r.turn, code |-> code]}
          /\ threads' = IF code = "ok" THEN Begun(r.op, r.call) ELSE threads
    BY <1>2 DEF Perform
  <2>3. code \in {"ok", "refused"}
    BY DEF CodeOf
  <2>4. log' \subseteq AnswersSoFar
    BY <1>0, <2>1, <2>2, <2>3 DEF AnswersSoFar
  <2>5. threads' \subseteq ThreadsSoFar
    <3>1. ASSUME r.op \in Phases PROVE Thread(r.op, r.call) \in ThreadsSoFar
      BY <2>1, <3>1, PARTITIONSAssumption DEF Thread, ThreadsSoFar
    <3> QED
      BY <1>0, <2>2, <3>1 DEF Begun
  <2> QED
    BY <1>0, <1>2, <2>2, <2>3, <2>4, <2>5, BoxStepType DEF Perform
<1>3. ASSUME NEW t \in threads, Work(t) PROVE TypeOK'
  <2>1. /\ t \in ThreadsSoFar /\ t.op \in Phases
        /\ [t EXCEPT !.stored = TRUE] \in ThreadsSoFar
        /\ [t EXCEPT !.said = state] \in ThreadsSoFar
    BY <1>0 DEF ThreadsSoFar
  <2>2. state' \in UpdateStates
    BY <1>0, <1>3, <2>1 DEF Work, StoreState, ReadState, DoneState, UpdateStates, Phases
  <2>3. threads' \subseteq ThreadsSoFar
    BY <1>0, <1>3, <2>1 DEF Work, StoreState, ReadState
  <2> QED
    BY <1>0, <1>3, <2>2, <2>3, BoxStepType DEF Work
<1>4. ASSUME NEW what \in News, Publish(what)
      PROVE  news' \in Seq(News) /\ Len(news') <= MAX_NEWS
  BY <1>0, <1>4, BoundsAssumption DEF Publish
<1>5. ASSUME NEW t \in threads, ReportStatus(t) PROVE TypeOK'
  <2>1. news' \in Seq(News) /\ Len(news') <= MAX_NEWS
    BY <1>0, <1>4, <1>5 DEF ReportStatus, News, ThreadsSoFar
  <2>2. Reported(t) \subseteq ThreadsSoFar
    <3>1. t \in ThreadsSoFar /\ t.left \in Nat /\ t.left <= PARTITIONS
      BY <1>0, PARTITIONSAssumption DEF ThreadsSoFar
    <3> DEFINE u == [t EXCEPT !.stored = FALSE, !.said = "nothing", !.left = t.left - 1]
    <3>2. u.left = t.left - 1
      BY <3>1 DEF ThreadsSoFar
    <3>3. ASSUME u.left > 0 PROVE u \in ThreadsSoFar
      <4>1. t.left - 1 \in 0..PARTITIONS
        BY <3>1, <3>2, <3>3, PARTITIONSAssumption
      <4> QED
        BY <3>1, <4>1 DEF ThreadsSoFar
    <3> QED
      BY <1>0, <3>3 DEF Reported
  <2> QED
    BY <1>0, <1>5, <2>1, <2>2, BoxStepType DEF ReportStatus, Publish
<1>6. CASE DistributeResult
  <2>1. news' \in Seq(News) /\ Len(news') <= MAX_NEWS
    BY <1>0, <1>4, <1>6 DEF DistributeResult, News
  <2> QED
    BY <1>0, <1>6, <2>1, BoxStepType DEF DistributeResult, Publish
<1>7. ASSUME NEW sent \in Seq(News), Len(sent) <= MAX_NEWS, EndBox(sent) PROVE TypeOK'
  <2>1. news' \in Seq(News) /\ Len(news') <= MAX_NEWS
    BY <1>7, NewsType DEF EndBox
  <2>2. state' \in UpdateStates /\ threads' \subseteq ThreadsSoFar
    BY <1>7 DEF EndBox, InstallerRestarts, UpdateStates
  <2> QED
    BY <1>0, <1>7, <2>1, <2>2, BoxStepType DEF EndBox
<1>8. CASE Deinit \/ Killed
  <2>1. "Exit" \in News
    BY DEF News
  <2>2. Len(news) < MAX_NEWS =>
          Append(news, "Exit") \in Seq(News) /\ Len(Append(news, "Exit")) <= MAX_NEWS
    BY <1>0, <2>1, BoundsAssumption
  <2> QED
    BY <1>0, <1>7, <1>8, <2>2 DEF Deinit, Killed
<1> QED
  BY <1>1, <1>2, <1>3, <1>5, <1>6, <1>8 DEF Box

\* Type correctness is inductive, with the number of a call that waits.
LEMMA TypeNext == TypeInv /\ [Next]_vars => TypeInv'
<1> SUFFICES ASSUME TypeInv, [Next]_vars PROVE TypeInv'
  OBVIOUS
<1> USE DEF installer, remote
<1>0. /\ TypeOK /\ gw \in OrchestratorStates /\ gw.call \in Nat
      /\ online \in BOOLEAN /\ box \in {"off", "starting", "serving"}
      /\ pending \subseteq RequestsSoFar /\ log \subseteq AnswersSoFar
      /\ threads \subseteq ThreadsSoFar /\ reply \in {"none", "ok", "refused"}
      /\ news \in Seq(News) /\ Len(news) <= MAX_NEWS
      /\ notified \in Nodes \cup {"none"} /\ node \in Nodes
      /\ state \in UpdateStates
  BY DEF TypeInv, TypeOK, OrchestratorStates
<1>1. CASE Orchestrator
  <2>0. gw.call + 1 > 0
    BY <1>0
  <2>1. CallIsNumbered'
    <3>1. CASE Connect \/ CallTask \/ \E op \in Choices : Choose(op)
      BY <1>0, <2>0, <3>1
         DEF CallIsNumbered, OrchestratorStates, Connect, CallTask, Choose, Call
    <3>2. CASE TryAgain \/ GiveUpConnecting \/ RunScript \/ Leave
      BY <1>0, <3>2 DEF CallIsNumbered, OrchestratorStates, TryAgain, Attempt,
                        GiveUpConnecting, RunScript, Leave
    <3>3. CASE Return \/ ReturnCause \/ Throw \/ PassOver
      BY <1>0, <3>3 DEF CallIsNumbered, OrchestratorStates, Return, ReturnCause, Throw,
                        PassOver, Result
    <3>4. CASE GoOn
      <4>1. gw'.pc # "call"
        BY <1>0, <3>4, GoOnWays DEF OrchestratorStates, BackToMenu, NextTask
      <4> QED
        BY <4>1 DEF CallIsNumbered
    <3> QED
      BY <1>1, <3>1, <3>2, <3>3, <3>4 DEF Orchestrator
  <2> QED
    BY <1>1, <2>1, TypeOfOrchestrator DEF TypeInv
<1>2. CASE Box
  <2>1. gw' = gw
    BY <1>2 DEF Box, Start, Serve, Perform, Work, ReportStatus, DistributeResult, Deinit,
               Killed, EndBox
  <2> QED
    BY <1>0, <1>2, <2>1, TypeOfBox DEF TypeInv, CallIsNumbered
<1>3. CASE Disconnect
  <2>1. pending' \subseteq RequestsSoFar
    BY <1>0, <1>3, UnawaitedType DEF Disconnect
  <2>2. <<>> \in Seq(News) /\ Len(<<>>) <= MAX_NEWS
    BY BoundsAssumption
  <2> QED
    BY <1>0, <1>3, <2>1, <2>2, BoxStepType DEF Disconnect, TypeInv, CallIsNumbered
<1>4. CASE Reconnect
  BY <1>0, <1>4, BoxStepType DEF Reconnect, TypeInv, CallIsNumbered
<1>5. CASE Notify
  <2>1. Tail(news) \in Seq(News) /\ Len(Tail(news)) <= MAX_NEWS
    BY <1>0, <1>5, BoundsAssumption DEF Notify
  <2>2. notified' \in Nodes
    BY <1>0, <1>5, LookupsFind DEF Notify, Told
  <2> QED
    BY <1>0, <1>5, <2>1, <2>2, BoxStepType DEF Notify, TypeInv, CallIsNumbered
<1>6. CASE UNCHANGED vars
  BY <1>0, <1>6, BoxStepType DEF vars, TypeInv, CallIsNumbered
<1> QED
  BY <1>1, <1>2, <1>3, <1>4, <1>5, <1>6 DEF Next

\* The number and the types hold from the start of every session.
LEMMA TypeInvHolds == Spec => []TypeInv
<1>1. Init => TypeInv
  BY TypeInit, NothingCalledYet DEF TypeInv, CallIsNumbered
<1> QED
  BY <1>1, TypeNext, PTL DEF Spec

\* The types of all variables, whatever the calls, the box and the network do.
THEOREM TypeCorrect == Spec => []TypeOK
<1>1. TypeInv => TypeOK
  BY DEF TypeInv
<1> QED
  BY <1>1, TypeInvHolds, PTL

-----------------------------------------------------------------------------
\* What the types say of the numbers that the proofs compare.
LEMMA CallFacts ==
    ASSUME TypeOK
    PROVE  /\ gw \in OrchestratorStates /\ gw.call \in Nat
           /\ \A r \in pending : r.call \in Nat /\ r.call <= gw.call
           /\ \A e \in log : e.call \in Nat /\ e.call <= gw.call
           /\ reply \in {"none", "ok", "refused"}
BY DEF TypeOK, OrchestratorStates, RequestsSoFar, AnswersSoFar

\* A new call: its request is the only one with its number.
LEMMA NewCall ==
    ASSUME CallInv, NEW op \in Calls, ~Waiting, Send(op), UNCHANGED <<reply, log>>,
           gw'.pc = "call", gw'.call = gw.call + 1, gw'.op = op
    PROVE  /\ OneRequestPerCall' /\ LiveIsAwaited' /\ AskedOnce'
           /\ OfThisCall' /\ SentByThisCall' /\ AnswerIsTrue' /\ CallIsDue'
<1> DEFINE new == [op |-> op, call |-> gw'.call, turn |-> gw'.turn, live |-> TRUE]
<1>1. /\ gw.call \in Nat
      /\ \A r \in pending : r.call \in Nat /\ r.call < gw'.call
      /\ \A e \in log : e.call \in Nat /\ e.call < gw'.call
  BY CallFacts DEF CallInv, TypeInv
<1>2. \A r \in pending' : r \in pending \/ r = new
  BY DEF Send
<1>3. op # "GetErrorCause" /\ op # "none"
  BY DEF Calls, Operations, Phases
<1>4. /\ new.call = gw'.call /\ new.op = op /\ new.turn = gw'.turn
  OBVIOUS
<1> HIDE DEF new
<1>5. OneRequestPerCall'
  <2>1. \A r \in pending : r.call # new.call
    BY <1>1, <1>4
  <2> QED
    BY <1>2, <2>1 DEF CallInv, OneRequestPerCall
<1>6. LiveIsAwaited'
  <2>1. \A r \in pending : ~r.live
    BY DEF CallInv, LiveIsAwaited
  <2>2. ASSUME NEW r \in pending', r.live PROVE r = new
    BY <1>2, <2>1, <2>2
  <2> QED
    BY <1>3, <1>4, <2>2 DEF LiveIsAwaited, Waiting
<1>7. AskedOnce'
  BY <1>1, <1>2, <1>4 DEF CallInv, AskedOnce
<1>8. OfThisCall' /\ SentByThisCall'
  BY <1>1, <1>2, <1>4 DEF OfThisCall, SentByThisCall
<1>9. AnswerIsTrue' /\ CallIsDue'
  BY <1>3 DEF CallInv, AnswerIsTrue, CallIsDue, Waiting
<1> QED
  BY <1>5, <1>6, <1>7, <1>8, <1>9

\* Requests that nobody awaits any more are the same requests otherwise.
LEMMA UnawaitedIsTheSame ==
    ASSUME CallInv, NEW S \in SUBSET pending, NEW q \in Unawaited(S)
    PROVE  /\ ~q.live
           /\ \E r \in S : q.op = r.op /\ q.call = r.call /\ q.turn = r.turn
           /\ \A p \in Unawaited(S) : p.call = q.call => p = q
<1>1. \A r \in S : r \in RequestsSoFar
  BY DEF CallInv, TypeInv, TypeOK
<1>2. ASSUME NEW r \in RequestsSoFar
      PROVE  /\ ~[r EXCEPT !.live = FALSE].live
             /\ [r EXCEPT !.live = FALSE].op = r.op
             /\ [r EXCEPT !.live = FALSE].call = r.call
             /\ [r EXCEPT !.live = FALSE].turn = r.turn
  BY DEF RequestsSoFar
<1>3. PICK r \in S : q = [r EXCEPT !.live = FALSE]
  BY DEF Unawaited
<1>4. ASSUME NEW p \in Unawaited(S), p.call = q.call PROVE p = q
  <2>1. PICK o \in S : p = [o EXCEPT !.live = FALSE]
    BY DEF Unawaited
  <2>2. o.call = r.call
    BY <1>1, <1>2, <1>3, <1>4, <2>1
  <2>3. o = r
    BY <2>2 DEF CallInv, OneRequestPerCall
  <2> QED
    BY <1>3, <2>1, <2>3
<1> QED
  BY <1>1, <1>2, <1>3, <1>4

\* The present call comes to its outcome: nobody waits for an answer any more.
LEMMA CallEnds ==
    ASSUME CallInv, UNCHANGED log, reply' = "none",
           \/ pending' = Unawaited(pending)
           \/ pending' = pending /\ \A r \in pending : ~r.live,
           gw'.pc = "result", gw'.call = gw.call, gw'.op = gw.op, gw'.turn = gw.turn,
           gw'.op # "none" /\ gw'.error \in {"ok", "selfinstaller"} =>
               /\ pending' = pending /\ NothingLeft
               /\ AnsweredWith(IF gw'.error = "ok" THEN "ok" ELSE "refused")
    PROVE  /\ OneRequestPerCall' /\ LiveIsAwaited' /\ AskedOnce'
           /\ OfThisCall' /\ SentByThisCall' /\ AnswerIsTrue' /\ CallIsDue'
<1>1. \A q \in pending' :
        ~q.live /\ \E r \in pending : q.op = r.op /\ q.call = r.call /\ q.turn = r.turn
  BY UnawaitedIsTheSame
<1>2. OneRequestPerCall' /\ LiveIsAwaited'
  BY <1>1, UnawaitedIsTheSame DEF CallInv, OneRequestPerCall, LiveIsAwaited
<1>3. AskedOnce'
  BY <1>1 DEF CallInv, AskedOnce
<1>4. OfThisCall' /\ SentByThisCall'
  BY <1>1 DEF CallInv, OfThisCall, SentByThisCall
<1>5. AnswerIsTrue' /\ CallIsDue'
  BY DEF CallInv, AnswerIsTrue, CallIsDue, Waiting, NothingLeft, AnsweredWith
<1> QED
  BY <1>2, <1>3, <1>4, <1>5

\* A step of the orchestrator outside of any call.
LEMMA NoCall ==
    ASSUME CallInv, UNCHANGED <<log, reply, pending>>, ~Waiting, ~Waiting',
           gw'.call = gw.call, gw'.pc # "result",
           gw'.op # "none" => gw'.op = gw.op /\ gw'.turn = gw.turn,
           gw'.pc \in {"connect", "menu", "task"} => gw'.op = "none"
    PROVE  /\ OneRequestPerCall' /\ LiveIsAwaited' /\ AskedOnce'
           /\ OfThisCall' /\ SentByThisCall' /\ AnswerIsTrue' /\ CallIsDue'
<1>1. OneRequestPerCall' /\ AskedOnce'
  BY DEF CallInv, OneRequestPerCall, AskedOnce
<1>2. LiveIsAwaited'
  BY DEF CallInv, LiveIsAwaited
<1>3. OfThisCall' /\ SentByThisCall'
  BY DEF CallInv, OfThisCall, SentByThisCall
<1>4. AnswerIsTrue' /\ CallIsDue'
  BY DEF CallInv, AnswerIsTrue, CallIsDue, Waiting
<1> QED
  BY <1>1, <1>2, <1>3, <1>4

\* The code is not OK: its cause is asked for, with the number of the call
\* (selfupdater-proxy.cpp:100-107).
LEMMA CauseIsAsked ==
    ASSUME CallInv, gw.pc = "call", reply = "refused", reply' = "none", UNCHANGED log,
           gw' = [gw EXCEPT !.pc = "cause"], Send("GetErrorCause")
    PROVE  /\ OneRequestPerCall' /\ LiveIsAwaited' /\ AskedOnce'
           /\ OfThisCall' /\ SentByThisCall' /\ AnswerIsTrue' /\ CallIsDue'
<1> DEFINE new == [op |-> "GetErrorCause", call |-> gw'.call, turn |-> gw'.turn, live |-> TRUE]
<1>1. /\ gw'.call = gw.call /\ gw'.op = gw.op /\ gw'.turn = gw.turn /\ gw'.pc = "cause"
  BY CallFacts DEF OrchestratorStates, CallInv, TypeInv
<1>2. \A r \in pending' : r \in pending \/ r = new
  BY DEF Send
<1>3. /\ new.call = gw.call /\ new.op = "GetErrorCause" /\ new.turn = gw.turn
  BY <1>1
<1>4. NothingLeft /\ AnsweredWith("refused") /\ gw.op # "none"
  BY DEF CallInv, AnswerIsTrue, CallIsDue, Waiting
<1>5. OneRequestPerCall'
  BY <1>2, <1>3, <1>4 DEF CallInv, OneRequestPerCall, NothingLeft
<1>6. LiveIsAwaited'
  BY <1>1, <1>2, <1>3, <1>4 DEF CallInv, LiveIsAwaited, Waiting, NothingLeft
<1>7. AskedOnce'
  BY <1>2, <1>3 DEF CallInv, AskedOnce
<1>8. OfThisCall' /\ SentByThisCall'
  BY <1>1, <1>2, <1>3 DEF CallInv, OfThisCall, SentByThisCall
<1>9. AnswerIsTrue' /\ CallIsDue'
  BY <1>1, <1>4 DEF AnswerIsTrue, CallIsDue, Waiting, AnsweredWith
<1> QED
  BY <1>5, <1>6, <1>7, <1>8, <1>9

\* The self-installer is asked and answers, be it awaited or not
\* (updaterwrapper.cpp:165-241).
LEMMA Performed ==
    ASSUME CallInv, NEW r \in pending, Perform(r)
    PROVE  /\ OneRequestPerCall' /\ LiveIsAwaited' /\ AskedOnce'
           /\ OfThisCall' /\ SentByThisCall' /\ AnswerIsTrue' /\ CallIsDue'
<1>1. PICK code \in {"ok", "refused"} :
          /\ reply' = IF r.live THEN code ELSE reply
          /\ log' = IF r.op = "GetErrorCause" THEN log
                    ELSE log \cup {[op |-> r.op, call |-> r.call, turn |-> r.turn, code |-> code]}
  BY DEF Perform, CodeOf
<1> DEFINE new == [op |-> r.op, call |-> r.call, turn |-> r.turn, code |-> code]
<1>2. /\ new.op = r.op /\ new.call = r.call /\ new.turn = r.turn /\ new.code = code
  OBVIOUS
<1>3. /\ \A e \in log' : e \in log \/ (r.op # "GetErrorCause" /\ e = new)
      /\ log \subseteq log'
      /\ r.op # "GetErrorCause" => new \in log'
  BY <1>1
<1> HIDE DEF new
<1>4. gw' = gw /\ pending' = pending \ {r}
  BY DEF Perform
<1>5. \A q \in pending' : q \in pending /\ q.call # r.call
  BY <1>4 DEF CallInv, OneRequestPerCall
<1>6. OneRequestPerCall' /\ LiveIsAwaited' /\ SentByThisCall' /\ CallIsDue'
  BY <1>4, <1>5 DEF CallInv, OneRequestPerCall, LiveIsAwaited, SentByThisCall, CallIsDue, Waiting
<1>7. AskedOnce'
  BY <1>2, <1>3, <1>5 DEF CallInv, AskedOnce
<1>8. OfThisCall'
  BY <1>2, <1>3, <1>4 DEF CallInv, OfThisCall, SentByThisCall
<1>9. AnswerIsTrue'
  <2>1. NothingLeft => NothingLeft'
    BY <1>4 DEF NothingLeft
  <2>2. ASSUME NEW c, AnsweredWith(c) PROVE AnsweredWith(c)'
    BY <1>3, <1>4, <2>2 DEF AnsweredWith
  <2>3. CASE r.live
    <3>1. /\ Waiting /\ r.call = gw.call /\ reply' = code
          /\ gw.pc # "cause" => r.op # "GetErrorCause"
      BY <1>1, <2>3 DEF CallInv, LiveIsAwaited
    <3>2. NothingLeft'
      BY <1>4, <1>5, <3>1 DEF NothingLeft
    <3>3. gw.pc = "call" => AnsweredWith(code)'
      BY <1>2, <1>3, <1>4, <3>1 DEF AnsweredWith
    <3> QED
      BY <1>4, <2>2, <3>1, <3>2, <3>3 DEF CallInv, AnswerIsTrue, Waiting
  <2>4. CASE ~r.live
    <3>1. reply' = reply
      BY <1>1, <2>4
    <3> QED
      BY <1>4, <2>1, <2>2, <3>1 DEF CallInv, AnswerIsTrue, Waiting
  <2> QED
    BY <2>3, <2>4
<1> QED
  BY <1>6, <1>7, <1>8, <1>9

\* The connection or the process goes: requests are lost, or orphaned, and an answer
\* on its way may be lost with them.
LEMMA Cut ==
    ASSUME CallInv, UNCHANGED <<gw, log>>, reply' \in {"none", reply},
           NEW S \in SUBSET pending, pending' = Unawaited(S) \/ pending' = S
    PROVE  /\ OneRequestPerCall' /\ LiveIsAwaited' /\ AskedOnce'
           /\ OfThisCall' /\ SentByThisCall' /\ AnswerIsTrue' /\ CallIsDue'
<1>1. \A q \in pending' :
        \E r \in pending : /\ q.op = r.op /\ q.call = r.call /\ q.turn = r.turn
                           /\ q.live => q = r
  BY UnawaitedIsTheSame
<1>2. OneRequestPerCall'
  BY UnawaitedIsTheSame DEF CallInv, OneRequestPerCall
<1>3. LiveIsAwaited'
  BY <1>1 DEF CallInv, LiveIsAwaited, Waiting
<1>4. AskedOnce' /\ OfThisCall' /\ SentByThisCall'
  BY <1>1 DEF CallInv, AskedOnce, OfThisCall, SentByThisCall
<1>5. NothingLeft => NothingLeft'
  BY <1>1 DEF NothingLeft
<1>6. AnswerIsTrue' /\ CallIsDue'
  BY <1>5 DEF CallInv, AnswerIsTrue, CallIsDue, Waiting, AnsweredWith
<1> QED
  BY <1>2, <1>3, <1>4, <1>6

\* A step of the orchestrator keeps what is known of the calls.
LEMMA CallsOfOrchestrator ==
    ASSUME CallInv, Orchestrator
    PROVE  /\ OneRequestPerCall' /\ LiveIsAwaited' /\ AskedOnce'
           /\ OfThisCall' /\ SentByThisCall' /\ AnswerIsTrue' /\ CallIsDue'
<1> DEFINE Kept == /\ OneRequestPerCall' /\ LiveIsAwaited' /\ AskedOnce'
                   /\ OfThisCall' /\ SentByThisCall' /\ AnswerIsTrue' /\ CallIsDue'
<1> SUFFICES Kept
  OBVIOUS
<1> HIDE DEF Kept
<1>0. /\ gw \in OrchestratorStates /\ reply \in {"none", "ok", "refused"}
      /\ "GetAllSoftwareVersion" \in Calls /\ Operations \subseteq Calls
      /\ Choices \subseteq Calls
  BY CallFacts, ChoicesAssumption DEF CallInv, TypeInv, Calls
<1>1. CASE Connect \/ CallTask \/ \E op \in Choices : Choose(op)
  <2>1. PICK op \in Calls : Send(op) /\ UNCHANGED <<reply, log>>
             /\ \/ gw' = [gw EXCEPT !.pc = "call", !.op = op, !.call = @ + 1]
                \/ gw' = [gw EXCEPT !.pc = "call", !.turn = @ + 1, !.op = op, !.call = @ + 1]
    BY <1>0, <1>1 DEF Connect, CallTask, Choose, Call
  <2>2. gw'.pc = "call" /\ gw'.call = gw.call + 1 /\ gw'.op = op
    BY <1>0, <2>1 DEF OrchestratorStates
  <2>3. ~Waiting
    BY <1>1 DEF Connect, CallTask, Choose, Waiting
  <2> QED
    BY <2>1, <2>2, <2>3, NewCall DEF Kept
<1>2. CASE Return /\ reply # "ok"
  <2>1. /\ gw.pc = "call" /\ reply = "refused" /\ reply' = "none" /\ UNCHANGED log
        /\ gw' = [gw EXCEPT !.pc = "cause"] /\ Send("GetErrorCause")
    BY <1>0, <1>2 DEF Return
  <2> QED
    BY <2>1, CauseIsAsked DEF Kept
<1>3. ASSUME NEW error, gw' = [gw EXCEPT !.pc = "result", !.error = error]
      PROVE  /\ gw'.pc = "result" /\ gw'.call = gw.call /\ gw'.op = gw.op
             /\ gw'.turn = gw.turn /\ gw'.error = error
  BY <1>0, <1>3 DEF OrchestratorStates
<1>4. CASE Return /\ reply = "ok"
  <2>1. /\ gw' = [gw EXCEPT !.pc = "result", !.error = "ok"]
        /\ reply' = "none" /\ UNCHANGED <<log, pending>> /\ gw.pc = "call"
    BY <1>4 DEF Return, Result
  <2>2. NothingLeft /\ AnsweredWith("ok")
    BY <1>4, <2>1 DEF CallInv, AnswerIsTrue
  <2>3. \A r \in pending : ~r.live
    BY <2>2 DEF CallInv, LiveIsAwaited, NothingLeft
  <2>4. /\ gw'.pc = "result" /\ gw'.call = gw.call /\ gw'.op = gw.op
        /\ gw'.turn = gw.turn /\ gw'.error = "ok"
    BY <1>3, <2>1
  <2> QED
    BY <2>1, <2>2, <2>3, <2>4, CallEnds DEF Kept
<1>5. CASE ReturnCause
  <2>1. /\ gw' = [gw EXCEPT !.pc = "result", !.error = "selfinstaller"]
        /\ reply' = "none" /\ UNCHANGED <<log, pending>> /\ gw.pc = "cause" /\ reply # "none"
    BY <1>5 DEF ReturnCause, Result
  <2>2. NothingLeft /\ AnsweredWith("refused")
    BY <2>1 DEF CallInv, AnswerIsTrue
  <2>3. \A r \in pending : ~r.live
    BY <2>2 DEF CallInv, LiveIsAwaited, NothingLeft
  <2>4. /\ gw'.pc = "result" /\ gw'.call = gw.call /\ gw'.op = gw.op
        /\ gw'.turn = gw.turn /\ gw'.error = "selfinstaller"
    BY <1>3, <2>1
  <2> QED
    BY <2>1, <2>2, <2>3, <2>4, CallEnds DEF Kept
<1>6. CASE Throw
  <2>1. /\ gw' = [gw EXCEPT !.pc = "result", !.error = "rpc"]
        /\ reply' = "none" /\ UNCHANGED log /\ pending' = Unawaited(pending)
    BY <1>6 DEF Throw, Result
  <2>2. /\ gw'.pc = "result" /\ gw'.call = gw.call /\ gw'.op = gw.op
        /\ gw'.turn = gw.turn /\ gw'.error = "rpc"
    BY <1>3, <2>1
  <2>3. gw'.op # "none" /\ gw'.error \in {"ok", "selfinstaller"} =>
            /\ pending' = pending /\ NothingLeft
            /\ AnsweredWith(IF gw'.error = "ok" THEN "ok" ELSE "refused")
    BY <2>2
  <2> QED
    BY <2>1, <2>2, <2>3, CallEnds DEF Kept
<1>7. CASE PassOver
  <2>1. PICK error : /\ gw' = [gw EXCEPT !.pc = "result", !.error = error]
                     /\ reply' = "none" /\ UNCHANGED <<log, pending>> /\ gw.pc = "task"
    BY <1>7 DEF PassOver, Result
  <2>2. /\ gw'.pc = "result" /\ gw'.call = gw.call /\ gw'.op = gw.op /\ gw'.turn = gw.turn
    BY <1>3, <2>1
  <2>3. gw.op = "none" /\ \A r \in pending : ~r.live
    BY <2>1 DEF CallInv, CallIsDue, LiveIsAwaited, Waiting
  <2> QED
    BY <2>1, <2>2, <2>3, CallEnds DEF Kept
<1>8. CASE TryAgain \/ GiveUpConnecting \/ Leave
  <2>1. /\ UNCHANGED <<log, reply, pending>> /\ gw.pc \in {"connect", "menu"}
        /\ \/ \E tries : gw' = [gw EXCEPT !.tries = tries] /\ gw.pc = "connect"
           \/ \E pc \in {"exit", "abort"} : gw' = [gw EXCEPT !.pc = pc]
    BY <1>8 DEF TryAgain, Attempt, GiveUpConnecting, Leave, remote
  <2>2. /\ gw'.call = gw.call /\ gw'.op = gw.op /\ gw'.turn = gw.turn
        /\ gw'.pc \in {"connect", "exit", "abort"} /\ gw.op = "none"
    BY <1>0, <2>1 DEF OrchestratorStates, CallInv, CallIsDue
  <2> QED
    BY <2>1, <2>2, NoCall DEF Kept, Waiting
<1>9. CASE RunScript
  <2>1. /\ UNCHANGED <<log, reply, pending>> /\ gw.pc = "menu"
        /\ gw' = [gw EXCEPT !.pc = "task", !.turn = gw.turn + 1, !.task = 1]
    BY <1>9 DEF RunScript, remote
  <2>2. /\ gw'.call = gw.call /\ gw'.op = gw.op /\ gw'.pc = "task"
    BY <1>0, <2>1 DEF OrchestratorStates
  <2>3. gw.op = "none"
    BY <2>1 DEF CallInv, CallIsDue
  <2> QED
    BY <2>1, <2>2, <2>3, NoCall DEF Kept, Waiting
<1>10. CASE GoOn
  <2>1. /\ UNCHANGED <<log, reply, pending>> /\ gw.pc = "result"
    BY <1>10 DEF GoOn, remote
  <2>2. /\ gw'.call = gw.call /\ gw'.turn = gw.turn
        /\ \/ gw'.op = "none" /\ gw'.pc \in {"menu", "task"}
           \/ gw'.op = gw.op /\ gw'.pc = "exit"
    <3>1. CASE gw' = [gw EXCEPT !.pc = "exit"]
      BY <1>0, <3>1 DEF OrchestratorStates
    <3>2. CASE gw' = NextTask
      BY <1>0, <3>2 DEF OrchestratorStates, NextTask
    <3>3. CASE gw' = BackToMenu
      BY <1>0, <3>3 DEF OrchestratorStates, BackToMenu
    <3>4. CASE gw' = [BackToMenu EXCEPT !.proxy = TRUE]
      BY <1>0, <3>4 DEF OrchestratorStates, BackToMenu
    <3> QED
      BY <1>10, <3>1, <3>2, <3>3, <3>4, GoOnWays
  <2> QED
    BY <2>1, <2>2, NoCall DEF Kept, Waiting
<1> QED
  BY <1>1, <1>2, <1>4, <1>5, <1>6, <1>7, <1>8, <1>9, <1>10 DEF Orchestrator

\* The orchestrator is at the task its call is of.
LEMMA TaskOfOrchestrator ==
    ASSUME CallInv, Orchestrator
    PROVE  TaskIsDue'
<1>0. gw \in OrchestratorStates /\ TaskIsDue /\ CallIsDue
  BY CallFacts DEF CallInv, TypeInv
<1>1. CASE Connect \/ \E op \in Choices : Choose(op)
  <2>1. gw.task = 0
    BY <1>0, <1>1 DEF TaskIsDue, Connect, Choose
  <2>2. gw'.task = gw.task /\ gw'.pc = "call"
    BY <1>0, <1>1 DEF OrchestratorStates, Connect, Choose, Call
  <2> QED
    BY <2>1, <2>2 DEF TaskIsDue
<1>2. CASE TryAgain \/ GiveUpConnecting \/ Leave
  BY <1>0, <1>2 DEF OrchestratorStates, TaskIsDue, TryAgain, Attempt, GiveUpConnecting, Leave
<1>3. CASE Return \/ ReturnCause \/ Throw
  <2>1. /\ Waiting /\ gw'.pc \in {"cause", "result"}
        /\ gw'.op = gw.op /\ gw'.task = gw.task
    BY <1>0, <1>3 DEF OrchestratorStates, Return, ReturnCause, Throw, Result, Waiting
  <2> QED
    BY <1>0, <2>1 DEF TaskIsDue, Waiting
<1>4. CASE RunScript
  BY <1>0, <1>4 DEF OrchestratorStates, TaskIsDue, RunScript
<1>5. CASE CallTask
  <2>1. /\ gw'.pc = "call" /\ gw'.op = Script[gw.task] /\ gw'.task = gw.task
        /\ Script[gw.task] # "none"
    BY <1>0, <1>5 DEF OrchestratorStates, CallTask, Call, Operations, Phases
  <2> QED
    BY <2>1 DEF TaskIsDue
<1>6. CASE PassOver
  <2>1. gw'.pc = "result" /\ gw'.op = "none" /\ gw'.task = gw.task
    BY <1>0, <1>6 DEF OrchestratorStates, PassOver, Result, CallIsDue
  <2> QED
    BY <1>6, <2>1 DEF TaskIsDue, PassOver
<1>7. CASE GoOn
  <2>0. gw.task \in Nat
    BY <1>0 DEF OrchestratorStates
  <2>1. CASE gw' = [gw EXCEPT !.pc = "exit"]
    BY <1>0, <2>1 DEF OrchestratorStates, TaskIsDue
  <2>2. CASE gw' = NextTask
    BY <1>0, <2>0, <2>2 DEF OrchestratorStates, NextTask, TaskIsDue
  <2>3. CASE gw' = BackToMenu \/ gw' = [BackToMenu EXCEPT !.proxy = TRUE]
    BY <1>0, <2>3 DEF OrchestratorStates, BackToMenu, TaskIsDue
  <2> QED
    BY <1>7, <2>1, <2>2, <2>3, GoOnWays
<1> QED
  BY <1>1, <1>2, <1>3, <1>4, <1>5, <1>6, <1>7 DEF Orchestrator

\* What is known of the calls holds at the start of every session and is kept by each
\* of its steps.
LEMMA CallInvHolds == Spec => []CallInv
<1>1. Init => CallInv
  <2> SUFFICES ASSUME Init PROVE CallInv
    OBVIOUS
  <2>1. TypeInv
    BY TypeInit, NothingCalledYet DEF TypeInv, CallIsNumbered
  <2>2. /\ pending = {} /\ log = {} /\ reply = "none"
        /\ gw.pc \in {"connect", "exit"} /\ gw.op = "none" /\ gw.task = 0
    BY NothingCalledYet DEF Init
  <2> QED
    BY <2>1, <2>2
       DEF CallInv, OneRequestPerCall, LiveIsAwaited, AskedOnce, OfThisCall, SentByThisCall,
           AnswerIsTrue, CallIsDue, TaskIsDue, Waiting
<1>2. CallInv /\ [Next]_vars => CallInv'
  <2> SUFFICES ASSUME CallInv, [Next]_vars PROVE CallInv'
    OBVIOUS
  <2> USE DEF installer, remote
  <2>0. TypeInv'
    BY TypeNext DEF CallInv
  <2>1. CASE Orchestrator
    BY <2>0, <2>1, CallsOfOrchestrator, TaskOfOrchestrator DEF CallInv
  <2>2. ASSUME NEW r \in pending, Perform(r) PROVE CallInv'
    <3>1. TaskIsDue'
      BY <2>2 DEF CallInv, TaskIsDue, Perform
    <3> QED
      BY <2>0, <2>2, <3>1, Performed DEF CallInv
  <2>3. CASE /\ UNCHANGED <<gw, log>> /\ reply' \in {"none", reply}
             /\ \E S \in SUBSET pending : pending' = S \/ pending' = Unawaited(S)
    <3>1. TaskIsDue'
      BY <2>3 DEF CallInv, TaskIsDue
    <3> QED
      BY <2>0, <2>3, <3>1, Cut DEF CallInv
  <2>4. CASE Start \/ Serve \/ Reconnect \/ Notify \/ UNCHANGED vars
    BY <2>3, <2>4 DEF Start, Serve, Reconnect, Notify, vars
  <2>5. ASSUME NEW t \in threads, Work(t) \/ ReportStatus(t) PROVE CallInv'
    BY <2>3, <2>5 DEF Work, ReportStatus
  <2>6. CASE DistributeResult \/ Deinit \/ Killed
    BY <2>3, <2>6 DEF DistributeResult, Deinit, Killed, EndBox
  <2>7. CASE Disconnect
    BY <2>3, <2>7 DEF Disconnect
  <2> QED
    BY <2>1, <2>2, <2>4, <2>5, <2>6, <2>7 DEF Next, Box
<1> QED
  BY <1>1, <1>2, PTL DEF Spec

\* What the orchestrator is told of a call is so: OK, that the self-installer has
\* accepted it, and an error of the self-installer, that it has refused it
\* (selfupdater-proxy.cpp:93-222).
THEOREM ErrorsAreHonestAlways == Spec => []ErrorsAreHonest
<1>1. CallInv => ErrorsAreHonest
  <2> SUFFICES ASSUME CallInv, gw.pc = "result", gw.op # "none",
                      gw.error \in {"ok", "selfinstaller"}
               PROVE  {entry.code : entry \in {e \in log : e.call = gw.call}} =
                          {IF gw.error = "ok" THEN "ok" ELSE "refused"}
    BY DEF ErrorsAreHonest
  <2>1. PICK e \in log : e.call = gw.call /\ e.code = IF gw.error = "ok" THEN "ok" ELSE "refused"
    BY DEF CallInv, AnswerIsTrue, AnsweredWith
  <2>2. \A f \in log : f.call = gw.call => f = e
    BY <2>1 DEF CallInv, AskedOnce
  <2> QED
    BY <2>1, <2>2
<1> QED
  BY <1>1, CallInvHolds, PTL

\* A call that was answered leaves no request behind that could be performed later
\* (selfupdater-proxy.cpp:93-115).
THEOREM AnsweredIsOverAlways == Spec => []AnsweredIsOver
<1>1. CallInv => AnsweredIsOver
  BY DEF CallInv, AnswerIsTrue, NothingLeft, AnsweredIsOver
<1> QED
  BY <1>1, CallInvHolds, PTL

-----------------------------------------------------------------------------
\* What the self-installer has answered is never taken back.
LEMMA LogGrows == [Next]_vars => log \subseteq log'
BY DEF Next, vars, remote, Orchestrator, Connect, Call, TryAgain, Attempt,
       GiveUpConnecting, Return, ReturnCause, Throw, Result, RunScript, Choose, Leave,
       CallTask, PassOver, GoOn, Box, Start, Serve, Perform, Work, ReportStatus,
       DistributeResult, Deinit, Killed, EndBox, Disconnect, Reconnect, Notify

\* The script goes on to a task after all before it were accepted
\* (orch-simulator.cpp:248-272).
LEMMA ScriptGoesOn ==
    ASSUME CallInv, ScriptSoFar, Orchestrator, log \subseteq log'
    PROVE  ScriptSoFar'
<1>0. gw \in OrchestratorStates /\ TaskIsDue /\ gw.task \in Nat
  BY CallFacts DEF CallInv, TypeInv, OrchestratorStates
<1>1. \A op, turn : Finished(op, turn) => Finished(op, turn)'
  BY DEF Finished
<1>2. CASE gw'.task = 0 \/ gw'.task = 1
  BY <1>2 DEF ScriptSoFar
<1>3. CASE /\ gw'.task = gw.task /\ gw'.turn = gw.turn
           /\ gw.pc \in {"task", "call", "cause", "result"}
  BY <1>1, <1>3 DEF ScriptSoFar
<1>4. CASE gw'.pc \notin {"task", "call", "cause", "result"}
  BY <1>4 DEF ScriptSoFar
<1>5. CASE Connect \/ \E op \in Choices : Choose(op)
  <2>1. gw.task = 0
    BY <1>0, <1>5 DEF TaskIsDue, Connect, Choose
  <2>2. gw'.task = gw.task
    BY <1>0, <1>5 DEF OrchestratorStates, Connect, Choose, Call
  <2> QED
    BY <1>2, <2>1, <2>2
<1>6. CASE TryAgain \/ GiveUpConnecting \/ Leave
  <2>1. gw'.pc \in {"connect", "exit", "abort"}
    BY <1>0, <1>6 DEF OrchestratorStates, TryAgain, Attempt, GiveUpConnecting, Leave
  <2> QED
    BY <1>4, <2>1
<1>7. CASE RunScript
  <2>1. gw'.task = 1
    BY <1>0, <1>7 DEF OrchestratorStates, RunScript
  <2> QED
    BY <1>2, <2>1
<1>8. CASE CallTask \/ PassOver \/ Return \/ ReturnCause \/ Throw
  <2>1. /\ gw'.task = gw.task /\ gw'.turn = gw.turn
        /\ gw.pc \in {"task", "call", "cause"}
    BY <1>0, <1>8 DEF OrchestratorStates, CallTask, Call, PassOver, Return, ReturnCause,
                      Throw, Result, Waiting
  <2> QED
    BY <1>3, <2>1
<1>9. CASE GoOn
  <2>1. CASE gw' = [gw EXCEPT !.pc = "exit"]
    BY <1>0, <1>4, <2>1 DEF OrchestratorStates
  <2>2. CASE gw' = BackToMenu \/ gw' = [BackToMenu EXCEPT !.proxy = TRUE]
    BY <1>0, <1>2, <2>2 DEF OrchestratorStates, BackToMenu
  <2>3. CASE gw' = NextTask /\ gw.error = "ok" /\ gw.task > 0
    <3>1. gw'.task = gw.task + 1 /\ gw'.turn = gw.turn /\ gw.pc = "result"
      BY <1>0, <1>9, <2>3 DEF OrchestratorStates, NextTask, GoOn
    <3>2. ASSUME Script[gw.task] \in Operations PROVE Finished(Script[gw.task], gw.turn)
      <4>1. gw.op = Script[gw.task] /\ gw.op # "none"
        BY <1>0, <2>3, <3>1, <3>2 DEF TaskIsDue, Operations, Phases
      <4>2. AnsweredWith("ok")
        BY <2>3, <3>1, <4>1 DEF CallInv, AnswerIsTrue
      <4> QED
        BY <4>1, <4>2 DEF CallInv, OfThisCall, AnsweredWith, Finished
    <3>3. ASSUME NEW j \in 1..Len(Script), j < gw'.task, Script[j] \in Operations
          PROVE  Finished(Script[j], gw.turn)'
      <4>1. j < gw.task \/ j = gw.task
        BY <1>0, <3>1, <3>3, ScriptAssumption
      <4>2. Finished(Script[j], gw.turn)
        BY <3>1, <3>2, <3>3, <4>1 DEF ScriptSoFar
      <4> QED
        BY <3>1, <4>2 DEF Finished
    <3> QED
      BY <3>3 DEF ScriptSoFar
  <2> QED
    BY <1>9, <2>1, <2>2, <2>3, GoOnWays
<1> QED
  BY <1>5, <1>6, <1>7, <1>8, <1>9 DEF Orchestrator

\* A request or an answer of a phase has the one before it accepted.
LEMMA FollowersFollow ==
    ASSUME OrderedScript, CallInv, ScriptInv, [Next]_vars
    PROVE  FollowsItsPhase'
<1>0. log \subseteq log' /\ gw \in OrchestratorStates
  BY LogGrows, CallFacts DEF CallInv, TypeInv
<1>1. \A op, turn : Finished(op, turn) => Finished(op, turn)'
  BY <1>0 DEF Finished
<1> DEFINE Follows(r) == r.op \in {"Upgrade", "Finalize"} => Finished(Before(r.op), r.turn)
<1>2. \A r \in pending \cup log : Follows(r)
  BY DEF ScriptInv, FollowsItsPhase
<1>3. SUFFICES \A q \in pending' \cup log' :
                  \/ q.op \notin {"Upgrade", "Finalize"}
                  \/ \E r \in pending \cup log : q.op = r.op /\ q.turn = r.turn
                  \/ Finished(Before(q.op), q.turn)
  BY <1>1, <1>2 DEF FollowsItsPhase
<1>4. CASE UNCHANGED <<pending, log>>
  BY <1>4
<1>5. ASSUME NEW op, Send(op), UNCHANGED log,
             op \in {"Upgrade", "Finalize"} => Finished(Before(op), gw'.turn)
      PROVE  \A q \in pending' \cup log' :
                  \/ q.op \notin {"Upgrade", "Finalize"}
                  \/ \E r \in pending \cup log : q.op = r.op /\ q.turn = r.turn
                  \/ Finished(Before(q.op), q.turn)
  <2> DEFINE new == [op |-> op, call |-> gw'.call, turn |-> gw'.turn, live |-> TRUE]
  <2>1. new.op = op /\ new.turn = gw'.turn
    OBVIOUS
  <2>2. \A q \in pending' : q \in pending \/ q = new
    BY <1>5 DEF Send
  <2> HIDE DEF new
  <2> QED
    BY <1>5, <2>1, <2>2
<1>6. CASE Connect
  BY <1>5, <1>6 DEF Connect, Call
<1>7. ASSUME NEW op \in Choices, Choose(op)
      PROVE  \A q \in pending' \cup log' :
                  \/ q.op \notin {"Upgrade", "Finalize"}
                  \/ \E r \in pending \cup log : q.op = r.op /\ q.turn = r.turn
                  \/ Finished(Before(q.op), q.turn)
  BY <1>5, <1>7, ChoicesAssumption DEF Choose, Operations, Phases
<1>8. CASE CallTask
  <2> DEFINE op == Script[gw.task]
  <2>1. /\ gw.pc = "task" /\ op \in Operations /\ Send(op) /\ UNCHANGED log
        /\ gw'.turn = gw.turn
    BY <1>0, <1>8 DEF CallTask, Call, OrchestratorStates
  <2>2. gw.task \in 1..Len(Script)
    BY <1>0, <2>1, ScriptAssumption DEF CallInv, TaskIsDue, OrchestratorStates
  <2>3. ASSUME op \in {"Upgrade", "Finalize"} PROVE Finished(Before(op), gw'.turn)
    <3>1. PICK j \in 1..Len(Script) : j < gw.task /\ Script[j] = Before(op)
      BY <2>2, <2>3 DEF OrderedScript
    <3>2. Before(op) \in Operations
      BY <2>3 DEF Before, Operations, Phases
    <3> QED
      BY <2>1, <3>1, <3>2 DEF ScriptInv, ScriptSoFar
  <2> QED
    BY <1>5, <2>1, <2>3
<1>9. CASE Return
  BY <1>4, <1>5, <1>9 DEF Return, Result
<1>10. CASE ReturnCause \/ TryAgain \/ GiveUpConnecting \/ RunScript \/ Leave \/ PassOver \/ GoOn
  BY <1>4, <1>10 DEF ReturnCause, Result, TryAgain, Attempt, GiveUpConnecting, RunScript,
                     Leave, PassOver, GoOn, remote
<1>11. ASSUME NEW S \in SUBSET pending, UNCHANGED log,
              pending' = S \/ pending' = Unawaited(S)
       PROVE  \A q \in pending' \cup log' :
                  \/ q.op \notin {"Upgrade", "Finalize"}
                  \/ \E r \in pending \cup log : q.op = r.op /\ q.turn = r.turn
                  \/ Finished(Before(q.op), q.turn)
  BY <1>11, UnawaitedIsTheSame
<1>12. CASE Throw \/ Disconnect \/ Deinit \/ Killed
  BY <1>11, <1>12 DEF Throw, Disconnect, Deinit, Killed, EndBox
<1>13. ASSUME NEW r \in pending, Perform(r)
       PROVE  \A q \in pending' \cup log' :
                  \/ q.op \notin {"Upgrade", "Finalize"}
                  \/ \E p \in pending \cup log : q.op = p.op /\ q.turn = p.turn
                  \/ Finished(Before(q.op), q.turn)
  <2>1. \A q \in pending' \cup log' :
            q \in pending \cup log \/ (q.op = r.op /\ q.turn = r.turn)
    BY <1>13 DEF Perform
  <2> QED
    BY <2>1
<1>14. CASE \/ Start \/ Serve \/ DistributeResult \/ Reconnect \/ Notify
            \/ \E t \in threads : Work(t) \/ ReportStatus(t)
  BY <1>4, <1>14 DEF Start, Serve, DistributeResult, Reconnect, Notify, Work, ReportStatus, remote
<1>15. CASE UNCHANGED vars
  BY <1>4, <1>15 DEF vars, remote
<1> QED
  BY <1>6, <1>7, <1>8, <1>9, <1>10, <1>12, <1>13, <1>14, <1>15 DEF Next, Orchestrator, Box

\* A run of a script that has its phases in order asks for an upgrade, or a finalization,
\* only when it has had a preparation, or an upgrade, accepted, whatever is passed over,
\* late or lost (orch-simulator.cpp:244-273).
THEOREM PhasesInOrderAlways ==
    OrderedScript => (Spec => []PhasesInOrder)
<1> SUFFICES ASSUME OrderedScript PROVE Spec => []PhasesInOrder
  OBVIOUS
<1>1. Init => ScriptInv
  BY DEF Init, ScriptInv, ScriptSoFar, FollowsItsPhase
<1>2. CallInv /\ ScriptInv /\ [Next]_vars => ScriptInv'
  <2> SUFFICES ASSUME CallInv, ScriptInv, [Next]_vars PROVE ScriptInv'
    OBVIOUS
  <2>1. FollowsItsPhase'
    BY FollowersFollow
  <2>2. CASE Orchestrator
    BY <2>1, <2>2, LogGrows, ScriptGoesOn DEF ScriptInv
  <2>3. CASE UNCHANGED gw
    BY <2>1, <2>3, LogGrows DEF ScriptInv, ScriptSoFar, Finished
  <2>4. CASE Box \/ Disconnect \/ Reconnect \/ Notify \/ UNCHANGED vars
    BY <2>3, <2>4 DEF Box, Start, Serve, Perform, Work, ReportStatus, DistributeResult,
                      Deinit, Killed, EndBox, Disconnect, Reconnect, Notify, vars
  <2> QED
    BY <2>2, <2>4 DEF Next
<1>3. ScriptInv => PhasesInOrder
  BY DEF ScriptInv, FollowsItsPhase, Finished, PhasesInOrder
<1> QED
  BY <1>1, <1>2, <1>3, CallInvHolds, PTL DEF Spec

-----------------------------------------------------------------------------
\* Once a phase has been accepted it stays so, and so does what it has earned.
LEMMA EarnedForGood ==
    ASSUME log \subseteq log'
    PROVE  /\ \A op : Accepted(op) => Accepted(op)'
           /\ \A what : Earned(what) => Earned(what)'
BY DEF Accepted, Earned

\* What arrives of the news was among it (updaterwrapper.cpp:137-160).
LEMMA NewsEarned ==
    ASSUME NEW s \in Seq(News), NEW n \in 0..Len(s), \A i \in 1..Len(s) : Earned(s[i])
    PROVE  \A i \in 1..Len(SubSeq(s, 1, n)) : Earned(SubSeq(s, 1, n)[i])
<1>1. \A i \in 1..Len(SubSeq(s, 1, n)) : i \in 1..Len(s) /\ SubSeq(s, 1, n)[i] = s[i]
  OBVIOUS
<1> QED
  BY <1>1

\* And so is what a publication adds to it.
LEMMA OneMoreEarned ==
    ASSUME NEW s \in Seq(News), NEW what \in News, Earned(what),
           \A i \in 1..Len(s) : Earned(s[i])
    PROVE  /\ Append(s, what) \in Seq(News)
           /\ \A i \in 1..Len(Append(s, what)) : Earned(Append(s, what)[i])
<1>1. \A i \in 1..Len(Append(s, what)) :
          \/ i \in 1..Len(s) /\ Append(s, what)[i] = s[i]
          \/ Append(s, what)[i] = what
  OBVIOUS
<1> QED
  BY <1>1

\* The threads of a box, and what it has published, speak of accepted phases only.
LEMMA NewsInvNext == TypeOK /\ NewsInv /\ [Next]_vars => NewsInv'
<1> SUFFICES ASSUME TypeOK, NewsInv, [Next]_vars PROVE NewsInv'
  OBVIOUS
<1>0. /\ news \in Seq(News) /\ state \in UpdateStates /\ threads \subseteq ThreadsSoFar
      /\ log \subseteq log'
  BY LogGrows DEF TypeOK
<1>1. /\ \A op : Accepted(op) => Accepted(op)'
      /\ \A what : Earned(what) => Earned(what)'
  BY <1>0, EarnedForGood
<1>2. Earned("IDLE") /\ Earned("Exit") /\ Earned("DistributeResult")
      /\ "Exit" \in News /\ "DistributeResult" \in News /\ UpdateStates \subseteq News
  BY DEF Earned, News
<1>3. ASSUME \A t \in threads' : Accepted(t.op) /\ Earned(t.said), Earned(state'),
             \A i \in 1..Len(news') : Earned(news'[i])
      PROVE  NewsInv'
  <2>1. \A t \in threads' : Accepted(t.op)' /\ Earned(t.said)'
    BY <1>1, <1>3
  <2>2. \A i \in 1..Len(news') : Earned(news[i])'
    BY <1>1, <1>3 DEF Earned, Accepted
  <2>3. Earned(state)'
    BY <1>1, <1>3 DEF Earned, Accepted
  <2> QED
    BY <2>1, <2>2, <2>3 DEF NewsInv
<1>4. CASE UNCHANGED <<threads, state, news>>
  BY <1>3, <1>4 DEF NewsInv
<1>5. ASSUME NEW r \in pending, Perform(r) PROVE NewsInv'
  <2>1. UNCHANGED <<state, news>>
    BY <1>5 DEF Perform
  <2>2. ASSUME NEW t \in threads', t \notin threads PROVE Accepted(t.op)' /\ Earned(t.said)'
    <3>1. PICK code \in CodeOf(r.op) :
            /\ log' = IF r.op = "GetErrorCause" THEN log
                      ELSE log \cup {[op |-> r.op, call |-> r.call, turn |-> r.turn, code |-> code]}
            /\ threads' = IF code = "ok" THEN Begun(r.op, r.call) ELSE threads
      BY <1>5 DEF Perform
    <3>2. t.op = r.op /\ r.op # "GetErrorCause" /\ code = "ok" /\ t.said = "nothing"
      BY <2>2, <3>1 DEF Begun, Thread, Phases
    <3>3. [op |-> r.op, call |-> r.call, turn |-> r.turn, code |-> "ok"] \in log'
      BY <3>1, <3>2
    <3> QED
      BY <3>2, <3>3 DEF Accepted, Earned
  <2>3. \A t \in threads' : Accepted(t.op)' /\ Earned(t.said)'
    BY <1>1, <2>2 DEF NewsInv
  <2> QED
    BY <1>1, <2>1, <2>3 DEF NewsInv, Earned, Accepted
<1>6. ASSUME NEW t \in threads, Work(t) PROVE NewsInv'
  <2>1. Earned(state')
    BY <1>6 DEF Work, StoreState, ReadState, DoneState, Earned, NewsInv, Phases
  <2>2. \A u \in threads' : Accepted(u.op) /\ Earned(u.said)
    <3>1. /\ [t EXCEPT !.stored = TRUE].op = t.op
          /\ [t EXCEPT !.stored = TRUE].said = t.said
          /\ [t EXCEPT !.said = state].op = t.op
          /\ [t EXCEPT !.said = state].said = state
      BY <1>0 DEF ThreadsSoFar
    <3> QED
      BY <1>6, <3>1 DEF Work, StoreState, ReadState, NewsInv
  <2> QED
    BY <1>3, <1>6, <2>1, <2>2 DEF Work, NewsInv
<1>7. ASSUME NEW what \in News, Earned(what), Publish(what)
      PROVE  \A i \in 1..Len(news') : Earned(news'[i])
  BY <1>0, <1>7, OneMoreEarned DEF Publish, NewsInv
<1>8. ASSUME NEW t \in threads, ReportStatus(t) PROVE NewsInv'
  <2>1. \A u \in threads' : Accepted(u.op) /\ Earned(u.said)
    <3>1. \A u \in Reported(t) : u \in threads \/ (u.op = t.op /\ u.said = "nothing")
      BY <1>0 DEF Reported, ThreadsSoFar
    <3>2. Earned("nothing")
      BY DEF Earned
    <3> QED
      BY <1>8, <3>1, <3>2 DEF ReportStatus, NewsInv
  <2>2. \A i \in 1..Len(news') : Earned(news'[i])
    <3>1. t.said \in UpdateStates /\ Earned(t.said)
      BY <1>0, <1>8 DEF ReportStatus, ThreadsSoFar, NewsInv
    <3> QED
      BY <1>2, <1>7, <1>8, <3>1 DEF ReportStatus
  <2> QED
    BY <1>3, <1>8, <2>1, <2>2 DEF ReportStatus, NewsInv
<1>9. CASE DistributeResult
  BY <1>2, <1>3, <1>7, <1>9 DEF DistributeResult, installer, NewsInv
<1>10. ASSUME NEW sent \in Seq(News), EndBox(sent), \A i \in 1..Len(sent) : Earned(sent[i])
       PROVE  NewsInv'
  <2>1. \A i \in 1..Len(news') : Earned(news'[i])
    BY <1>10, NewsEarned DEF EndBox
  <2>2. threads' = {} /\ state' = "IDLE"
    BY <1>10 DEF EndBox, InstallerRestarts
  <2> QED
    BY <1>2, <1>3, <2>1, <2>2
<1>11. CASE Deinit \/ Killed
  <2>1. \A i \in 1..Len(news) : Earned(news[i])
    BY DEF NewsInv
  <2>2. Append(news, "Exit") \in Seq(News)
        /\ \A i \in 1..Len(Append(news, "Exit")) : Earned(Append(news, "Exit")[i])
    BY <1>0, <1>2, <2>1, OneMoreEarned
  <2> QED
    BY <1>0, <1>10, <1>11, <2>1, <2>2 DEF Deinit, Killed
<1>12. CASE Disconnect
  BY <1>3, <1>12 DEF Disconnect, installer, NewsInv
<1>13. CASE Notify
  <2>1. news # <<>> /\ news' = Tail(news)
    BY <1>13 DEF Notify
  <2>2. \A i \in 1..Len(news') : i + 1 \in 1..Len(news) /\ news'[i] = news[i + 1]
    BY <1>0, <2>1
  <2> QED
    BY <1>3, <1>13, <2>2 DEF Notify, installer, NewsInv
<1>14. CASE Orchestrator \/ Start \/ Serve \/ Reconnect \/ UNCHANGED vars
  BY <1>4, <1>14 DEF Orchestrator, Connect, Call, TryAgain, Attempt, GiveUpConnecting,
                     Return, ReturnCause, Throw, Result, RunScript, Choose, Leave,
                     CallTask, PassOver, GoOn, Start, Serve, Reconnect, installer,
                     remote, vars
<1> QED
  BY <1>5, <1>6, <1>8, <1>9, <1>11, <1>12, <1>13, <1>14 DEF Next, Box

\* A box never publishes that a phase is done which it has not accepted
\* (mock_selfinstaller.cpp:76-102).
THEOREM NewsIsTrueAlways == Spec => []NewsIsTrue
<1>1. Init => NewsInv
  BY DEF Init, InstallerInit, NewsInv, Earned
<1>2. NewsInv => NewsIsTrue
  BY DEF NewsInv, Earned, Accepted, NewsIsTrue
<1>3. TypeInv => TypeOK
  BY DEF TypeInv
<1> QED
  BY <1>1, <1>2, <1>3, TypeInvHolds, NewsInvNext, PTL DEF Spec

-----------------------------------------------------------------------------
\* No two boxes of the table have the same address: the lookup of the address of a box
\* finds that box, if its address is defined and the boxes are not all on one host
\* (hh_helper.cpp:14-95, 119-137).
LEMMA AddressNamesItsBox ==
    ASSUME ~PC_SIMULATION, NEW n \in Nodes, NodeToIp(n) # 0
    PROVE  IpToNode(NodeToIp(n)) = n
<1> DEFINE i == NodeToInt(n) + 1
<1>1. i \in Entries /\ ECUNames[i] = n /\ NodeToIp(n) = Addresses[i]
  BY LookupsFind DEF NodeToIp, IpOf
<1> HIDE DEF i
<1>2. Entries = 1..12
  BY DEF Entries, ECUNames
<1>3. ASSUME NEW j \in 1..12, NEW k \in 1..12, Addresses[j] = Addresses[k], Addresses[j] # 0
      PROVE  j = k
  <2>1. /\ j \in {1, 2, 3, 4, 5, 6, 7, 8, 9, 10, 11, 12}
        /\ k \in {1, 2, 3, 4, 5, 6, 7, 8, 9, 10, 11, 12}
    OBVIOUS
  <2> QED
    BY <1>3, <2>1, SMTT(60) DEF Addresses
<1> DEFINE T == {k \in Entries : IpOf(k) = NodeToIp(n)}
<1>4. \A k \in T : k = i
  BY <1>1, <1>2, <1>3 DEF IpOf
<1>5. i \in T /\ T \subseteq Nat
  BY <1>1, <1>2 DEF IpOf
<1>6. First(T) = i
  BY <1>4, <1>5, FirstIsIn
<1> QED
  BY <1>1, <1>6 DEF IpToNode

\* Nothing comes from a box without an address, to which nothing can be connected, and
\* what has come was told of this box.
NamesInv ==
    /\ gw.pc \in {"connect", "exit", "abort"} \/ NodeToIp(node) # 0
    /\ online \/ news # <<>> => NodeToIp(node) # 0
    /\ notified \in {"none", node}

\* Every step of the session keeps that (selfupdater-proxy.cpp:14-71).
LEMMA NamesInvNext ==
    ASSUME ~PC_SIMULATION, TypeOK, NamesInv, [Next]_vars
    PROVE  NamesInv'
<1>0. gw \in OrchestratorStates /\ news \in Seq(News) /\ node \in Nodes
  BY DEF TypeOK
<1>1. ASSUME UNCHANGED <<node, notified>>,
             \/ gw'.pc = gw.pc \/ gw'.pc \in {"exit", "abort"}
             \/ NodeToIp(node) # 0,
             \/ online' = online /\ news' = news
             \/ ~online' /\ news' = <<>>
             \/ NodeToIp(node) # 0
      PROVE  NamesInv'
  <2>1. NodeToIp(node)' = NodeToIp(node)
    BY <1>1
  <2> QED
    BY <1>1, <2>1 DEF NamesInv
<1>2. CASE Connect
  BY <1>1, <1>2 DEF Connect, Call
<1>3. CASE TryAgain \/ GiveUpConnecting
  BY <1>0, <1>1, <1>3 DEF TryAgain, GiveUpConnecting, Attempt, remote, OrchestratorStates
<1>4. CASE Orchestrator /\ gw.pc # "connect"
  <2>1. NodeToIp(node) # 0
    BY <1>4 DEF Orchestrator, Connect, TryAgain, GiveUpConnecting, Return, ReturnCause, Throw,
                Waiting, RunScript, Choose, Leave, CallTask, PassOver, GoOn, NamesInv
  <2>2. UNCHANGED <<node, notified>>
    BY <1>4 DEF Orchestrator, Connect, TryAgain, GiveUpConnecting, Attempt, Call, Return,
                ReturnCause, Throw, RunScript, Choose, Leave, CallTask, PassOver, GoOn
  <2> QED
    BY <1>1, <2>1, <2>2
<1>5. CASE Orchestrator
  BY <1>2, <1>3, <1>4, <1>5 DEF Orchestrator, Return, ReturnCause, Throw, Waiting, RunScript,
                               Choose, Leave, CallTask, PassOver, GoOn
<1>6. ASSUME NEW what, Publish(what), UNCHANGED <<node, gw, online, notified>>
      PROVE  NamesInv'
  <2>1. NodeToIp(node) # 0 \/ news' = news
    BY <1>6 DEF Publish, NamesInv
  <2> QED
    BY <1>1, <1>6, <2>1
<1>7. CASE DistributeResult \/ \E t \in threads : ReportStatus(t)
  BY <1>6, <1>7 DEF DistributeResult, ReportStatus
<1>8. ASSUME NEW sent, EndBox(sent), sent = <<>> \/ NodeToIp(node) # 0
      PROVE  NamesInv'
  <2>1. UNCHANGED <<node, gw, notified>> /\ ~online'
    BY <1>8 DEF EndBox
  <2>2. CASE sent = <<>>
    <3>1. news' = <<>>
      BY <1>8, <2>2 DEF EndBox
    <3> QED
      BY <1>1, <2>1, <3>1
  <2>3. CASE NodeToIp(node) # 0
    BY <1>1, <2>1, <2>3
  <2> QED
    BY <1>8, <2>2, <2>3
<1>9. CASE Deinit \/ Killed
  <2>1. news = <<>> \/ NodeToIp(node) # 0
    BY DEF NamesInv
  <2>2. online => NodeToIp(node) # 0
    BY DEF NamesInv
  <2> QED
    BY <1>8, <1>9, <2>1, <2>2 DEF Deinit, Killed
<1>10. CASE Start \/ Serve \/ (\E r \in pending : Perform(r)) \/ \E t \in threads : Work(t)
  BY <1>1, <1>10 DEF Start, Serve, Perform, Work
<1>11. CASE Disconnect
  BY <1>1, <1>11 DEF Disconnect
<1>12. CASE Reconnect
  BY <1>1, <1>12 DEF Reconnect, Gone, NamesInv, remote
<1>13. CASE Notify
  <2>1. NodeToIp(node) # 0 /\ UNCHANGED <<node, gw, online>>
    BY <1>13 DEF Notify, NamesInv
  <2>2. notified' = node
    BY <1>0, <1>13, <2>1, AddressNamesItsBox DEF Notify, Told
  <2> QED
    BY <2>1, <2>2 DEF NamesInv
<1>14. CASE UNCHANGED vars
  BY <1>1, <1>14 DEF vars, remote
<1> QED
  BY <1>5, <1>7, <1>9, <1>10, <1>11, <1>12, <1>13, <1>14 DEF Next, Box

\* Unless all boxes are on one host, the notifier is told of the box that has published,
\* whatever arrives late and whichever box the session is with
\* (selfupdater-proxy.cpp:46-71, hh_helper.cpp:119-137).
THEOREM NewsNamesItsBoxAlways ==
    ASSUME ~PC_SIMULATION
    PROVE  Spec => []NewsNamesItsBox
<1>1. Init => NamesInv
  BY DEF Init, NamesInv
<1>2. TypeOK /\ NamesInv /\ [Next]_vars => NamesInv'
  BY NamesInvNext
<1>3. NamesInv => NewsNamesItsBox
  BY DEF NamesInv, NewsNamesItsBox
<1>4. TypeInv => TypeOK
  BY DEF TypeInv
<1> QED
  BY <1>1, <1>2, <1>3, <1>4, TypeInvHolds, PTL DEF Spec

\* On one host it is always told of the first box of the table, whichever has published:
\* the assumption above is needed (fota.h:14-27, hh_helper.cpp:129-137).
THEOREM SimulationNamesFirstBox ==
    ASSUME PC_SIMULATION
    PROVE  Spec => [](notified \in {"none", "TBOX"})
<1> DEFINE Named == notified \in {"none", "TBOX"}
<1>1. Init => Named
  BY DEF Init
<1>2. TypeOK /\ Named /\ [Next]_vars => Named'
  <2> SUFFICES ASSUME TypeOK, Named, [Next]_vars PROVE Named'
    OBVIOUS
  <2>1. IpToNode(NodeToIp(node)) = "TBOX"
    <3>1. Entries = 1..12
      BY DEF Entries, ECUNames
    <3>2. {i \in Entries : IpOf(i) = NodeToIp(node)} = 1..12
      BY <3>1 DEF IpOf, NodeToIp
    <3>3. First(1..12) \in 1..12 /\ \A j \in 1..12 : First(1..12) <= j
      BY FirstIsIn
    <3>4. First(1..12) = 1
      BY <3>3
    <3> QED
      BY <3>2, <3>4 DEF IpToNode, ECUNames
  <2>2. CASE Notify
    BY <2>1, <2>2 DEF Notify, Told
  <2>3. CASE Orchestrator \/ Box \/ Disconnect \/ Reconnect \/ UNCHANGED vars
    BY <2>3 DEF Orchestrator, Connect, Call, TryAgain, Attempt, GiveUpConnecting, Return,
                ReturnCause, Throw, RunScript, Choose, Leave, CallTask, PassOver, GoOn, Box,
                Start, Serve, Perform, Work, ReportStatus, DistributeResult, Deinit, Killed,
                EndBox, Disconnect, Reconnect, vars
  <2> QED
    BY <2>2, <2>3 DEF Next
<1>3. TypeInv => TypeOK
  BY DEF TypeInv
<1> QED
  BY <1>1, <1>2, <1>3, TypeInvHolds, PTL DEF Spec

\* The self-installer is never asked twice for one call, though calls time out and
\* connections break (selfupdater-proxy.cpp:93-115, mock_selfinstaller.cpp:104-192).
THEOREM AskedOnceAlways == Spec => []AskedOnce
<1>1. CallInv => AskedOnce
  BY DEF CallInv
<1> QED
  BY <1>1, CallInvHolds, PTL

=============================================================================
