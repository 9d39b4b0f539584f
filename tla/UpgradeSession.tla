--------------------------- MODULE UpgradeSession ---------------------------
(***************************************************************************)
(* An upgrade session: the orchestrator's thread (the simulator's main())  *)
(* calls one box through UpdaterProxyMgr, and the box's UpdaterWrapper     *)
(* hands each call to the self-installer, whose code comes back as a       *)
(* FotaError.  The calls are remote: they are answered, time out, or are   *)
(* lost with the connection, while the box may still perform them; the box *)
(* comes and goes, and publishes its progress to whoever is connected.     *)
(***************************************************************************)
EXTENDS FiniteSets, NodeTable, MockSelfInstaller

CONSTANTS
    ScriptNodes,   \* the boxes a script may name
    Script,        \* the tasks of the script, in order
    Choices,       \* what the menu offers besides the script
    MAX_TRY,       \* attempts to connect: try_count, 10
    MAX_TURNS,     \* bound on the choices the user makes
    MAX_NEWS,      \* bound on the publications under way
    MAX_THREADS,   \* bound on the phases at work in a box
    NDEBUG         \* TRUE: the release build

Operations == Phases
Calls == Operations \cup
    {"Rollback", "Distribute", "GetState", "GetVersion", "GetAllSoftwareVersion"}

ASSUME ScriptNodesAssumption == ScriptNodes \subseteq Nodes
ASSUME ScriptAssumption == Script \in Seq(STRING)
ASSUME ChoicesAssumption == Choices \subseteq Calls \ Operations
ASSUME BoundsAssumption == {MAX_TRY, MAX_TURNS, MAX_NEWS, MAX_THREADS} \subseteq Nat
ASSUME NDEBUGAssumption == NDEBUG \in BOOLEAN

VARIABLES
    node,       \* the box of this session
    gw,         \* the orchestrator's thread and its call
    online,     \* the proxy is connected and subscribed
    box,        \* the process of the self-updater
    pending,    \* requests sent and not yet performed
    reply,      \* the answer on its way: "none", "ok" or "refused"
    news,       \* the publications on their way to the proxy, in order
    notified,   \* the box the notifier was told of last, or "none"
    log         \* what the self-installer has been asked and has answered

installer == <<state, threads>>
remote == <<box, pending, reply, news, log, installer>>
vars == <<node, gw, online, remote, notified>>

News == UpdateStates \cup {"DistributeResult", "Exit"}

\* main() comes to its first attempt to connect, or ends over arguments or a script that
\* it refuses.
Init ==
    /\ node \in ScriptNodes
    /\ \E pc \in {"connect", "exit"} :
          gw = [pc |-> pc, tries |-> MAX_TRY, proxy |-> FALSE, turn |-> 0,
                task |-> 0, call |-> 0, op |-> "none", error |-> "unset"]
    /\ online = FALSE
    /\ box = "off"
    /\ pending = {} /\ reply = "none"
    /\ news = <<>> /\ notified = "none"
    /\ log = {}
    /\ InstallerInit

InScript == gw.task > 0
Waiting == gw.pc \in {"call", "cause"}
AtUser == gw.pc \in {"menu", "task"}
Gone == gw.pc \in {"exit", "abort"}

\* A request is live while its call waits for the answer.
Unawaited(requests) == {[r EXCEPT !.live = FALSE] : r \in requests}

\* rpc_client::call() waits in vain if nothing is connected.
Send(op) ==
    pending' = IF online'
               THEN pending \cup {[op |-> op, call |-> gw'.call, turn |-> gw'.turn,
                                   live |-> TRUE]}
               ELSE pending

Call(op) ==
    /\ gw' = [gw EXCEPT !.pc = "call", !.op = op, !.call = @ + 1]
    /\ Send(op)
    /\ UNCHANGED <<node, box, reply, news, notified, log, installer>>
-----------------------------------------------------------------------------
\* UpdaterProxy::Init().  Connected, the proxy subscribes and asks for the versions.
Connect ==
    /\ gw.pc = "connect" /\ box = "serving" /\ NodeToIp(node) # 0
    /\ online' = TRUE
    /\ Call("GetAllSoftwareVersion")

Attempt(tries) ==
    /\ gw' = [gw EXCEPT !.tries = tries]
    /\ UNCHANGED <<node, online, remote, notified>>

\* Mutants: the attempts are not counted; one attempt too many.
TryForever == gw.pc = "connect" /\ gw.tries > 0 /\ Attempt(gw.tries)
TryOnceMore == gw.pc = "connect" /\ gw.tries >= 0 /\ Attempt(gw.tries - 1)

TryAgain == gw.pc = "connect" /\ gw.tries > 0 /\ Attempt(gw.tries - 1)

\* The attempts are used up, or has_connected() finds the connection lost again.
\* BOOST_ASSERT(try_count < 0) stands where the count is never below 0.
GiveUpConnecting ==
    /\ gw.pc = "connect" /\ (gw.tries = 0 \/ box = "serving")
    /\ gw' = [gw EXCEPT !.pc = IF NDEBUG THEN "exit" ELSE "abort"]
    /\ UNCHANGED <<node, online, remote, notified>>

Result(error) ==
    /\ gw' = [gw EXCEPT !.pc = "result", !.error = error]
    /\ reply' = "none"

\* Mutant: the code is not looked at.
ReturnOk ==
    /\ gw.pc = "call" /\ reply # "none"
    /\ Result("ok")
    /\ UNCHANGED <<node, online, box, pending, news, notified, log, installer>>

\* Mutant: the cause is asked for, and not waited for.
ReturnBeforeCause ==
    /\ gw.pc = "call" /\ reply # "none"
    /\ Result(IF reply = "ok" THEN "ok" ELSE "selfinstaller")
    /\ UNCHANGED online
    /\ IF reply = "ok" THEN UNCHANGED pending ELSE Send("GetErrorCause")
    /\ UNCHANGED <<node, box, news, notified, log, installer>>

\* The code of the self-installer is OK, or its cause is asked for in a second call.
Return ==
    /\ gw.pc = "call" /\ reply # "none"
    /\ IF reply = "ok"
       THEN Result("ok") /\ UNCHANGED <<online, pending>>
       ELSE /\ gw' = [gw EXCEPT !.pc = "cause"]
            /\ reply' = "none"
            /\ UNCHANGED online
            /\ Send("GetErrorCause")
    /\ UNCHANGED <<node, box, news, notified, log, installer>>

ReturnCause ==
    /\ gw.pc = "cause" /\ reply # "none"
    /\ Result("selfinstaller")
    /\ UNCHANGED <<node, online, box, pending, news, notified, log, installer>>

\* Either call throws: a time-out, a lost connection.  The request may still be
\* on its way or at work, and its answer will find nobody waiting.
Throw ==
    /\ Waiting
    /\ Result("rpc")
    /\ pending' = Unawaited(pending)
    /\ UNCHANGED <<node, online, box, news, notified, log, installer>>
-----------------------------------------------------------------------------
\* The menu: one run of the script, which is over at once if it is empty, another
\* call, or the end of the session.
RunScript ==
    /\ gw.pc = "menu" /\ gw.turn < MAX_TURNS /\ Script # <<>>
    /\ gw' = [gw EXCEPT !.pc = "task", !.turn = @ + 1, !.task = 1]
    /\ UNCHANGED <<node, online, remote, notified>>

\* The loop of DistributeFiles() over its files is a choice for each of them: it calls
\* again whatever the call before has said, and nothing else of this thread comes between.
Choose(op) ==
    /\ gw.pc = "menu" /\ gw.turn < MAX_TURNS
    /\ gw' = [gw EXCEPT !.pc = "call", !.turn = @ + 1, !.op = op, !.call = @ + 1]
    /\ UNCHANGED online
    /\ Send(op)
    /\ UNCHANGED <<node, box, reply, news, notified, log, installer>>

Leave ==
    /\ gw.pc = "menu"
    /\ gw' = [gw EXCEPT !.pc = "exit"]
    /\ UNCHANGED <<node, online, remote, notified>>

\* The user presses a key, and the task is called if it is one of the operations.
CallTask ==
    /\ gw.pc = "task" /\ Script[gw.task] \in Operations
    /\ UNCHANGED online
    /\ Call(Script[gw.task])

\* Else it is passed over, with the error of the task before it, which is not
\* initialised before the first.
PassOver ==
    /\ gw.pc = "task" /\ Script[gw.task] \notin Operations
    /\ \E error \in IF gw.error = "unset" THEN {"ok", "rpc"} ELSE {gw.error} : Result(error)
    /\ UNCHANGED <<node, online, box, pending, news, notified, log, installer>>

BackToMenu == [gw EXCEPT !.pc = "menu", !.task = 0, !.op = "none", !.error = "unset"]
NextTask == [gw EXCEPT !.pc = "task", !.task = @ + 1, !.op = "none"]

\* Mutant: the script goes on after a failure.
AfterTaskGoingOn == gw' = IF gw.task < Len(Script) THEN NextTask ELSE BackToMenu

\* The next task, unless this one failed or was the last.
AfterTask ==
    gw' = IF gw.error = "ok" /\ gw.task < Len(Script) THEN NextTask ELSE BackToMenu

\* UpdaterProxyMgr::Init() keeps the proxy only if the versions were told.
AfterInit ==
    gw' = IF gw.error = "ok" THEN [BackToMenu EXCEPT !.proxy = TRUE]
                             ELSE [gw EXCEPT !.pc = "exit"]

GoOn ==
    /\ gw.pc = "result"
    /\ IF ~gw.proxy THEN AfterInit ELSE IF InScript THEN AfterTask ELSE gw' = BackToMenu
    /\ UNCHANGED <<node, online, remote, notified>>

Orchestrator ==
    \/ Connect \/ TryAgain \/ GiveUpConnecting \/ Return \/ ReturnCause \/ Throw
    \/ RunScript \/ \E op \in Choices : Choose(op)
    \/ Leave \/ CallTask \/ PassOver \/ GoOn
-----------------------------------------------------------------------------
\* UpdaterWrapper::Init(): the server is made in a thread of its own.  If the port is in
\* use or there is no logger it says false, and the box stays off.
Start ==
    /\ box = "off"
    /\ box' = "starting"
    /\ UNCHANGED <<node, gw, online, pending, reply, news, notified, log, installer>>

Serve ==
    /\ box = "starting"
    /\ box' = "serving"
    /\ UNCHANGED <<node, gw, online, pending, reply, news, notified, log, installer>>

\* Distribute() starts its thread and says true; the cause of an error is a text;
\* all else is the answer of the self-installer.
CodeOf(op) == IF op \in {"Distribute", "GetErrorCause"} THEN {"ok"} ELSE {"ok", "refused"}

\* A request is performed late or early, awaited or not.  What is accepted runs on in
\* a thread of its own.
Perform(r) ==
    /\ box = "serving" /\ r \in pending
    /\ r.op \in Phases => Cardinality(threads) < MAX_THREADS
    /\ \E code \in CodeOf(r.op) :
          /\ reply' = IF r.live THEN code ELSE reply
          /\ log' = IF r.op = "GetErrorCause" THEN log
                    ELSE log \cup {[op |-> r.op, call |-> r.call, turn |-> r.turn, code |-> code]}
          /\ threads' = IF code = "ok" THEN Begun(r.op, r.call) ELSE threads
    /\ pending' = pending \ {r}
    /\ UNCHANGED <<node, gw, online, box, news, notified, state>>

Work(t) ==
    /\ StoreState(t) \/ ReadState(t)
    /\ UNCHANGED <<node, gw, online, box, pending, reply, news, notified, log>>

\* rpc_server_->publish() reaches who is connected.
Publish(what) ==
    /\ box = "serving"
    /\ IF online THEN Len(news) < MAX_NEWS /\ news' = Append(news, what) ELSE news' = news

\* ReportStatus() publishes what was read of g_state, whatever has been stored since.
ReportStatus(t) ==
    /\ t \in threads /\ t.said # "nothing"
    /\ Publish(t.said)
    /\ threads' = Reported(t)
    /\ UNCHANGED <<node, gw, online, box, pending, reply, notified, log, state>>

\* StatusCallback() at the end of a download, which SelfUpdater has in detail.
DistributeResult ==
    /\ \E entry \in log : entry.op = "Distribute"
    /\ Publish("DistributeResult")
    /\ UNCHANGED <<node, gw, online, box, pending, reply, notified, log, installer>>

\* The process ends, and the connection with it; what it has published may arrive.
EndBox(sent) ==
    /\ box' = "off"
    /\ online' = FALSE
    /\ pending' = {}
    /\ \E arrived \in 0..Len(sent) : news' = SubSeq(sent, 1, arrived)
    /\ InstallerRestarts
    /\ UNCHANGED <<node, gw, reply, notified, log>>

\* Deinit() publishes "Exit", but through a server that may not be there yet.
Deinit ==
    \/ box = "serving" /\ ~online /\ EndBox(news)
    \/ box = "serving" /\ online /\ Len(news) < MAX_NEWS /\ EndBox(Append(news, "Exit"))
    \/ box = "starting" /\ EndBox(news)

Killed == box = "serving" /\ EndBox(news)

\* Any request that has reached the box is performed all the same.
Disconnect ==
    /\ online
    /\ online' = FALSE
    /\ reply' = "none" /\ news' = <<>>
    /\ \E arrived \in SUBSET pending : pending' = Unawaited(arrived)
    /\ UNCHANGED <<node, gw, box, notified, log, installer>>

\* enable_auto_reconnect(), once the first connection stands.
Reconnect ==
    /\ ~online /\ box = "serving" /\ gw.pc # "connect" /\ ~Gone
    /\ online' = TRUE
    /\ UNCHANGED <<node, gw, remote, notified>>

\* The receiver of the orchestrator: UpdateStatus(), DistributeStatus() and Exit()
\* each name the box.
Told(name) == notified' = name

\* The subscriptions of Init(): the notifier is told which box it is.
Notify ==
    /\ news # <<>> /\ ~Gone
    /\ Told(IpToNode(NodeToIp(node)))
    /\ news' = Tail(news)
    /\ UNCHANGED <<node, gw, online, box, pending, reply, log, installer>>

Box ==
    \/ Start \/ Serve
    \/ \E r \in pending : Perform(r)
    \/ \E t \in threads : Work(t) \/ ReportStatus(t)
    \/ DistributeResult \/ Deinit \/ Killed

Next == Orchestrator \/ Box \/ Disconnect \/ Reconnect \/ Notify

\* The orchestrator's thread is scheduled, and every call and attempt to connect
\* ends by its time-out.  Nothing is promised of the box, the network or the user.
Fairness ==
    /\ WF_vars(TryAgain \/ GiveUpConnecting)
    /\ WF_vars(Throw)
    /\ WF_vars(GoOn)

Spec == Init /\ [][Next]_vars
LiveSpec == Spec /\ Fairness
-----------------------------------------------------------------------------
OrchestratorStates ==
    [pc : {"connect", "call", "cause", "result", "menu", "task", "exit", "abort"},
     tries : 0..MAX_TRY, proxy : BOOLEAN, turn : 0..MAX_TURNS, task : 0..Len(Script),
     call : Nat, op : Calls \cup {"none"}, error : {"unset", "ok", "selfinstaller", "rpc"}]

\* What the calls made so far may leave under way.
RequestsSoFar == [op : Calls \cup {"GetErrorCause"}, call : 1..gw.call,
                  turn : 0..gw.turn, live : BOOLEAN]
AnswersSoFar == [op : Calls, call : 1..gw.call, turn : 0..gw.turn, code : {"ok", "refused"}]
ThreadsSoFar == [op : Phases, call : 1..gw.call, left : 0..PARTITIONS, stored : BOOLEAN,
                 said : UpdateStates \cup {"nothing"}]

\* Every variable keeps its type.
TypeOK ==
    /\ node \in Nodes
    /\ gw \in OrchestratorStates
    /\ online \in BOOLEAN
    /\ box \in {"off", "starting", "serving"}
    /\ pending \subseteq RequestsSoFar /\ log \subseteq AnswersSoFar
    /\ reply \in {"none", "ok", "refused"}
    /\ news \in Seq(News) /\ Len(news) <= MAX_NEWS
    /\ notified \in Nodes \cup {"none"}
    /\ state \in UpdateStates /\ threads \subseteq ThreadsSoFar

\* What the orchestrator is told of a call is so, however late or twice requests
\* and answers travel: OK says that the self-installer has accepted this very call,
\* an error of the self-installer that it has refused it, and so has not accepted it
\* (selfupdater-proxy.cpp:93-222).
ErrorsAreHonest ==
    LET answers == {entry.code : entry \in {e \in log : e.call = gw.call}} IN
    gw.pc = "result" /\ gw.op # "none" =>
        /\ gw.error = "ok" => answers = {"ok"}
        /\ gw.error = "selfinstaller" => answers = {"refused"}

Before(op) == CASE op = "Upgrade" -> "PrepareUpgrade" [] op = "Finalize" -> "Upgrade"

\* A run of the script asks the self-installer to upgrade, or to finalize, only when it
\* has accepted a preparation, or an upgrade, that the same run had asked for, although
\* tasks are passed over with an error that nobody has set, calls time out, and the box
\* restarts between them (orch-simulator.cpp:244-273).  A request that is performed late
\* counts for the run that has made it; whether the thread of an accepted phase has come
\* to its end is not asked, here or in the code.
PhasesInOrder ==
    \A entry \in log : entry.op \in {"Upgrade", "Finalize"} =>
        \E earlier \in log : /\ earlier.op = Before(entry.op)
                             /\ earlier.turn = entry.turn /\ earlier.code = "ok"

\* The notifier is told of the box that has published (selfupdater-proxy.cpp:46-71,
\* hh_helper.cpp:119-137).
NewsNamesItsBox == notified \in {"none", node}

\* A box never publishes that a phase is done which it has not accepted, although the
\* phases' threads share one state, overlap, and outlive the calls that began them
\* (mock_selfinstaller.cpp:76-102).
NewsIsTrue ==
    LET Accepted(op) == \E entry \in log : entry.op = op /\ entry.code = "ok" IN
    \A i \in 1..Len(news) :
        /\ news[i] = "PREPARATION_DONE" => Accepted("PrepareUpgrade")
        /\ news[i] = "ACTIVATION_DONE" => Accepted("Upgrade")
        /\ news[i] = "FINAILIZE_DONE" => Accepted("Finalize")

\* A call that was answered leaves nothing behind: only calls whose caller was told of
\* an error of the connection are performed late, after a Rollback as well
\* (selfupdater-proxy.cpp:93-115, orch-simulator.cpp:515).
AnsweredIsOver ==
    gw.pc = "result" /\ gw.op # "none" /\ gw.error \in {"ok", "selfinstaller"} =>
        \A r \in pending : r.call # gw.call

\* The orchestrator's thread always comes back to its user or ends, whatever the
\* box and the network do (selfupdater-proxy.cpp:25-40, 93-115).
SessionReturns == ~(AtUser \/ Gone) ~> (AtUser \/ Gone)

=============================================================================
