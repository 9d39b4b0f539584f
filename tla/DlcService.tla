----------------------------- MODULE DlcService -----------------------------
(***************************************************************************)
(* The services between the cloud, the HMI and the orchestrator.  The DMC  *)
(* calls the DLC through its MessagePasser, and the DLC calls the          *)
(* orchestrator through the gateway's DLCProxy: two remote calls, one      *)
(* inside the other, over connections that break and processes that die.   *)
(* Back from the orchestrator come its publications, over the same two     *)
(* connections, to the HMI and the cloud.  The downloads of a manifest are *)
(* in DownloadClient; here they end, well or badly, at any time.           *)
(***************************************************************************)
EXTENDS Integers, L1Manifest

CONSTANTS
    Messages,    \* what the cloud may send, by name
    Text,        \* [Messages -> the text: no json, a request, or other json]
    News,        \* the topics of what the orchestrator publishes, in order
    Ids,         \* service_pack_ids the HMI may ask for
    MAX_TRY,     \* MAX_REPEAT_TRY, 10
    WORD,        \* size_t counts modulo WORD: 2^64
    MAX_CALLS,   \* bound on the calls of the DMC
    NDEBUG       \* TRUE: the release build

NoManifest == ""   \* std::string L1_Manifest before any request

Topics == {"DownloadFinished", "UpdateResult", "UpdateStatus"}

ASSUME MessagesAssumption == NoManifest \notin Messages
ASSUME TextAssumption ==
    \A m \in Messages : Text[m].is \in {"no json", "request", "other json"}
ASSUME ArrayAssumption ==
    \A m \in Messages : Text[m].is = "request" /\ IsWellFormated(Text[m].of) =>
        Len(Text[m].of.manifest.of.of) \in Nat
ASSUME NewsAssumption == News \in Seq(Topics)
ASSUME BoundsAssumption ==
    {MAX_TRY, MAX_CALLS} \subseteq Nat /\ WORD \in Nat /\ WORD > MAX_TRY
ASSUME NDEBUGAssumption == NDEBUG \in BOOLEAN

VARIABLES
    dmc,        \* the thread of the DMC that calls the MessagePasser
    dlc,        \* the process of the DLC: its state, its count, L1_Manifest
    gateway,    \* the process of the gateway
    linked,     \* which of the connections "dmc"-DLC and DLC-"gateway" stand
    asked,      \* requests of the DMC that the DLC has not answered
    passed,     \* requests of the DLC to the orchestrator, and their answers
    workers,    \* manifests whose threads have not ended
    offered,    \* manifests the orchestrator has been told are ready
    done,       \* the calls of the DMC that were carried out and approved, and how
    news,       \* the publications made, and under way to the DLC and to the DMC
    seen        \* the last publication that went to the HMI, and to the cloud

calls == <<dmc, dlc, gateway, linked, asked, passed, workers, offered, done>>
vars == <<calls, news, seen>>

\* Mutant: IsWellFormated() is taken for all that a download needs.
HandlingTrusting(m) ==
    IF Text[m].is = "other json" THEN "ignored"
    ELSE IF Text[m].is = "request" /\ IsWellFormated(Text[m].of) THEN "packages"
    ELSE "reported"

\* What becomes of a message: a thread for its packages, a report for the cloud, or
\* nothing if there is no "manifest" in it.
Handling(m) ==
    IF Text[m].is = "no json" THEN "reported"
    ELSE IF Text[m].is = "other json" THEN "ignored"
    ELSE IF ~IsWellFormated(Text[m].of) THEN "reported"
    ELSE LET outcome == Outcome(Text[m].of, NDEBUG) IN
         IF outcome = "throws" THEN "reported" ELSE outcome

Manifests == {m \in Messages : Handling(m) = "packages"}

\* What the two ends of each call of the DLC send and expect.
Signature ==
    [PackageReady |->
        [sent |-> <<"DownloadPackages">>, handled |-> <<"string", "DownloadPackages">>,
         returned |-> "bool", expected |-> "bool"],
     CheckNewPackage |->
        [sent |-> <<>>, handled |-> <<>>, returned |-> "UpgradeInfo", expected |-> "string"],
     StartUpgrade |->
        [sent |-> <<"string">>, handled |-> <<"string">>, returned |-> "bool",
         expected |-> "bool"]]

Agrees(op) == /\ Signature[op].sent = Signature[op].handled
              /\ Signature[op].returned = Signature[op].expected

\* Requests whose connection has gone: some have arrived, all are answered in vain.
Orphaned(requests) ==
    {{[r EXCEPT !.live = FALSE] : r \in arrived} : arrived \in SUBSET requests}

Init ==
    /\ dmc = [pc |-> "connect", count |-> MAX_TRY, call |-> 0, op |-> "none", told |-> "none"]
    /\ dlc = [pc |-> "off", count |-> 0, manifest |-> NoManifest]
    /\ gateway = "off"
    /\ linked = {}
    /\ asked = {} /\ passed = {} /\ workers = {} /\ offered = {} /\ done = {}
    /\ news = [made |-> 0, toDlc |-> <<>>, toDmc |-> <<>>]
    /\ seen = [HMI |-> 0, cloud |-> 0]
-----------------------------------------------------------------------------
\* MessagePasser::InitRPCClient(), which is Init() but for the notifier.
DmcConnect ==
    /\ dmc.pc = "connect" /\ dlc.pc = "serving"
    /\ dmc' = [dmc EXCEPT !.pc = "idle"]
    /\ linked' = linked \cup {"dmc"}
    /\ UNCHANGED <<dlc, gateway, asked, passed, workers, offered, done>>

\* Mutant: the count is a size_t, as in the DLC.
DmcTryAgainUnsigned ==
    /\ dmc.pc = "connect" /\ dmc.count >= 0
    /\ dmc' = [dmc EXCEPT !.count = (@ - 1) % WORD]
    /\ UNCHANGED <<dlc, gateway, linked, asked, passed, workers, offered, done>>

\* Mutant: the count is not looked at after it has passed 0.
DmcTryAgainTwice ==
    /\ dmc.pc = "connect" /\ dmc.count >= -1
    /\ dmc' = [dmc EXCEPT !.count = @ - 1]
    /\ UNCHANGED <<dlc, gateway, linked, asked, passed, workers, offered, done>>

\* while (!connect() && count >= 0), with an int.
DmcTryAgain ==
    /\ dmc.pc = "connect" /\ dmc.count >= 0
    /\ dmc' = [dmc EXCEPT !.count = @ - 1]
    /\ UNCHANGED <<dlc, gateway, linked, asked, passed, workers, offered, done>>

DmcGiveUp ==
    /\ dmc.pc = "connect" /\ dmc.count < 0
    /\ dmc' = [dmc EXCEPT !.pc = "failed"]
    /\ UNCHANGED <<dlc, gateway, linked, asked, passed, workers, offered, done>>

\* ToVehicle(message), CheckNewPackage() and StartUpgrade(service_pack_id).
Ask(op, argument) ==
    /\ dmc.pc = "idle" /\ dmc.call < MAX_CALLS
    /\ dmc' = [dmc EXCEPT !.pc = "call", !.call = @ + 1, !.op = op, !.told = "none"]
    /\ asked' = IF "dmc" \in linked
                THEN asked \cup {[call |-> dmc.call + 1, op |-> op, argument |-> argument,
                                  stage |-> "sent", live |-> TRUE]}
                ELSE asked
    /\ UNCHANGED <<dlc, gateway, linked, passed, workers, offered, done>>

\* The call throws: it has waited too long, or its connection has gone.
CallThrows ==
    /\ dmc.pc = "call"
    /\ dmc' = [dmc EXCEPT !.pc = "idle", !.told = "error"]
    /\ UNCHANGED <<dlc, gateway, linked, asked, passed, workers, offered, done>>

\* An answer of the DLC is heard if its connection stands and its call still waits.
Answer(r, result) ==
    /\ asked' = asked \ {r}
    /\ dmc' = IF r.live /\ dmc.pc = "call" /\ dmc.call = r.call
              THEN [dmc EXCEPT !.pc = "idle", !.told = result]
              ELSE dmc
-----------------------------------------------------------------------------
DlcStart ==
    /\ dlc.pc = "off"
    /\ dlc' = [dlc EXCEPT !.pc = "connecting", !.count = MAX_TRY]
    /\ UNCHANGED <<dmc, gateway, linked, asked, passed, workers, offered, done>>

\* while (!connect() && count >= 0), with a size_t: InitRPCClient() never fails.
DlcTryAgain ==
    /\ dlc.pc = "connecting"
    /\ dlc' = IF dlc.count >= 0 THEN [dlc EXCEPT !.count = (@ - 1) % WORD]
                                ELSE [dlc EXCEPT !.pc = "failed"]
    /\ UNCHANGED <<dmc, gateway, linked, asked, passed, workers, offered, done>>

\* Connected, InitRPCClient() subscribes; the DLC has no server of its own yet.
DlcConnect ==
    /\ dlc.pc = "connecting" /\ gateway = "serving"
    /\ dlc' = [dlc EXCEPT !.pc = "connected", !.count = 0]
    /\ linked' = linked \cup {"gateway"}
    /\ UNCHANGED <<dmc, gateway, asked, passed, workers, offered, done>>

\* It makes the server, registers its handlers, and runs.
DlcServe ==
    /\ dlc.pc = "connected"
    /\ dlc' = [dlc EXCEPT !.pc = "serving"]
    /\ UNCHANGED <<dmc, gateway, linked, asked, passed, workers, offered, done>>

\* The process ends, and all that it holds and carries with it.
EndDlc ==
    /\ dlc' = [pc |-> "off", count |-> 0, manifest |-> NoManifest]
    /\ linked' = {} /\ asked' = {} /\ workers' = {}
    /\ passed' \in Orphaned(passed)
    /\ UNCHANGED <<dmc, gateway, offered, done>>

\* HandleRemoteRequest(): a manifest gets a thread and is stored; what fails on the way,
\* by an early return or an exception, is reported.  The answer is true in any case.
HandleRemoteRequest(r) ==
    /\ r.op = "ToVehicle"
    /\ IF Handling(r.argument) = "aborts"
       THEN EndDlc
       ELSE /\ IF r.argument \in Manifests
               THEN /\ workers' = workers \cup {r.argument}
                    /\ dlc' = [dlc EXCEPT !.manifest = r.argument]
               ELSE UNCHANGED <<workers, dlc>>
            /\ done' = done \cup {[call |-> r.call, how |-> Handling(r.argument)]}
            /\ Answer(r, "true")
            /\ UNCHANGED <<gateway, linked, passed, offered>>

\* CheckNewPackage() and StartUpgrade() call the orchestrator, the latter with
\* L1_Manifest, which its assertion compares by an id that is always empty.
CallOrchestrator(r) ==
    /\ r.stage = "sent" /\ r.op # "ToVehicle"
    /\ IF r.op = "StartUpgrade" /\ r.argument # "" /\ ~NDEBUG
       THEN EndDlc
       ELSE /\ asked' = (asked \ {r}) \cup {[r EXCEPT !.stage = "passed"]}
            /\ passed' = IF "gateway" \in linked
                         THEN passed \cup {[call |-> r.call, op |-> r.op,
                                            argument |-> dlc.manifest, answer |-> "none",
                                            live |-> TRUE]}
                         ELSE passed
            /\ UNCHANGED <<dmc, dlc, gateway, linked, workers, offered, done>>

\* Mutant: the handler does not wait for the answer of the orchestrator.
ReturnAnswerEarly(r, q) ==
    /\ r.stage = "passed" /\ q.call = r.call
    /\ Answer(r, "true")
    /\ passed' = passed
    /\ UNCHANGED <<dlc, gateway, linked, workers, offered, done>>

\* The handler's own call returns what the orchestrator has answered.
ReturnAnswer(r, q) ==
    /\ r.stage = "passed" /\ Agrees(r.op)
    /\ q.live /\ q.call = r.call /\ q.answer # "none"
    /\ Answer(r, q.answer)
    /\ passed' = passed \ {q}
    /\ UNCHANGED <<dlc, gateway, linked, workers, offered, done>>

\* It throws: for a time-out, a lost connection, or an answer it cannot unpack; and
\* the server answers the DMC with an error.
HandlerThrows(r) ==
    /\ r.stage = "passed"
    /\ Answer(r, "error")
    /\ UNCHANGED <<dlc, gateway, linked, passed, workers, offered, done>>

\* HandlePackages() at its end.  A failure is published on "cloud", which nobody is
\* subscribed to.
DownloadFails(m) ==
    /\ GetDownloadPackages(Text[m].of) # <<>>
    /\ workers' = workers \ {m}
    /\ UNCHANGED <<dmc, dlc, gateway, linked, asked, passed, offered, done>>

\* After a success an exception of the call to the orchestrator is caught nowhere.
CallPackageReady(m) ==
    IF "gateway" \in linked /\ Agrees("PackageReady")
    THEN /\ workers' = workers \ {m} /\ offered' = offered \cup {m}
         /\ UNCHANGED <<dmc, dlc, gateway, linked, asked, passed, done>>
    ELSE EndDlc
-----------------------------------------------------------------------------
\* DLCProxy::Init(): the server is made in a thread of its own.
GatewayStart ==
    /\ gateway = "off"
    /\ gateway' = "serving"
    /\ UNCHANGED <<dmc, dlc, linked, asked, passed, workers, offered, done>>

\* The handlers pass each call to the orchestrator, which may say anything.
HandleAtGateway(q) ==
    /\ q.answer = "none" /\ gateway = "serving"
    /\ \E answer \in {"true", "false"} :
          /\ passed' = (passed \ {q}) \cup
                          {a \in {[q EXCEPT !.answer = answer]} : a.live}
          /\ done' = IF answer = "true" THEN done \cup {[call |-> q.call, how |-> "agreed"]}
                                        ELSE done
    /\ UNCHANGED <<dmc, dlc, gateway, linked, asked, workers, offered>>

GatewayStop ==
    /\ gateway = "serving"
    /\ gateway' = "off"
    /\ linked' = linked \ {"gateway"}
    /\ passed' = {}
    /\ UNCHANGED <<dmc, dlc, asked, workers, offered, done>>

\* Either connection breaks and is made again, that of the DMC even if Init() has given
\* up before it was ever made: enable_auto_reconnect() is called in any case.  What had
\* been handed over by then may be carried out all the same.
Disconnect(end) ==
    /\ end \in linked
    /\ linked' = linked \ {end}
    /\ IF end = "dmc" THEN asked' \in Orphaned(asked) /\ UNCHANGED passed
                      ELSE passed' \in Orphaned(passed) /\ UNCHANGED asked
    /\ UNCHANGED <<dmc, dlc, gateway, workers, offered, done>>

Reconnect(end) ==
    /\ end \notin linked
    /\ IF end = "dmc" THEN dlc.pc = "serving" /\ dmc.pc # "connect"
                      ELSE dlc.pc \in {"connected", "serving"} /\ gateway = "serving"
    /\ linked' = linked \cup {end}
    /\ UNCHANGED <<dmc, dlc, gateway, asked, passed, workers, offered, done>>

-----------------------------------------------------------------------------
\* DownloadFinished(), UpdateResult() and UpdateStatus() of DLCProxy, each of which
\* does nothing without a server and reaches who is connected.
Publish ==
    /\ news.made < Len(News)
    /\ news' = [news EXCEPT !.made = @ + 1,
                            !.toDlc = IF "gateway" \in linked THEN Append(@, news.made + 1) ELSE @]
    /\ UNCHANGED <<calls, seen>>

\* Mutant: each is forwarded in a thread of its own.
ForwardAnyOrder ==
    /\ news.toDlc # <<>>
    /\ \E i \in 1..Len(news.toDlc) :
          news' = [news EXCEPT
            !.toDlc = SubSeq(@, 1, i - 1) \o SubSeq(@, i + 1, Len(@)),
            !.toDmc = IF dlc.pc = "serving" /\ "dmc" \in linked
                      THEN Append(@, news.toDlc[i]) ELSE @]
    /\ UNCHANGED <<calls, seen>>

\* The subscriptions of the DLC: a result or a status goes on to the DMC, if there is
\* a server to publish it and the DMC is connected and has subscribed, which it does not
\* after it has given up; DownloadFinished goes nowhere.
Forward ==
    /\ news.toDlc # <<>>
    /\ LET item == Head(news.toDlc) IN
       news' = [news EXCEPT !.toDlc = Tail(@),
                            !.toDmc = IF /\ News[item] # "DownloadFinished"
                                         /\ dlc.pc = "serving" /\ "dmc" \in linked
                                         /\ dmc.pc # "failed"
                                      THEN Append(@, item) ELSE @]
    /\ UNCHANGED <<calls, seen>>

\* The subscriptions of the MessagePasser: ToCloud() a result, ToHMI() a status.
Notify ==
    /\ news.toDmc # <<>>
    /\ news' = [news EXCEPT !.toDmc = Tail(@)]
    /\ seen' = [seen EXCEPT ![IF News[Head(news.toDmc)] = "UpdateResult"
                              THEN "cloud" ELSE "HMI"] = Head(news.toDmc)]
    /\ UNCHANGED calls

VehicleNews == Publish \/ Forward \/ Notify

\* What is under way on a connection that goes is lost with it.
NewsOn(links) ==
    [news EXCEPT !.toDlc = IF "gateway" \in links THEN @ ELSE <<>>,
                 !.toDmc = IF "dmc" \in links THEN @ ELSE <<>>]

Dmc ==
    \/ DmcConnect \/ DmcTryAgain \/ DmcGiveUp \/ CallThrows
    \/ \E m \in Messages : Ask("ToVehicle", m)
    \/ Ask("CheckNewPackage", "")
    \/ \E id \in Ids : Ask("StartUpgrade", id)

Dlc ==
    \/ DlcStart \/ DlcTryAgain \/ DlcConnect \/ DlcServe
    \/ \E r \in asked :
          \/ HandleRemoteRequest(r) \/ CallOrchestrator(r) \/ HandlerThrows(r)
          \/ \E q \in passed : ReturnAnswer(r, q)
    \/ \E m \in workers : DownloadFails(m) \/ CallPackageReady(m)

DlcKilled == dlc.pc \in {"connecting", "connected", "serving"} /\ EndDlc

Gateway == GatewayStart \/ GatewayStop \/ \E q \in passed : HandleAtGateway(q)

Services ==
    \/ Dmc \/ Dlc \/ DlcKilled \/ Gateway
    \/ \E end \in {"dmc", "gateway"} : Disconnect(end) \/ Reconnect(end)

Next ==
    \/ Services /\ news' = NewsOn(linked') /\ UNCHANGED seen
    \/ VehicleNews

\* Each attempt to connect ends, and each call by its time-out; a gateway that keeps
\* serving can be connected to.  Nothing is promised of the processes and the connections.
Fairness ==
    /\ WF_vars((DmcTryAgain \/ DmcGiveUp) /\ UNCHANGED <<news, seen>>)
    /\ WF_vars(CallThrows /\ UNCHANGED <<news, seen>>)
    /\ WF_vars(DlcTryAgain /\ UNCHANGED <<news, seen>>)
    /\ WF_vars(DlcConnect /\ UNCHANGED <<news, seen>>)

Spec == Init /\ [][Next]_vars
LiveSpec == Spec /\ Fairness
-----------------------------------------------------------------------------
Results == {"true", "false", "error", "none"}

DmcStates ==
    [pc : {"connect", "idle", "call", "failed"}, count : -1..MAX_TRY, call : 0..MAX_CALLS,
     op : {"none", "ToVehicle", "CheckNewPackage", "StartUpgrade"}, told : Results]

DlcStates ==
    [pc : {"off", "connecting", "connected", "serving", "failed"}, count : 0..(WORD - 1),
     manifest : Manifests \cup {NoManifest}]

\* What the calls made so far may leave under way: a message is never passed on.
AskedSoFar ==
    [call : 1..dmc.call, op : {"ToVehicle"}, argument : Messages, stage : {"sent"},
     live : BOOLEAN]
    \cup [call : 1..dmc.call, op : {"CheckNewPackage", "StartUpgrade"},
          argument : Ids \cup {""}, stage : {"sent", "passed"}, live : BOOLEAN]
PassedSoFar ==
    [call : 1..dmc.call, op : {"CheckNewPackage", "StartUpgrade"},
     argument : Manifests \cup {NoManifest}, answer : {"none", "true", "false"}, live : BOOLEAN]
DoneSoFar ==
    [call : 1..dmc.call, how : {"packages", "reported", "ignored", "agreed"}]

\* Every variable keeps its type.
TypeOK ==
    /\ dmc \in DmcStates
    /\ dlc \in DlcStates
    /\ gateway \in {"off", "serving"}
    /\ linked \subseteq {"dmc", "gateway"}
    /\ asked \subseteq AskedSoFar /\ passed \subseteq PassedSoFar
    /\ workers \cup offered \subseteq Manifests
    /\ done \subseteq DoneSoFar
    /\ news \in [made : 0..Len(News), toDlc : Seq(1..Len(News)), toDmc : Seq(1..Len(News))]
    /\ seen \in [HMI : 0..Len(News), cloud : 0..Len(News)]

\* When ToVehicle() or StartUpgrade() returns true, this very call was carried out:
\* the DLC has looked at the message, or the orchestrator has agreed to the upgrade;
\* never an earlier call that was given up, or the DLC on its own
\* (msg-passer.cpp:19-57, main.cpp:135-139).
TrueIsEarned == dmc.told = "true" => \E d \in done : d.call = dmc.call

\* A call that was answered is over: it is not carried out once more, or later than a
\* call that follows it (msg-passer.cpp:54-57, main.cpp:135-139).
AnsweredIsOver ==
    dmc.told \in {"true", "false"} => \A r \in asked \cup passed : r.call # dmc.call

\* A thread that downloads has a url, a certificate and a checksum to read for each of its
\* packages, and in the debug build none is empty: although the check of a manifest looks
\* at nothing of a delta, and the assertions on what is empty are gone in the release
\* build (parse_manifest.cpp:12-77, 88-113).
PackagesCanBeRead ==
    \A m \in workers : \A i \in DOMAIN GetDownloadPackages(Text[m].of) : \A f \in 1..3 :
        LET field == GetDownloadPackages(Text[m].of)[i][f]
        IN IsString(field) /\ (field = Empty => NDEBUG)

\* Neither the HMI nor the cloud is told anything twice, or of something older than it
\* was told before, although both connections break and the DLC restarts
\* (dlc-proxy.cpp:44-60, main.cpp:159-180, msg-passer.cpp:76-98).
NewsInOrder ==
    [][\A sink \in {"HMI", "cloud"} :
          seen'[sink] # seen[sink] => seen'[sink] > seen[sink]]_vars

\* MessagePasser::Init() and each of its calls end, in success or failure, whatever
\* the DLC and the connections do (msg-passer.cpp:59-106).
DmcReturns == dmc.pc \in {"connect", "call"} ~> dmc.pc \in {"idle", "failed"}

\* The DLC takes its ten attempts to wait for the orchestrator, as the comment has it, and
\* is then connected or gives up (main.cpp:148-149, 183-185, 214-217).
DlcWaitEnds == dlc.pc = "connecting" ~> dlc.pc # "connecting"

\* When all packages of a manifest are there and the orchestrator can be reached, it
\* is told of them (main.cpp:41-46, dlc-proxy.cpp:62-66).
PackageReadyArrives ==
    [][\A m \in workers : CallPackageReady(m) /\ "gateway" \in linked => m \in offered']_vars

=============================================================================
