# A TLA+ development of the OTA socket wrapper

The repository (`src/socketwrapper`) carries software updates into a vehicle.
A package manifest ("L1") arrives on the IDCM box from the cloud; its packages
are downloaded over https; an *orchestrator* on the gateway (CGW) is told, asks
the boxes to fetch their package, and walks each one through the phases of an
upgrade.  Everything between the processes is rest_rpc (`rpc_client::call`,
`publish` / `subscribe`) and https.  The cloud and the HMI are not in the
repository; for the orchestrator and for the self-installer behind a box it holds
programs that stand in for them (`orchestrator-simulator`, `fake-selfinstaller`).

All paths below are relative to `src/socketwrapper/`.

    cloud ──▶ DMC: MessagePasser ──rpc──▶ DLC (idcm/dlc) ──https──▶ https-server
    HMI  ──▶        idcm/dmc               │        ▲                  ▲   ▲
                                           rpc      shared files       │   │
                                           ▼        ▼                  │   │
              gateway: DLCProxy     self-updater of the IDCM           │   │
                       │  (cgw/dlc-proxy) ──────────https──────────────┘   │
                 orchestrator (simulator)                                  │
                       │                                                   │
              gateway: UpdaterProxyMgr ──rpc──▶ UpdaterWrapper ──https─────┘
                       (cgw/self-updater-proxy)   (self-updater of a box)
                                                       │ calls
                                                  self-installer (mock)

## 1. Inventory

**Package downloads over https** (`common/https_download.cpp`).
State: a local file opened for append, one transfer per thread.  Operations:
`DownloadFrom` (ranged GET whose body is appended as it arrives), `GetFileSize*`.
Called by the three clients below.  Hard: connections lost in the middle; the
body of an *error* answer is appended before its status is looked at, and so is a
whole file that a server sends, with status 200, in place of a range; a progress
report that divides by `total / step_`; range assertions that the debug build
has and the release build has not.  Right when a caller that resumes gets the
next bytes, and never a file that is "complete" with other bytes in it.

**Self-updater** (`updaterwrapper/updaterwrapper.cpp`).
State: the local packages, one detached thread per accepted `Distribute`, the
rpc server, the self-installer.  Operations: `Distribute` (with `StatusCallback`)
and the upgrade calls, `Init`, `Deinit`, `ReportStatus`.  Hard: two threads on a
file, retries that resume from a size read back from disk, power loss between
any two steps, an outcome that nothing verifies after the transfer.  Right when
`eDONE` means that the package is there, when every accepted request is answered
once, and when a good file survives whatever is asked later.

**DLC, manifest handling** (`idcm/dlc/main.cpp`, `downloadclient.cpp`,
`parse_manifest.cpp`, `dlcstatus.cpp`).  State: a thread per manifest, the global
`L1_Manifest`, the local files of the box.  Operations: `HandleRemoteRequest`,
`HandlePackages`, `DownloadAllPackages`.  Hard: a package verified early must
still be good when the last has come; the global is stored after the thread that
reads it has started; local names, and the query for a size, keep only the last part
of a url.  Right when `PackageReady` is said of complete packages only and every
manifest ends in a call or a report.

**DLC, L1 manifest format** (`idcm/dlc/parse_manifest.cpp`).  Operations:
`IsWellFormated`, `GetDownloadPackages`.  Hard: the first does not look at what the
second needs of a delta, whose fields then throw or are empty; a package has two
urls, two certificates and two checksums.  Right when no thread is given a package
whose fields cannot be read, and when a text that cannot be used ends in a report.

**DLC, services** (`idcm/dlc/main.cpp`).  State: the connection to the gateway,
the rpc server for the DMC.  Operations: start-up with its attempts to connect and
the server that comes after it, `HandleRemoteRequest`, `CheckNewPackage`,
`StartUpgrade` (a remote call inside a remote call), the end of `HandlePackages`, the
forwarding of results and statuses.  Hard: time-outs of the outer call while the
inner one is being carried out, exceptions in detached threads, counters of unsigned
type, publications over connections that come and go.  Right when true is said of
what was done, and the news does not go back in time.

**Gateway, DLC proxy** (`cgw/dlc-proxy/dlc-proxy.cpp`).  Operations: `Init` and
its handlers (`PackageReady`, `CheckNewPackage`, `StartUpgrade`), `DistributeFile`
with its thread, three publications to the DLC.  Hard: a retry loop whose counter
never moves, success judged by a size.

**Gateway, self-updater proxy** (`cgw/self-updater-proxy/selfupdater-proxy.cpp`).
State: one connection per box, what it has been told.  Operations: `Init` (ten
attempts), the calls with their mapping to `FotaError` (an error is followed by a
second call for its cause), the subscriptions.  Hard: a call that timed out may
be performed later; the connection comes back by itself; publications are lost.

**DMC message passer** (`idcm/dmc/msg-passer.cpp`).  `Init`, `ToVehicle`,
`CheckNewPackage`, `StartUpgrade`, and two subscriptions that pass results to the
cloud and statuses to the HMI.

**Mock self-installer** (`fake-selfinstaller/mock_selfinstaller.cpp`).  State: one
`g_state` for all threads.  Operations: each accepted phase gets a detached thread,
which for every package stores its state, reads it back and has it published.  Hard:
threads of several phases overlap, without a lock, and outlive the calls that began
them.  Right when no phase is reported done that was not accepted.  (What is published
last need not be what `GetState` answers, and nothing in the code says it should.)

**Node table** (`common/hh_helper.cpp`, `interface/fota.h`).  Lookups by name,
number and address in a table in which several entries share an address.

**Orchestrator simulator** (`orchestrator-simulator/orch-simulator.cpp`).  The
menu, the scripts that call a box through the proxy, and the receiver of its news.

**Https server** (`https-server/`).  A stand-in over vendored libraries: serves the
packages and, at `/file_size`, their sizes ("-1" for what it does not have).

**Not part of the update logic**: `curl_download.cpp` (no caller), `utils.cpp` (one
checksum, one lock, formatting), `tinyformat.h` (vendored), the test programs.

## 2. Modules

| module | stands for | state |
|---|---|---|
| `PackageFile` | a local file opened in append mode, `md5sum` | (operators) |
| `HttpsDownload` | `HttpsDownload::DownloadFrom` in many threads of one process | `files`, `xfer`, `process` |
| `HttpsDownloadProofs` | lemmas about a transfer, for its clients | |
| `FileDelivery` | *abstract*: what a download service owes its caller | `job`, `good` |
| `SelfUpdater` | `UpdaterWrapper::Distribute` and its thread | + `worker` |
| `SelfUpdaterProofs`, `SelfUpdaterDirtyProofs` | the theorems about `SelfUpdater`, in the clean setting and in others | |
| `DownloadClient`, `DownloadClientProofs` | the DLC's manifest handling | + `worker`, `L1_Manifest`, `storing`, `reported` |
| `DlcProxy`, `DlcProxyProofs` | `DLCProxy::DistributeFile` and its thread | + `worker` |
| `NodeTable` | the table of boxes | (operators) |
| `MockSelfInstaller` | the threads of the mock behind a box | `state`, `threads` |
| `UpgradeSession`, `UpgradeSessionProofs` | orchestrator thread, `UpdaterProxyMgr`, `UpdaterWrapper`, self-installer, connection | see below |
| `L1Manifest` | the manifest as `parse_manifest.cpp` reads it | (operators) |
| `DlcService`, `DlcServiceProofs` | DMC `MessagePasser`, DLC, gateway `DLCProxy`, connections, publications | see below |

`HttpsDownload` extends `PackageFile`; the three clients extend `HttpsDownload`,
and `SelfUpdater` and `DownloadClient` instantiate `FileDelivery`; `UpgradeSession` extends `NodeTable` and
`MockSelfInstaller`, `DlcService` extends `L1Manifest`.  `MC*` modules hold the
values of the small instances.

### The download family

A package is a model value with a size; a file is what can be told of it: whether
it exists, how long it is, *which package's prefix it holds* (`of`, or `Garbage`),
and which streams are open on it.  A byte written by a thread that believes it
writes number `pos` keeps the file a prefix only when it lands there
(`Written`); removal leaves an open stream writing to an inode nobody reads.  So
a wrong resume position, a double writer and the body of an error answer all turn a
file into `Garbage`, and lengths alone cannot hide it.

A transfer is an answer chosen by the environment (the range; the whole file, for
an empty range and, unless `RANGES`, for any; an error with a body of a length in
`ErrorBodies`), then bytes one at a time (`Receive`), each a possible place of interruption, then `Complete`
or `Interrupted`.  The clients are written as a program counter per thread, one
action per access to the file system, since another thread or the death of the
process may come between two of them: `exists()`, `file_size()`, `md5sum()`,
`remove()` are steps of their own, and each throws (`Die`) where the code throws
uncaught.  A file that is opened keeps being the one the name refers to until it
is removed.

Constants that name a setting rather than a size:

* `NDEBUG`: the release build compiles assertions out (`CMakeLists.txt.PC:27-28`),
  the debug build ends where one fails.  Both are run.
* `OnePerFile`: whoever sends requests (the orchestrator, the cloud) does not ask for
  a file while an earlier request for it runs.  A request after the other has ended,
  died or failed is allowed.  All runs assume it; without it two appenders spoil a file,
  which nothing in `src/` prevents.  The simulator of the orchestrator does send several
  `Distribute` calls without waiting for their results
  (`orchestrator-simulator/orch-simulator.cpp:320-331`): it keeps to the assumption
  while its user names each file once.
* `RANGES`: the server answers a range with that range.  Without it the server may
  answer any range with status 200 and the whole file, which the code accepts
  (`common/https_download.cpp:215-216`) and appends behind what is there.
* `Leftovers`: what an earlier run, or another program, left at the local paths.
* `Damaged`, `ErrorBodies`: what the https server has and sends.
* `STEP`: `Download::step_` (100), the divisor of the progress report; 1 makes the
  division harmless, 2 makes it trap for a body of one byte.
* `LONGEST`: a bound of the model only.  The gateway's loop has no end, and each
  attempt may make the file longer: none begins on a file longer than this.

### The session and the services

`UpgradeSession` follows the orchestrator's one thread (`gw`: connecting, in a
call, asking the cause of an error, at the menu, at a task of a script) and one box
(`box`, the requests under way `pending`, the answer under way `reply`, the
publications `news`, in order).  A request carries the number of its call and is
*live* while that call still waits: after a time-out, or a connection that broke, it
may be performed all the same, and its answer finds nobody.  `log` is a history
variable: what the self-installer has been asked and has answered.  `Connect`
includes the first call of `Init` (all software versions), `Return` the second call
for the cause of an error, `EndBox` whatever goes with the process.  The box starts
in two steps, since `InitRpc` makes the server in a thread: between them `Deinit`
has nobody to publish through.

`MockSelfInstaller` gives an accepted phase a thread (`Begun`), whose three steps for
each package are the store into `g_state` (`StoreState`), the unlocked read of it by
the wrapper (`ReadState`) and the publication of what was read (`ReportStatus` of
`UpgradeSession`): other threads may come between any two of them.  `CodeOf` leaves the answers open, because the interface leaves them to the vendor;
the mock's own answers are among them.

`DlcService` nests two calls.  `asked` are the DMC's requests at the DLC (`sent`,
then `passed` on), `passed` the DLC's own at the gateway; `linked` says which
connection stands.  `Signature` is what the two ends of each call send and
expect, because the code's ends disagree in places (see findings).  `done` is a
history variable: the calls that were carried out and approved, and how.  The DLC
connects before it serves (`DlcConnect`, `DlcServe`), so that news can come in while
there is no server to pass it on.  Publications are numbered as they are made;
`news` holds the numbers under way on either connection and `seen` the last number
that went to the HMI and to the cloud.  A message is a text by name; `Handling` is
what becomes of it, by `IsWellFormated`, `GetDownloadPackages` and `Outcome` of
`L1Manifest`, where a field is absent, not a string, empty, or a value that names
the half of the package it belongs to.

### Correspondence

Definitions keep the names of the code where there is one
(`Distribute`, `HandleRemoteRequest`, `StoreManifest`, `DistributeFile`,
`GetFileSize`, ...).  The table in `PROJECT.json` ("map") gives the lines of every
definition that stands for code; the comment over an action says which early
return, throw or assertion its branches are.

## 3. What the runs show

Properties marked ◇ are liveness; the others are invariants or say what no step
does.  "Violation" runs state what a document, an interface comment or a test says
and the code does not do; they are the findings of section 7.

| run | states | question and answer |
|---|---|---|
| `SU_clean` | 152,600 | In the setting `Clean` (section 5) the self-updater implements `FileDelivery` (`Delivers`): `eDONE` only over the package byte for byte (`DoneIsVerified`), although nothing is verified after a download; no byte on disk is fetched twice, over retries, deaths and restarts (`FilesNeverShrink`); and the inductive invariant of the proof holds (`CleanInv`): every retry resumes at the end of the file |
| `SU_dirty` | 68,486 | Release build, any leftover, error bodies, whole packages in place of ranges: a package that is complete is never spoilt by later requests, retries or restarts (`GoodFileIsKept`); every accepted request is answered unless the process dies (`Answered` ◇) |
| `SU_debug` | 9,008 | Debug build, a server that honours ranges: the assertions of the download make an `eDONE` file exactly as long as announced (`DoneIsExact`), whatever was there and whatever error bodies arrive |
| `SU_damaged` | violation | A package whose bytes fail the announced checksum is answered `eDONE` / `eOK` |
| `DLC_dirty` | 462,500 | Release build, any leftover, error bodies and whole packages that may overshoot the package, two concurrent manifests over different files: `PackageReady` is said of good packages only (`PackageReadyIsTrue`, `EarlierPackagesStayGood`), the assertions that the debug build would stop at hold but for a file that foreign bytes have made too long (`LoopAssertionsHold`), the DLC implements `FileDelivery` (`Delivers`), each manifest ends in a call or a report (`Concluded` ◇) |
| `DP_any` | 3,075,304 | The gateway's download, from any leftover, with error bodies and whole packages in place of ranges: a `DistributeResult(true)` that comes after no failed attempt which left bytes is said of the package, byte for byte, although a size is all that is compared (`FreshTrueMeansGood`) |
| `DP_error_body` | violation | After an attempt that did leave bytes it is not: the body of an error answer counts in the size |
| `DP_endless` | violation | A server that keeps failing keeps the thread in its loop, and no result is given (◇) |
| `US_session` | 1,518,990 | Two turns of a session over a connection that breaks and a box that restarts, with two phases at work at a time: an error says of the very call what the self-installer has answered (`ErrorsAreHonest`), an answered call leaves no request behind (`AnsweredIsOver`), a run of the script asks for a phase only when the one before was accepted in that run, although its first task is one that sets no outcome (`PhasesInOrder`), no phase is published done that was not accepted (`NewsIsTrue`), a notification names the box it is from (`NewsNamesItsBox`), and the orchestrator's thread comes back from every call (`SessionReturns` ◇) |
| `DS_service` | 938,424 | Two calls of the DMC with six kinds of messages, two publications back, over connections that break and processes that die: true is said only of the very call that was carried out (`TrueIsEarned`), which is then over (`AnsweredIsOver`), no thread is given a package whose fields cannot be read (`PackagesCanBeRead`), the HMI hears nothing twice or older than before (`NewsInOrder`), each call ends (`DmcReturns` ◇) |
| `DS_ready` | violation | `PackageReady` cannot be unpacked by its handler, and the exception ends the DLC |
| `DS_wait` | violation | The DLC's wait for the gateway neither ends in a connection nor in a failure (◇) |

Every property of a passing run is also tried against a plausible bug: the
definitions commented "Mutant" in the modules (a dropped count, a stale resume
position, a file removed unread, a verification left out, an answer that is not
waited for...), each of which breaks the property under the same configuration.

### Bounds, and why they are enough

* Sizes of 3, 2 and 1 bytes.  Three bytes give a first, a middle and a last byte to
  be interrupted at; a file that lacks one byte (the range whose ends are equal);
  and room for a leftover that is shorter, equal and, at 4, longer.  What the code
  compares is only order and equality of lengths.
* `ErrorBodies`: none; shorter than what is missing, so that an error is appended and the
  next attempt goes on behind it; and longer, so that the file overshoots its package
  (`DLC_dirty` {0, 2}; `SU_debug`, `SU_dirty` and `DP_any` {0, 1, 4}).
* `LONGEST` 4: one byte more than the longest package, so that an attempt begins on a
  file that is too long.
* Two or three threads: two requests for one package, one after the other as
  `OnePerFile` demands, and one for another beside them.  Different files do not
  interact but through the death of their process.
* Two attempts instead of ten (`MAX_REPEAT_COUNT`, `MAX_REPEAT_DOWNLOAD_COUNT`,
  `MAX_TRY`): one attempt that is followed by another and one that is the last.
* `MAX_TURNS`, `MAX_CALLS` 2: one call that timed out and one after it, which
  is what late answers and late requests need.
* `MAX_NEWS` 1 in the session: a publication that has not arrived while the next
  phase is accepted, or the box restarts.  `MAX_THREADS` 2, `PARTITIONS` 1: two threads
  at any of their three steps, which is what overlapping needs; each further package
  repeats the three.
* `News` of two statuses: the first is under way, to the DLC or to the DMC, when the
  second is made.  They go to the HMI; that a result on its way to the cloud is not
  overtaken either, by another or by a status, is left to the theorem.  In `DS_ready`
  and `DS_wait` there is no news, and one message: the runs ask for nothing else.
* `Messages`: a manifest with a full image and a delta, one without packages, one
  whose delta has no url, one that is not well formed, a text that is no json, and a
  json that is no request.
* `WORD` 2 or 4 instead of 2^64: the modulus at which an unsigned count wraps;
  `MAX_TRY` 1 or 2 is below it.
* `ScriptNodes` `{"IDCM", "IEM/DVR"}`: a box with an address of its own and one of the
  two that have none.  `Tasks` is the script of the simulator's own comment with one
  task in front, `GetState`, that its loop has no branch for: the outcome is then read
  from a variable that nobody has set.
* `Choices` `{"Rollback", "Distribute"}`: one operation that may be refused and one
  that is always accepted; the others that the menu offers are called in the same way.
  The several `Distribute` calls that the menu may make in a row are a choice each.
* Deaths and restarts are not bounded.  Deadlock is checked in the download runs;
  the session and the services may really stop (`CHECK_DEADLOCK FALSE`): the user
  leaves, the DMC has made its calls.

### Fairness, and why the code justifies it

* `SelfUpdater`, `DownloadClient`, `DlcProxy`: weak fairness of each thread's
  steps.  A thread never waits for another one (there are no locks), so it keeps
  being scheduled, and the time-outs of the https client end a transfer that stalls.
  The interruptions and the arrival of bytes are alternatives of the same step: no
  fairness says that a transfer ever succeeds.
* `UpgradeSession`: each attempt to connect ends (`rpc_client::connect` with its
  time-out), a call that is not answered throws (the time-out of `call`), and the
  thread goes on after it.  Nothing is assumed of the box, the network or the user.
* `DlcService`: the same of the DMC's attempts and calls and of the DLC's attempts to
  connect, and that the DLC connects to a gateway which keeps serving.
* Process deaths, restarts, requests, publications and connections have no fairness.

## 4. Abstraction

* A good answer to a range is that range or the whole file; other lengths, which no
  server sends that has the file, are left out.  To an empty range it is the whole file
  or an error.
* The quality of bytes is a package's or nobody's: two different packages never have
  a common non-empty prefix, checksums never collide, and `eDONE` is about bytes.
* A file's data is visible to `file_size()` when it was written; a trap loses the
  bytes the stream had not flushed only as far as whole steps of `Receive`.
* A restart finds the file as the last step left it: no file-system failure, no full
  disk, no write error (the code looks at none of them).
* rest_rpc is modelled from its use in `src/`: a call is answered, throws by its
  time-out, or throws when its connection is lost; the connection comes back by
  itself (`enable_auto_reconnect`); a publication reaches who is subscribed.
* One thread at the orchestrator and at the DMC make calls; handlers of the DLC
  may be interleaved at the points where they call out.
* `DownloadClient` takes the manifest as its list of packages; the fields of the text
  are in `L1Manifest`, for `DlcService`.  The wording of logs, of error texts and of the
  menu is left out.
* `g_state` is written by several threads without a lock.  Its `state_` is one word, so
  a read gives one of the values stored, which the interleavings of `StoreState` and
  `ReadState` have; its strings, which could be torn, are not told apart.
* What a self-installer accepts is open; what an accepted phase does is the mock's.

## 5. What is proved

The theorems hold for every value of the constants: any number of requests,
packages, files, calls, turns, publications and threads, any sizes, attempts, scripts
and leftovers.  A property keeps its name; its theorem says under which assumption it
holds.

| module | theorems | assuming |
|---|---|---|
| `SelfUpdaterProofs` | `TypeCorrect` | the named assumptions on the constants |
| | `CleanInvariant`, `CleanDoneIsVerified`, `CleanFilesNeverShrink`, `CleanDelivers` (the refinement), `CleanDeliveredStaysGood` | `Clean` |
| `SelfUpdaterDirtyProofs` | `DebugDoneIsExact` | `Debug`: the debug build, one request at a time for a file, a server that honours ranges; any error bodies, any leftover |
| | `GoodFileIsKeptAlways` | `SeparateFiles`: one request at a time for a file, no two packages of one filename; any server, any leftover, either build |
| `DlcProxyProofs` | `TypeCorrect` | |
| | `FreshTrueMeansGoodAlways` | `TrueBytes`: one call at a time for a file, packages that match their checksums; any error bodies, ranges honoured or not, any leftover |
| | `CleanTrueMeansGood` | `Clean`: besides, ranges are honoured and error answers have no body (`DP_error_body` shows that the latter is needed); any leftover |
| `UpgradeSessionProofs` | `TypeCorrect`, `ErrorsAreHonestAlways`, `AnsweredIsOverAlways`, `NewsIsTrueAlways`, `AskedOnceAlways` | |
| | `PhasesInOrderAlways` | `OrderedScript`: the script asks for each phase after the one it needs |
| | `NewsNamesItsBoxAlways` | `~PC_SIMULATION`: the build for a vehicle |
| | `SimulationNamesFirstBox` | `PC_SIMULATION`: the build for one machine |
| `DownloadClientProofs` | `TypeCorrect` | |
| | `EarlierPackagesStayGoodAlways`, `PackageReadyIsTrueAlways`, `LoopAssertionsHoldAlways` | `SeparateFiles`: running requests share no local file, nor do the packages of one request; any server, any leftover, either build |
| | `DeliversAlways` (the refinement), `DeliveredStaysGood` | `SeparateFiles` and `OneFileEach`: no two packages of one filename either; any server, any leftover, either build |
| `DlcServiceProofs` | `TypeCorrect`, `TrueIsEarnedAlways`, `AnsweredIsOverAlways`, `NewsInOrderAlways`, `WorkersReadTheirPackages` | |
| | `MessagesAreHandled` | `NDEBUG`: the release build |

### The self-updater

* `TypeCorrect`: `TypeOK` is an invariant, with no assumption but those on the
  constants.  It bounds the count of attempts and is not inductive alone: `TypeInv`
  adds that a thread in the loop has an attempt left.
* `CleanInvariant`: under `Clean`, `CleanInv` is an invariant.  `Clean` is the
  setting in which the absence of a check after the download does no harm: one
  request at a time for a file, packages that match their checksums, ranges that are
  honoured, error answers without a body, no two packages of one filename, and
  leftovers that are parts of their package.  Each conjunct is needed: `SU_damaged` drops the second, and with
  the others dropped one by one TLC finds counterexamples to `DoneIsVerified` too.
* From it `CleanDoneIsVerified` (`DoneIsVerified`) and `CleanFilesNeverShrink` (`FilesNeverShrink`).

The argument.  What one wants is "`eDONE` implies the package is on disk"; it is not
inductive, since it says nothing of a transfer under way.  `CleanInv` adds

1. `OneWorkerPerFile`: active threads work on different files.  It lets every step be
   looked at as a step on one file (`OwnStep`, `QuietStep`).
2. `FilesArePrefixes`: each file holds a prefix of its package.  So a length is a
   verdict: a file that is as long as its package *is* the package (`LenIsGood`).
3. `Knows(w)` for every thread: between attempts its position is the end of the file
   and the file is not whole; in a body its next byte is the file's next, and what
   is still to come is what is missing; "ok" is reached with nothing missing.  A
   thread never reaches "remove", nor compares the checksum of a bad file.

`CleanDownload` goes through the steps of a transfer, `CleanNext` through the rest of
the thread, `DeathKeepsCleanInv` and the last step of `CleanNext` through a death and
a restart.  `WhoPublishes` finds the two steps that can publish `eDONE`.
`DownloadGrows` shows that no step of a transfer takes a byte away; in the clean
setting no file is removed.

**The refinement** (`CleanDelivers`).  A job of `FileDelivery` is read off a thread's
`pc` and result.  `DeliverySteps` states what each abstract step is in terms of two
job states; `DeliveryNext` takes the steps of the thread one by one and names the
abstract step or the stutter.  The step that needs the invariant is the one that ends
a job well: `LongEnoughIsGood` and `DownloadGood` turn "nothing is missing" into "the
package is there", which is what the abstract step demands.  `CleanDeliveredStaysGood` is
then a matter of the abstract specification alone: there a delivered job is never
undelivered and a good package never lost, and the refinement carries both over.

**The debug build** (`DebugDoneIsExact`).  Without the clean setting the bytes of a file are
anything, and its length is all that is known.  `ExactInv` keeps `Counts` for every thread: in a
body that answers the range asked for, the next byte is the file's next and what is to
come is what is missing, so "ok" is reached at the announced size.  The bytes of an
error answer break the count of the *file*, not of a transfer that is good: the next attempt
starts from what the file then holds, and where that is too much to ask for, the assertion
on the range (https_download.cpp:144-151) or on the interrupted transfer (228) ends the
process before a second count begins.  That a range is answered by that range cannot be
left out: a server that answers it 200 and the whole file makes even the debug build
publish `eDONE` over a file that is too long (https_download.cpp:215-216).  `ExactStep` looks at a step as one of a thread and its
file, `ExactDownload` goes through the steps of a transfer, `ExactNext` through the rest.

**Any setting** (`GoodFileIsKeptAlways`).  A thread may leave any rubbish behind, and yet it
never harms a package that is complete: a stranger's thread writes to other files
(`OthersAreSpared`), and the thread of its own package finds a complete file either by its
checksum, and stops, or at the end of a transfer it made itself, which leaves nothing
to write.  `Spares` says this of every place of a thread, `SpareInv` of all threads.
`DownloadFetches` of `HttpsDownloadProofs` is the step of a transfer, for any server: the
byte that makes a file complete is the last of its transfer, since a range ends where its
package does, and an attempt that failed did not leave the file complete.  The debug build may end on the way;
the release build may divide by zero on the way; neither takes a byte with it.

### The DLC's download

`EarlierPackagesStayGood` needs to know who writes to a file.  `Moves` says what a step
can be for a thread (nothing, the beginning of its request, the step to the next package
from a good one, a step at the same package), and `StaysGood` that a good package is
spoilt only by a thread that is downloading to, or removing, its very file.  `Apart`,
that running requests share no file, then leaves only the thread itself, and it is at
another package.  `GoodInv` adds that at the call all packages are good.  Nothing is
asked of the server: the checksum after the download is what makes the difference to
the self-updater.  Without `SeparateFiles` the statement is false: a package removes
its namesake.

`LoopAssertionsHold`: `LoopKnows` says that bytes beyond the package are foreign ones, since
a transfer in which each byte comes to its place ends where the package does, and `GoneIsEmpty`
that a removed file has no stream open on it, so that it starts from nothing.

**The refinement** (`DeliversAlways`).  The abstract specification lets nothing good be lost,
so a thread that is fetching a package must be known not to be fetching a good one.
`FetchInv` says of each thread that what it still has to write goes to a file that is
not good, or is the end of one that becomes good by it (`Fetches`, the same notion of a
transfer as above); that a file is replaced only where it was found bad (`Replaces`); and that
a report goes with the end of a request (`ReportAtEnd`), which tells a failed job from a
delivered one.  `DeliveryNext` names the abstract step of each step.  Nothing is asked of the server,
the leftovers or the build; that no two packages share a filename is needed, since
otherwise a package is lost to its namesake, even to one of a later request.
`DeliveredStaysGood` follows from the abstract specification.

### The gateway's download

The earlier copy is removed first, so that nothing depends on what was there, nor on
distinct filenames.  What a size that fits is then worth depends on the attempts before:
`CallInv` of `DlcProxyProofs` knows two things of each call.  `KnowsFresh` is for any
server: while no failed attempt has left a byte (`current` is 0), the transfer under way
began on a new file, and a good answer is then the whole package, as a range from 0 or
otherwise; what was measured at the size of the package *is* the package.  This is
`FreshTrueMeansGood`.  `KnowsPrefix`, in the clean setting only, is `Knows` of the
self-updater again: the file holds a prefix of the package over any number of attempts.
`DownloadStartsAfresh`, `DownloadIsItsOwn` and `DownloadFollows` of `HttpsDownloadProofs`
are the steps of a transfer.

### The session

`ErrorsAreHonest` speaks of one call and the log; it is not inductive because of what is
still under way.  `CallInv` adds that a call has one request at a time, that only the
request waited for is live, that the self-installer is asked once for each call
(`AskedOnce`), and what the thread knows from where it is (`AnswerIsTrue`): an answer
under way is the one in the log, and nothing is left of a call that is answered.  Late
requests are harmless because they bear the number of an earlier call.

`PhasesInOrder` needs `ScriptInv`: the tasks before the present one were accepted in this
turn (`ScriptSoFar`), where a task that is passed over tells nothing, and whatever phase is under way or performed follows its own
(`FollowsItsPhase`), late ones too, because what was accepted stays in the log.
`NewsInv` carries the same argument from the log to the threads of the self-installer,
to `g_state`, and to the publications.

`NewsNamesItsBox` rests on the table: `AddressNamesItsBox` goes through its twelve entries
and shows that an address that is defined is of one box only.  `NamesInv` adds that a
box without an address is never connected, so that nothing comes from it.  In the build
for one machine the property is false for every box but the first, and
`SimulationNamesFirstBox` says what is true instead.

### The services

`CallInv` of `DlcServiceProofs`: a call has one request at the DLC and one at the gateway,
the second only once the first was passed on (`OneRequestPerCall`), and an answer "true"
waiting at the gateway speaks of a call that is done (`AgreedIsDone`).  A lost
connection or a dead process only takes requests away (`FewerRequests`,
`OrphansAreFewer`), and an answer leaves nothing of its call (`AnswerKeeps`).
`NewsInv`: the numbers rise along each connection, all that is under way to the DMC is
older than all that is under way to the DLC, and both are newer than what was seen.
Losing either connection leaves this true, which is why nothing goes back in time
although nothing is numbered in the code: one connection carries both topics in order.

`WorkersReadTheirPackages`: that each field of a package can be read is not what
`IsWellFormated` ensures, which does not look at a delta.  `PackagesAreReadable` shows that the reading
itself stops every manifest that would fail later, and the type invariant that only
such manifests get a thread.  `MessagesAreHandled` is about the other end: in the
release build there are no assertions, so the first place at which a manifest fails
(`FirstPlace`, a least element in the order of reading) is an exception, and
`OutcomeInRelease` says which manifests are read to the end.  Both rest on
`ArrayAssumption`, that the packages of a well-formed manifest are a list of finite length.

**Only model-checked**: liveness (`Answered`, `Concluded`, `SessionReturns`, `DmcReturns`),
which is out of the proof system's reach.  All invariants, action
properties and refinements of the passing runs are proved.

## 6. What is not modelled, and why

* `GetFileSize3`, `HttpsDownloadToString`, `curl_download.cpp`: no component calls them.
* `https-server`: a stand-in; its answers are `Answers` of `HttpsDownload`, its
  `/file_size` an outcome of `GetFileSize` of `DownloadClient`; uploads and configuration
  are left out.
* `dlcstatus.cpp`: the constructor of a report discards the error and the manifest it is
  given (`idcm/dlc/inc/error.h:27-30`), and its text is made of constants and reaches
  nobody.  That a report was sent for a request is `reported` of `DownloadClient`.
* The case of the IDCM box in `Distribute` (`updaterwrapper/updaterwrapper.cpp:247-260`),
  which only looks whether the file exists.  What its answer is worth depends on when the
  orchestrator asks, which is outside of `src/`; and as the code stands the orchestrator
  cannot be told when the DLC has finished (`DS_ready`).
* Requests for one file that overlap, and packages of one manifest with one filename: see
  `OnePerFile` and `SeparateFiles`.  The code neither excludes them nor promises anything
  of them.
* `SyncLock` of `utils.cpp`: only test programs wait on one.
* The mock's reading of its configuration, the format checks of the simulator's script
  and the printing of its receiver: no state of the system depends on them.
* The conversion of a status for the HMI, field by field (`msg-passer.cpp`).
* The build of `NodeTable` for a single machine (`PC_SIMULATION`) is not run: there all
  boxes share an address, and a notification names the first of them
  (`SimulationNamesFirstBox`).
* `GetState` of the script has no branch in the simulator and is passed over: this is
  modelled (`PassOver`), as is the uninitialised error that a first such task returns.

## 7. Findings

Each is a run that TLC ends with a counterexample.

1. `SU_damaged` (`updaterwrapper/updaterwrapper.cpp:323`).  After its download loop
   `Distribute` publishes `eDONE` / `eOK` without looking at size or checksum.  The
   request carries the checksum (`interface/rpc.h:103`), and `DownloadError::eMD5` exists
   and is printed as "Wrong checksum" (`orchestrator-simulator/orch-simulator.cpp:108-109`)
   but never sent.  The same missing check makes a leftover of the right size with
   wrong bytes `eDONE` in the release build: the download "resumes" at its end.
2. `DP_endless` (`cgw/dlc-proxy/dlc-proxy.cpp:113`).  `repeat_count` is never incremented.
3. `DP_error_body` (`cgw/dlc-proxy/dlc-proxy.cpp:123`).  The body of an error answer is
   appended before its status is looked at (`common/https_download.cpp:157`); the next
   attempt asks for the rest behind it, the size fits, and the orchestrator is told true
   of a file that is not the package, where the interface promises the result of "the
   file identified by url" (`interface/dlc-proxy-public.h:36-37`).
4. `DS_ready` (`idcm/dlc/main.cpp:45`).  `PackageReady` is called with one argument and
   handled with two (`dlc-proxy.cpp:62`): the call throws in a detached thread and the
   process ends, where the orchestrator should be told.
5. `DS_wait` (`idcm/dlc/main.cpp:149`).  The attempts are counted in a `size_t`, so that
   `count >= 0` always holds: the DLC does not "take 10 seconds to wait" (main.cpp:148)
   but waits for ever, and its branch for a failure (main.cpp:215) is dead.

Met on the way and part of the models, without a run of their own:
`CheckNewPackage` is answered with an `UpgradeInfo` and unpacked as a string, so that
it always throws (`Signature`); an error body as long as what is missing breaks the
assertion that a failed attempt leaves less than the package (`dlc-proxy.cpp:119`,
`DownloadFails` of `DlcProxy`); two packages with one filename on different paths share
a local file and a size (`downloadclient.cpp:43`, `https_download.cpp:62`); in the
debug build the assertion after the attempts of `UpdaterProxy::Init` stands where the
count is 0 and not below (`GiveUpConnecting`); error reports are published on "cloud",
to which nobody subscribes (`DownloadFails`); the manifest of the DLC is gone after a
restart, and `StartUpgrade` then passes an empty one; an `Upgrade` that timed out may
be performed after an acknowledged `Rollback`.

## 8. Plan

Done: the download family and its abstract specification, the session with the
self-installer behind it, the services with the manifest's fields and the publications
back; the theorems of section 5.

Left, in this order:

1. `DlcProxy`: an abstract specification of a delivery that fetches anew.  `FileDelivery`
   does not fit it: an earlier copy is removed first, the good one too.
2. `NodeTable`: the other build as a run of `UpgradeSession` whose script names two boxes.
