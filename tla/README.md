# A TLA+ model of libglitchcore

libglitchcore is a VPN client core. It runs one of three engines (xray, awg,
mihomo) at a time behind a small FFI interface, in the host's own process or, on
Windows, in a service that the host reaches through pipes. These modules model
who may start and stop an engine, what a start takes and gives back, what a
session reports and leaves behind, how traffic crosses the bridge, and how a
profile and its links become rules and outbounds.

## The system

| part | source (`src/internal/...`) | modelled in |
|---|---|---|
| session controller | `core/engine_session.go`, `controller.go`, `serverstate.go` | `EngineSession` |
| engine bring-up, geo assets, xray's dialer | `core/xray.go`, `engine_mihomo.go`, `awg*.go`, `tun2socks_bridge.go`, `geoassets.go`, `xraydialer` | `BringUp` |
| Windows routes | `core/tun_windows_config.go` | `WindowsTun` |
| status delivery | `core/status_sink.go`, `ffi_helpers.go`, `src/main.go` | `StatusSink` |
| Windows service, pipes, stats loop | `core/service_windows.go`, `ipc_windows_client.go`, `stats.go`, `engine.go` | `ServiceIPC` |
| external address | `core/ipresolve.go` | `IpResolve` |
| link state | `core/liveness.go`, `liveness` | `LinkWatch` |
| traffic of mihomo | `core/engine_mihomo_traffic.go` | `MihomoTraffic` |
| server in use | `core/xray_selection.go`, `serverstate.go` | `ServerWatch` |
| bridge, TCP and UDP | `core/bridge_pipe.go`, `bridge_flow.go`, `engine_mihomo_bridge_*.go`, `xray_bridge.go` | `BridgePipe` (implements `HalfStream`), `BridgeFlow` |
| routing and DNS | `routing`, `xrayconfig/routing.go`, `dns.go`, `mihomoconfig`, `core/bridge_proxy.go` | `Routing`, `RoutingEngines` |
| links | `xrayconfig`, `mihomoconfig`, `pinger`, `core/awg_pick.go`, `serverinfo` | `ShareLinks`, `LinkProbe`, `ServerNames` |
| sniffing exclusions, AmneziaWG files | `xrayconfig/socks.go`, `awgconfig` | `LocalPrefixes`, `AwgConfig` |

How they interact. A start arms liveness, selection watch and address resolver
for its session while it holds `coreMutex`; a stop ends them from the caller's
thread without it, then closes the engine on a goroutine that takes it. Both
tell the host by `emitStatus`. A session is known by the generation
(`sessionGen`) its start read; a stop moves the generation. `EngineSession` is
about who runs, with the body of a start as success or failure; `BringUp` opens
that body, with one start or stop at a time as `coreMutex` makes it;
`SessionReport` composes the four reporters of a session and `Links` the four
parts that make something of its links. The parts of these two share no state,
so a behaviour follows one of them (`part`) and leaves the others at rest.

## The modules

**EngineSession.** One step is one access to state another goroutine can see. A
start is `startPc[r]`, from its handler's guards through `beginStart`, the body
under `coreMutex` and the tail (`NotStale`, `AbortStale`, `EmitConnected`, the
`Failed...` steps of `clearSessionState`); a stop is `stopPc[p]`, its handler and
then its goroutine. A loop or cached state is the generation that armed it.
`report` is the last session event a client was told. `OneCaller` says whether
calls overlap: one UI thread, or the service, which serves each command
connection on a goroutine. `connectedAtUnixMs` and the server and address events
of a replay are left out.

**BringUp, WindowsTun.** `held` is what the process holds for a session, `fd` who
owns the copy of the TUN descriptor, `env`/`saved`/`geoFolder`/`ipLists`/
`siteLists`/`home` the geo folder as environment, caches and mihomo see it,
`dialer` the instance behind xray's process-wide system dialer. Every step of the
three starts can fail, and the failure runs the code's own rollback. Pings build
instances at any moment. On Windows the default gateway changes at any moment, so
each lookup has its own answer; a route through a gateway that was found is taken
to be added, and a server whose name does not resolve beforehand gets no host
route in the code either and is left out. The app sets its geo folder once. A stop
that outlives its five-second timeout is taken not to overlap the next start.

**StatusSink.** An event is an identifier, its kind (log events may be shed,
others not) and, as history, the events that waited when it was emitted. `Emit`
to `Offer` are the steps of `emitStatus`, `DrainTake` and `DrainEnds` those of the
drain, `Post` to `CloseFlag` those of the callback `main.go` registers. Host
isolates die, restart and register again; that a post to a dead isolate fails is
external (`Dart_PostCObject_DL`).

**ServiceIPC.** App and service are two processes with a controller each. A thread
that calls the service is blocked until its answer, so it is the handler's thread
too and `where` names the process it runs in. The statistics transition
(`statsTransMu`, stop, wait for done, register) is stepped in both; events of
the service come back through the hub's bounded channel. The service may end at
any moment. A local pipe loses an answer only with the process at its other end.
One start and one stop goroutine per process; the settings commands and
`engine_status` are left out.

**IpResolve.** `configureIPResolve` and `stopIPResolve` hold `ipFetchMu` and are
one step each; the worker's two loads, its fetch, store and event are separate.
`owed` is history: a trigger was accepted and no round has begun since.

**LinkWatch.** Callers take the registered loop out, close its quit, wait for its
done and reset the link, each a step; the loop probes or samples, debounces and
stores. `real` and `writer` are history: failures in a row, and the loop that
wrote the link. That `startLiveness` returns early with neither probe nor sampler
is not reached by its callers.

**MihomoTraffic.** One direction, in chunks. DIRECT chunks are counted before the
manager's total sees them; session start and read take `mu`, the counters do not.
`carried` is history: DIRECT chunks that straddle a session's start.

**ServerWatch.** Polls compare the outbounds' counters; the pick is the picker's
own scan with its floor and its lead over the runner-up.

**HalfStream, BridgePipe.** `HalfStream` is what the bridge promises an app's TCP
connection. `BridgePipe` is the code's select loops over unbuffered channels, one
reader and one writer per end, with half-close, close and read deadlines at any
time.

**BridgeFlow.** A UDP flow: the deadline with its mutex, timer and channels, the
reader, the writer with mihomo's session check, xray's reply pump, and close.

**Routing, RoutingEngines.** The state is a profile that grows one matcher at a
time. `Routing` has classification, order and the guard steps of a tier, and the
outcome the documentation defines; `RoutingEngines` has the rules `applyRouting`
and `buildRules` write, the desktop dialer in front of them and xray's DNS
servers. Text is a sequence of labels or bits. Left out: port 53 under fake-ip
and addresses of the fake pool, `Validate`'s rules on characters, proxies without
UDP, `directServers` beside no usable general server. How the engines match a
rule, and what a category holds, is external.

**ShareLinks, LinkProbe, ServerNames.** A link is a record of the choices the
builders tell apart. `ShareLinks` is what each builder makes of it: a security
layer, a gap, or a refusal. `LinkProbe` runs a batch with its semaphore, pin and
fallback, and the awg pick. The public or private dial address of a link does not
change; a REALITY key is a field only where a builder checks it. `ServerNames` has
the lists of servers, tags and names that must agree on positions. Each is made by
a loop of its own over the same links that only appends, so one step takes every
loop past one more link: after it the lists are what the functions return for the
links so far. Two of the seven names mihomo reserves stand for all.

**LocalPrefixes, AwgConfig.** `prefixesWithout` over every prefix of a small
address width, and the two readers of an AmneziaWG file fed line by line. Blank
values and control characters are left out; the engines' own parsers are
external.

## Runs

| run | instance | shows |
|---|---|---|
| `session_overlapping` | xray and awg, 2 starts, 1 stop, 1 client, calls overlap | one engine at a time; a stop is final for earlier starts; probes are those of the running instance; nothing a session armed outlives it; a live session has its stats loop; the current session's instance survives |
| `session_progress` | xray, 2 starts, 1 stop, fair | every call ends; every stop that is taken takes effect |
| `sink` | a caller with 2 emitters, or with 1 and 2 isolates; queue of 1, 3 events, fair | emission order, only log events are shed, every queued event leaves the queue |
| `bring_up` | 7 requests, 3 platforms, 2 gateways, 2 servers | a start leaves everything or nothing; geo lists and dialer are the session's; a Windows TUN is routed |
| `service_ipc` | 2 threads, 2 commands, hub channel of 1, 1 crash, fair | the service's stats loop is owned; calls return; a replay restores the client's view unless its event was shed; a stop of a local session stays local |
| `session_report` | address: 2 triggers, 2 sessions, 2 stops, 3 triggers accepted. Link: 2 callers, 2 loops of 3 observations, down after 2. Traffic: 5 chunks. Server: 3 tags, growth to 4. Fair | a stored answer is of the current generation and every accepted trigger gets a round; a link verdict has a loop or a stop to reset it, and stops return; a session reports what was proxied; the server named stands out |
| `bridge_pipe` | one end writes 2 bytes, the other empty writes; chunks to 2; one end with deadlines, fair | each direction implements `HalfStream`; a close releases whoever waits |
| `bridge_flow` | queue of 1, 3 deadlines, 2 datagrams, fair | a waiting read sees the deadline in force; close and set come to an end |
| `routing` | profiles of 2 tiers and 3 matchers from 5 that overlap, 10 flows, 3 settings | steps mean their tier; both engines' rules, alone and behind the desktop dialer, give the documented outcome; direct dials are held to their tier; resolvers answer the names meant for them |
| `links` | every combination of the fields the builders read, batches of 3, 2 slots; 4 remarks in a row; addresses of 4 bits; 2 peers, fair | a link is never moved past a safety refusal and is carried as it names; the awg link started is the one picked, and the best; positions agree; sniffing skips exactly the local networks outside the pool; two readers of a file agree; batches return |

Bounds. Two starts and a stop are the least with which a start can be replaced,
superseded and raced; stops that race each other are covered by the theorems. A
queue of one with three events overflows with and without log events in it. The
second emitter and the host restart are taken in behaviours of their own
(`MCStatusSink`), since together they are out of reach. Two requests in a row are
enough for one to find what another left; `BringUp` bounds no behaviour's length.
A hub channel of one sheds at the second event. Two tiers and three matchers give
a tier an exception, a rule of another plane, and a later tier to fall through to.
Starts are interchangeable, as are stops; no symmetry is used with fairness.
`CHECK_DEADLOCK FALSE` stands where a behaviour ends by its bounds or because its
users may leave: a closed connection, a finished profile, a batch that returned.

Fairness is weak fairness of each goroutine's next step, which the Go scheduler
gives, and strong fairness where a goroutine waits for a mutex that is taken
again and again, which Go's mutex hands to its waiters. `coreMutex` is taken
finitely often in a behaviour, so weak fairness suffices. The sink returns
promptly, as its comment demands, and probes end by their timeout. That a caller
calls, a host restarts, a service ends, or a user closes is never assumed.

Two runs refute a sentence of the repository; the findings quote it.

| run | instance | what the code does |
|---|---|---|
| `liveness_leak` | awg, 1 start, 1 stop | a loop armed between a stop's `stopLiveness` and its generation change is never ended |
| `stats_orphan` | as `service_ipc`, 4 commands, no crash | an engine that engages between the two questions of one stats transition leaves two open loops, one unreachable |

## Races without a run

The code lets these happen. No run of the project checks them; TLC found the
first nine on these modules, and the rest were met in modelling the code.

- `finishStart` checks its session (`engine_session.go:171`) and emits connected
  (`:176`) with nothing held between; a whole stop in between is followed by
  connected. `:172` says "stopped during startup; not publishing connected state".
- Disconnected (`:201`) is emitted after `coreMutex` is released and can follow the
  connected of a later session. `engine_session_test.go:213` names the failure "a
  disconnect reported over B's session".
- `engaged` (`:37`) loads `running` and then `startsInFlight`; a start that comes up
  and ends in between is seen by neither, and a stop of it is refused.
- `abortStaleEngineSession` (`:125`) looks for a later instance of its own engine
  only, so the tail of an ended start can end another engine's loops, or leave
  the ended session's watch beside a session that armed none.
- A post that failed on a dead port clears whatever is registered by then
  (`main.go:87`), the new isolate's registration included.
- The address worker loads configuration and generation in two steps
  (`ipresolve.go:119`); a stop in between lends the old dial the new generation.
  The address is also emitted after the lock that checked it (`:96`).
- With two exports in progress, as in the service, the first to return clears
  `inFFICall` for both (`ffi_helpers.go:5`), and the other's events are delivered
  inside its export. `sink` has one caller.
- A start that fails because another engine came up first moves the generation of
  that engine's session (`clearSessionState`).
- `replaySession` asks `engaged` and tells a client connected while the session is
  still starting.
- A start of the liveness loop can have its link reset by the late stop of the one
  before.
- Two stops of a proxy-mode session at once: the second can find it ended and
  forward its `stop_stats` to the service.
- The hub drops an event of any kind when a subscriber's channel is full, and a
  replay that runs before the client subscribed reaches nobody.
- DIRECT chunks counted before a session's mark and totalled after it are reported
  as proxied; `OnlyProxied` allows for exactly these (`carried`).
- mihomo in proxy mode takes the copy of a TUN descriptor that nothing owns
  (`engine_mihomo.go:382`). The requests of `bring_up` carry a descriptor in TUN
  mode only, so `AllOrNothing` does not speak of this case.
- `cleanupTun` deletes through the gateway of the moment, and nothing but the
  adapter's own routes when the adapter is gone (`tun_windows_config.go`), so host
  routes and exclusions of an earlier gateway or session can stay. `TunRouted`
  speaks of what a session needs, not of what earlier ones left.
- On the desktop a flow of a direct application leaves before any rule of the
  profile, kill switches included (`core/bridge_proxy.go:63-89`), while
  `routing/routing.go:63` puts these first in the priority and `:86-87` blocks IPv6
  "ahead of every other rule". The
  reference in `RoutingEngines` (`BridgeDocumented`) takes the dialer as it is.

## Proofs

Every safety property the passing runs check has a theorem, but for those of
`Routing` and `RoutingEngines`. None of the properties is inductive alone; each
proof names its strengthening, and the proofs go action by action over it.

`EngineSessionProofs`, for any finite set of starts, any stops and clients, and any
subset of the three engines: `TypeCorrect`, `OneEngineAlways`, `StopIsFinal`,
`SessionSurvives`, `ProbesFollowInstance`, `StartsAreCounted`, `NothingLeftBehind`,
`LiveSessionsReport`. The invariant `IInv` says: the start in its critical section
holds `coreMutex` and there is no other (`MutexHeld`); every mark, stop generation
and instance generation is at most `sessionGen` (`Bounded`); a start about to bring
its instance up finds no engine running and is as new as every stop that closed one
(`Clear`); from then until it unlocks, the running instance is its own (`Owned`); a
probe of another session is about to be replaced by it (`Probes`). A stop is final
because `prepareStartLocked` compares the start's mark with the generation under
the lock, where `Bounded` puts every stop so far at most at that generation, and a
later stop that closes the engine takes the same lock. `SessionSurvives` is an
action property: only a replacement, a rollback or a stop takes an instance down,
and the first and last only one of an earlier generation. `StartsAreCounted` rests
on how cardinalities move. The last two need `SessionEnds` besides: whatever is
armed while no instance of the current session runs has somebody left to end it, a
stop that has yet to come to it, a failed start that clears, or a start that has
yet to find out that its session ended (`LoopsGuarded`); and a session that runs
has its statistics loop, or a start, a stop or a replay that has yet to take the
step that settles it (`StatsComing`).

`StatusSinkProofs`, for any goroutines, events, isolates and queue limit:
`EmissionOrdered` and `LifecycleNeverShed`. Order holds because an event on its way
to the queue is one that nobody waits for yet (`Unawaited`), the queue holds no
event that waits for a later one (`InOrder`), and the drain runs exactly while the
queue says so (`Drains`), so that an event posted directly finds nothing queued.
That the queue sheds logs only is an action property over `FewLogs`.

`BringUpProofs`, for any requests, servers, gateways and geo folders:
`StartAllOrNothing`, `ListsOfSession`, `DialerStaysOfSession`,
`SessionsAreRouted`. The invariant says what the process holds at each step of a
start or its rollback (`Plan`), who owns the TUN copy (`Copy`), that environment
and saved value hold the app's folder between them and that lists are those of the
folder they were read from (`Folders`), and that a configured adapter has its
routes (`Routes`). It assumes that no request for mihomo in proxy mode carries a
descriptor: there the code's copy has no owner (see above).

`ServiceIPCProofs`, for any number of the app's threads, commands and crashes and
any length of the hub's channel: `ServiceHasOneLoop` and `LocalStops`. The first
rests on who is inside the service's transition: its mutex is held by exactly the
thread in it (`Locked`), a thread is there for the app only while its own side waits
(`Threads`), and each step of a transition knows which loop is still there
(`Owned`, `Unregistered`).

`SessionReportProofs`, about the component specifications `SessionReport` composes
(`Spec` of `IpResolve`, `LinkSpec`, `TrafficSpec`, `WatchSpec`):

- address, for any bounds: `ResolverTypes`, `AnswerOfGeneration`, `TriggersKept`,
  from the invariant that `ipFetchBusy` says whether the worker runs and that only
  a running worker is asked for another round;
- link, for any callers, loops and threshold: `QuitsClosedOnce`, `VerdictHasOwner`,
  `DownConfirmed`, from who holds which loop (`Held`, `QuitOpen`, `LoopsOwned`) and
  from the tracker's count being the failures in a row (`DownCounted`);
- traffic, for any amount: `ReportsOnlyProxied`, `ReportsNeverShrink`, from a
  balance: what the total has and will see is the mark, the proxied, the carried and
  the DIRECT chunks (`Balance`), and a read is never ahead of the total;
- server, for any number of tags, floor and lead: `PicksStandOut`. The loop of the
  picker is a recursive function; that it exists (`ScanExists`) and that it keeps the
  loop's invariant `Counted` (`ScanCounts`) are inductions on the tags, and
  `PickLeads` concludes that the picker names a tag exactly when that tag leads.

`LinksProofs`, about the component specifications `Links` composes:

- `NamesLeadBack`, for any links and remarks: the names handed out are apart
  (`NamesApart`) and the four lists grow together (`ListsTogether`). That
  `uniqueName` finds a free name among its first candidates is a count: fewer names
  are used than there are candidates, and distinct candidates are distinct names;
- `PoolStaysSniffed`, for any address width, any set of networks and any pool:
  `Covered` shows that `prefixesWithout` covers exactly the base without the hole,
  by the first bit in which an address leaves the hole;
- `AwgReadersAgree`, for any lines: as long as `ParseToUAPI` has refused nothing the
  two readers hold the same (`SameSoFar`);
- `FallbackKeepsSafety` and `PickedLinkRuns`, for any batches, pools, slots and
  links: a builder's result is a refusal, a gap or the layer the link names
  (`BuiltAsNamed`), a gap passed every safety check (`GapIsSafe`), a goroutine
  writes its own link's result alone (`GoingSafely`), and nothing is measured any
  more when a pool is picked from (`Quiet`, `PoolStage`).

`BridgePipeProofs`, for any chunk sizes and amounts: `ExchangesPaired` (a writer
waits for an answer exactly when a reader holds its chunk) and `PipeIsHalfStream`,
the refinement: the initial state maps to one of `HalfStream` and every step to a
step of it or a stutter. The invariant ties the end of stream to the channels that
are closed; it is what keeps a read from getting bytes after an end of stream.

`BridgeFlowProofs`, for any number of deadlines and datagrams:
`ChannelsClosedOnce`, `WaitersSeeDeadlines`, `LateDatagramsRefused`. The invariant
says that a set past its wait finds no timer pending on the current channel, and
that a fired timer's channel is open until it closes it.

Inductions over data take the least counterexample (`LeastNatural`, from the
well-foundedness of the naturals), since the library's induction theorems take a
predicate as a parameter, which the provers cannot instantiate.

Assumptions are those the modules name: the engines are among the three, starts
are finitely many, bounds are naturals, thresholds are positive, batches, pools and
remarks are sequences, threads are not process names. Where a theorem's property is
in no run (types, `CountedStarts`, `NoLostTrigger`, `ExchangePaired`,
`NoDoubleClose`, `LateDatagramRefused`, `NeverTakenBack`, `QuitClosedOnce`,
`DownIsConfirmed`) the proof is what shows it.

Only model-checked, and so for the instances above: the properties of `Routing` and
`RoutingEngines`, whose operators sort, flatten and select sequences by operators
the library takes as parameters; and every liveness property (`CallsEnd`,
`StopTakesEffect`, `QueueDrains`, `CallsReturn`, `ReplayRestoresUnlessShed`,
`TriggersServed`, `StopsReturn`, `ProbeReturns`, both `CloseReleases`), since
fairness and `ENABLED` are out of the prover's reach.

## Not modelled

- Text formats: links (`sharelink`, `vmesslink`), `vlessencryption`, the checks of
  `dnsconfig`, JSON payloads, log lines and their redaction (`logfmt`). They are
  functions of text without state; `ShareLinks` takes their outcome as fields.
- Lookups in tables of the operating system (`conninspect`, `procname`), memory
  limit, profiling, platform calls.
- `loopbackport`, which only tests use.
- Addresses, metrics and DNS of the Windows adapter; the framing of the pipes.
- Closing an engine after its five-second timeout, alongside a later start:
  what the engines do then is not in this repository.
