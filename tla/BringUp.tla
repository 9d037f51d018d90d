------------------------------- MODULE BringUp -------------------------------
(***************************************************************************)
(* What a start of each engine takes and gives back, step by step, with a  *)
(* failure at any step: xrayStart (core/xray.go), mihomoStart              *)
(* (core/engine_mihomo.go), awgStart (core/awg.go), the tun2socks bridge   *)
(* (core/tun2socks_bridge.go), the TUN copy of a request, the geo folder   *)
(* of a session (core/geoassets.go) and xray's system dialer, which pings  *)
(* share with the session (xraydialer).                                    *)
(*                                                                         *)
(* Start and stop bodies run under coreMutex, one at a time: EngineSession *)
(* models how they queue for it.  Pings and the network do not wait.       *)
(***************************************************************************)
EXTENDS WindowsTun

CONSTANTS
    Platform,   \* the platforms checked, of "windows", "android", "linux"
    Request,    \* start requests: engine, proxy mode, TUN fd, geo folder, servers
    Default     \* the geo folder the app set for the process

NoEngine == "none"
Empty == "empty"
NoDir == ""     \* a request that asks for no folder of its own

\* No folder has the name that stands for none, and a mihomo request in proxy
\* mode names no TUN fd, whose copy mihomoStart would take and hand to nobody.
ASSUME RequestAssumption ==
    /\ Request \subseteq [engine : {"xray", "mihomo", "awg"}, proxy : BOOLEAN,
                          fd : BOOLEAN, dir : STRING \ {Empty}, servers : SUBSET Server]
    /\ \A r \in Request : r.engine = "mihomo" /\ r.proxy => ~r.fd
    /\ Default # Empty
ASSUME PlatformAssumption == Platform \subseteq {"windows", "android", "linux"}
ASSUME GatewayAssumption == NoGateway \notin Gateway

VARIABLES
    platform,
    pc,         \* the step of the start under coreMutex, or "idle"
    req,        \* its request, then the running session's
    running,    \* the engine whose session flag is up, or none
    held,       \* what the process holds for a session
    fd,         \* the request's TUN copy: "none", its owner, or "closed"
    env, saved, \* the geo folder in the environment, and the one an override saved
    geoFolder,  \* xrayGeoFolder
    ipLists, siteLists, \* the folder xray's cached geoip and geosite lists are of
    home,       \* mihomoHomeDir
    dialer      \* whose instance xray's system dialer uses

geo == <<env, saved, geoFolder, ipLists, siteLists, home>>
vars == <<tunVars, platform, pc, req, running, held, fd, geo, dialer>>

Init ==
    /\ TunInit
    /\ platform \in Platform
    /\ pc = "idle" /\ req \in Request /\ running = NoEngine /\ held = {}
    /\ fd = "none"
    /\ env = Default /\ saved = Empty
    /\ geoFolder = Empty /\ ipLists = Empty /\ siteLists = Empty /\ home = Empty
    /\ dialer = "none"

-----------------------------------------------------------------------------
(* The TUN copy. *)

\* A request that names a TUN fd does so on Android.
HasFd(r) == r.fd /\ platform = "android"

take(owner) == fd' = IF fd = "start" THEN owner ELSE fd

\* The engine that owns the copy closes it as its TUN goes away.
EngineCloses == fd' = IF fd = "engine" THEN "closed" ELSE fd

\* The start's done: a copy nobody took is closed.
release == fd' = IF fd = "start" THEN "closed" ELSE fd

-----------------------------------------------------------------------------
(* The geo folder. *)

applyGeoAssetsDir(dir) ==
    IF dir = NoDir
    THEN /\ env' = IF saved = Empty THEN env ELSE saved
         /\ saved' = Empty
    ELSE /\ saved' = IF saved = Empty THEN env ELSE saved
         /\ env' = dir

\* Mutant: the folder counts as read before the lists are dropped.
DropMarkedFirst ==
    \/ /\ env' = geoFolder /\ UNCHANGED <<geoFolder, ipLists, siteLists, dialer>>
       /\ pc' = "build"
    \/ /\ env' # geoFolder
       /\ dialer' = IF "dialerSession" \in held THEN dialer ELSE "none"
       /\ geoFolder' = env'
       /\ \/ ipLists' = Empty /\ siteLists' = Empty /\ pc' = "build"
          \/ UNCHANGED <<ipLists, siteLists>> /\ pc' = "return"

\* A new folder drops both caches; a reload that fails ends the start, with
\* geoip's possibly dropped.
dropXrayGeoMatchersOnFolderChange ==
    \/ /\ env' = geoFolder /\ UNCHANGED <<geoFolder, ipLists, siteLists, dialer>>
       /\ pc' = "build"
    \/ /\ env' # geoFolder
       /\ dialer' = IF "dialerSession" \in held THEN dialer ELSE "none"
       /\ \/ geoFolder' = env' /\ ipLists' = Empty /\ siteLists' = Empty /\ pc' = "build"
          \/ /\ UNCHANGED <<geoFolder, siteLists>> /\ ipLists' \in {Empty, ipLists}
             /\ pc' = "return"

\* A home that is not a directory ends the start.
ensureMihomoHome ==
    \/ home' = env' /\ pc' = "build"
    \/ env' # home /\ UNCHANGED home /\ pc' = "return"

-----------------------------------------------------------------------------
(* The start's first steps, the same for the engines. *)

\* prepareStartLocked found no instance of this engine, and no other engine runs.
Start(r) ==
    /\ pc = "idle" /\ running = NoEngine
    /\ req' = r /\ fd' = IF HasFd(r) THEN "start" ELSE "none"
    /\ pc' = "geo"
    /\ UNCHANGED <<tunVars, platform, running, held, geo, dialer>>

GeoXray ==
    /\ pc = "geo" /\ req.engine = "xray"
    /\ applyGeoAssetsDir(req.dir)
    /\ dropXrayGeoMatchersOnFolderChange
    /\ UNCHANGED <<tunVars, platform, req, running, held, fd, home>>

GeoMihomo ==
    /\ pc = "geo" /\ req.engine = "mihomo"
    /\ applyGeoAssetsDir(req.dir)
    /\ ensureMihomoHome
    /\ held' = IF pc' = "build" THEN held \union {"logBridge"} ELSE held
    /\ UNCHANGED <<tunVars, platform, req, running, fd, geoFolder, ipLists, siteLists, dialer>>

\* awg has no proxy mode and reads no lists.
GeoAwg ==
    /\ pc = "geo" /\ req.engine = "awg"
    /\ pc' = "build"
    /\ UNCHANGED <<tunVars, platform, req, running, held, fd, geo, dialer>>

Return ==
    /\ pc = "return"
    /\ release
    /\ pc' = "idle"
    /\ UNCHANGED <<tunVars, platform, req, running, held, geo, dialer>>

-----------------------------------------------------------------------------
(* The tun2socks bridge. *)

UsesBridge(r) ==
    /\ ~r.proxy
    /\ \/ r.engine = "xray"
       \/ r.engine = "mihomo" /\ platform = "windows"

\* What startTun2socks takes and stopTun2socks lets go of, beyond routes and fd.
Bridge == {"tun2socks", "bridgeProxy", "adapter"}

\* startTun2socks fails before the engine runs: no fd, or engine.Start, which
\* owns the copy whether it succeeds or not.
Tun2socksFails ==
    /\ take("closed")
    /\ UNCHANGED <<tunVars, held>>

\* The engine runs and its TUN could not be configured: stopTun2socks.
Tun2socksUnconfigured ==
    /\ platform = "windows"
    /\ ConfigureFails(req.servers)
    /\ held' = held \union Bridge
    /\ UNCHANGED fd

Tun2socksRuns(more) ==
    /\ platform = "windows" \/ fd = "start"
    /\ take("engine")
    /\ held' = held \union Bridge \union more
    /\ IF platform = "windows" THEN ConfigureWorks(req.servers) ELSE UNCHANGED tunVars

\* cleanupTun, on Windows: engine.Stop or Device.Close closed the adapter, and
\* Windows may or may not still list it.
Cleanup == IF platform = "windows" THEN CleanupTun \/ CleanupSkipped ELSE UNCHANGED tunVars

-----------------------------------------------------------------------------
(* xrayStart. *)

XrayBuild ==
    /\ pc = "build" /\ req.engine = "xray"
    /\ \/ /\ ipLists' = IF ipLists = Empty THEN env ELSE ipLists
          /\ siteLists' = IF siteLists = Empty THEN env ELSE siteLists
          /\ pc' = "instance"
       \/ UNCHANGED <<ipLists, siteLists>> /\ pc' = "return"
    /\ UNCHANGED <<tunVars, platform, req, running, held, fd, env, saved, geoFolder, home, dialer>>

Instance == {"instance", "life", "traffic", "dialerSession"}

\* newXrayInstance, the traffic source and the session flag.
XrayInstance ==
    /\ pc = "instance"
    /\ \/ /\ held' = held \union Instance /\ dialer' = "session"
          /\ running' = "xray" /\ pc' = "started"
       \/ /\ dialer' \in {dialer, "closed"}
          /\ pc' = "return" /\ UNCHANGED <<held, running>>
    /\ UNCHANGED <<tunVars, platform, req, fd, geo>>

\* Mutant: the rollback forgets the traffic source.
RollbackNoTraffic ==
    /\ running' = NoEngine
    /\ held' = held \ {"instance", "life", "dialerSession"}
    /\ pc' = "return"

xrayRollback ==
    /\ running' = NoEngine
    /\ held' = held \ Instance
    /\ pc' = "return"

\* The instance does not start, its inbound does not answer, or a bridge
\* proxy cannot be made.
XrayFails ==
    /\ pc = "started"
    /\ xrayRollback
    /\ UNCHANGED <<tunVars, platform, req, fd, geo, dialer>>

XrayProxyUp ==
    /\ pc = "started" /\ req.proxy
    /\ pc' = "return"
    /\ UNCHANGED <<tunVars, platform, req, running, held, fd, geo, dialer>>

XrayTun2socksFails ==
    /\ pc = "started" /\ ~req.proxy
    /\ Tun2socksFails
    /\ pc' = "rollback"
    /\ UNCHANGED <<platform, req, running, geo, dialer>>

XrayUnconfigured ==
    /\ pc = "started" /\ ~req.proxy
    /\ Tun2socksUnconfigured
    /\ pc' = "unbridge"
    /\ UNCHANGED <<platform, req, running, geo, dialer>>

\* stopTun2socks of a bridge that could not be configured.
Unbridge ==
    /\ pc = "unbridge"
    /\ held' = held \ Bridge
    /\ EngineCloses /\ Cleanup
    /\ pc' = IF req.engine = "xray" THEN "rollback" ELSE "teardown"
    /\ UNCHANGED <<platform, req, running, geo, dialer>>

XrayRollback ==
    /\ pc = "rollback"
    /\ xrayRollback
    /\ UNCHANGED <<tunVars, platform, req, fd, geo, dialer>>

XrayTunUp ==
    /\ pc = "started" /\ ~req.proxy
    /\ Tun2socksRuns({})
    /\ pc' = "return"
    /\ UNCHANGED <<platform, req, running, geo, dialer>>

\* xrayStopLocked: the bridge, the connections, the instance.
XrayStop ==
    /\ pc = "idle" /\ running = "xray"
    /\ held' = held \ (Bridge \union Instance)
    /\ EngineCloses
    /\ IF "tun2socks" \in held THEN Cleanup ELSE UNCHANGED tunVars
    /\ dialer' = "closed"
    /\ running' = NoEngine
    /\ UNCHANGED <<platform, pc, req, geo>>

-----------------------------------------------------------------------------
(* mihomoStart. *)

MihomoBuildFails ==
    /\ pc = "build" /\ req.engine = "mihomo"
    /\ held' = held \ {"logBridge"}
    /\ pc' = "return"
    /\ UNCHANGED <<tunVars, platform, req, running, fd, geo, dialer>>

\* ApplyConfig: without a bridge the copy is taken first.
MihomoApply ==
    /\ pc = "build" /\ req.engine = "mihomo"
    /\ held' = held \union {"config"}
    /\ IF UsesBridge(req) THEN UNCHANGED fd
       ELSE take(IF req.proxy THEN "nobody" ELSE "engine")
    /\ pc' = "applied"
    /\ UNCHANGED <<tunVars, platform, req, running, geo, dialer>>

MihomoBridgeFails ==
    /\ pc = "applied" /\ UsesBridge(req)
    /\ \/ Tun2socksFails /\ pc' = "teardown"
       \/ Tun2socksUnconfigured /\ pc' = "unbridge"
    /\ UNCHANGED <<platform, req, running, geo, dialer>>

\* The native TUN's Enable flag is cleared.
MihomoTunFails ==
    /\ pc = "applied" /\ ~UsesBridge(req) /\ ~req.proxy
    /\ pc' = "teardown"
    /\ UNCHANGED <<tunVars, platform, req, running, held, fd, geo, dialer>>

mihomoTeardown == held' = held \ {"config", "logBridge", "inspector"}

MihomoRollback ==
    /\ pc = "teardown"
    /\ mihomoTeardown
    /\ EngineCloses
    /\ pc' = "return"
    /\ UNCHANGED <<tunVars, platform, req, running, geo, dialer>>

\* The session flag and the connection inspector.
MihomoUp ==
    /\ pc = "applied"
    /\ running' = "mihomo"
    /\ pc' = "return"
    /\ IF UsesBridge(req) THEN Tun2socksRuns({"inspector"})
       ELSE held' = held \union {"inspector"} /\ UNCHANGED <<tunVars, fd>>
    /\ UNCHANGED <<platform, req, geo, dialer>>

\* mihomoStopLocked.
MihomoStop ==
    /\ pc = "idle" /\ running = "mihomo"
    /\ held' = held \ (Bridge \union {"config", "logBridge", "inspector"})
    /\ EngineCloses
    /\ IF "tun2socks" \in held THEN Cleanup ELSE UNCHANGED tunVars
    /\ running' = NoEngine
    /\ UNCHANGED <<platform, pc, req, geo, dialer>>

-----------------------------------------------------------------------------
(* awgStart. *)

\* The link does not parse, or platformAwgStart fails, which closes what it
\* made and the copy it took.
AwgFails ==
    /\ pc = "build" /\ req.engine = "awg"
    /\ fd' \in {fd, IF fd = "start" THEN "closed" ELSE fd}
    /\ pc' = "return"
    /\ UNCHANGED <<tunVars, platform, req, running, held, geo, dialer>>

AwgDevice == {"device", "handle", "adapter"}

\* platformAwgStart; only Windows has routes to set.
AwgDeviceUp ==
    /\ pc = "build" /\ req.engine = "awg"
    /\ platform = "android" => fd = "start"
    /\ take("engine")
    /\ held' = held \union AwgDevice
    /\ pc' = IF platform = "windows" THEN "configure" ELSE "up"
    /\ UNCHANGED <<tunVars, platform, req, running, geo, dialer>>

\* Mutant: a TUN that could not be configured does not end the start.
AwgUnconfiguredUp ==
    /\ pc = "configure"
    /\ ConfigureFails(req.servers)
    /\ pc' = "up"
    /\ UNCHANGED <<platform, req, running, held, fd, geo, dialer>>

AwgUnconfigured ==
    /\ pc = "configure"
    /\ ConfigureFails(req.servers)
    /\ pc' = "close"
    /\ UNCHANGED <<platform, req, running, held, fd, geo, dialer>>

\* awgStopHandleLocked, which cleans no routes up but those of the adapter.
AwgCloses ==
    /\ pc = "close"
    /\ held' = held \ AwgDevice
    /\ CleanupSkipped
    /\ pc' = "return"
    /\ UNCHANGED <<platform, req, running, fd, geo, dialer>>

AwgConfigured ==
    /\ pc = "configure"
    /\ ConfigureWorks(req.servers)
    /\ pc' = "up"
    /\ UNCHANGED <<platform, req, running, held, fd, geo, dialer>>

AwgUp ==
    /\ pc = "up"
    /\ running' = "awg"
    /\ pc' = "return"
    /\ UNCHANGED <<tunVars, platform, req, held, fd, geo, dialer>>

\* awgStopLocked.
AwgStop ==
    /\ pc = "idle" /\ running = "awg"
    /\ held' = held \ AwgDevice
    /\ EngineCloses /\ Cleanup
    /\ running' = NoEngine
    /\ UNCHANGED <<platform, pc, req, geo, dialer>>

-----------------------------------------------------------------------------
(* A ping builds an instance of its own at any moment. *)

\* Mutant: the dialer stays with the ping's instance.
ProbeKeeps ==
    /\ dialer' = "closed"
    /\ UNCHANGED <<tunVars, platform, pc, req, running, held, fd, geo>>

\* NewProbe gives the dialer back to the session, if there is one.
NewProbe ==
    /\ dialer' = IF "dialerSession" \in held THEN "session" ELSE "closed"
    /\ UNCHANGED <<tunVars, platform, pc, req, running, held, fd, geo>>

NetworkMoves ==
    /\ platform = "windows" /\ NetworkChanges
    /\ UNCHANGED <<platform, pc, req, running, held, fd, geo, dialer>>

Next ==
    \/ \E r \in Request : Start(r)
    \/ GeoXray \/ GeoMihomo \/ GeoAwg \/ Return
    \/ XrayBuild \/ XrayInstance \/ XrayFails \/ XrayProxyUp
    \/ XrayTun2socksFails \/ XrayUnconfigured \/ Unbridge \/ XrayRollback
    \/ XrayTunUp \/ XrayStop
    \/ MihomoBuildFails \/ MihomoApply \/ MihomoBridgeFails \/ MihomoTunFails
    \/ MihomoRollback \/ MihomoUp \/ MihomoStop
    \/ AwgFails \/ AwgDeviceUp \/ AwgUnconfigured \/ AwgCloses
    \/ AwgConfigured \/ AwgUp \/ AwgStop
    \/ NewProbe \/ NetworkMoves

Spec == Init /\ [][Next]_vars

-----------------------------------------------------------------------------
(* Properties. *)

\* What a running session of r holds, all of it and nothing else.
Needs(r) ==
    (CASE r.engine = "xray" -> Instance
       [] r.engine = "mihomo" -> {"config", "logBridge", "inspector"}
       [] r.engine = "awg" -> AwgDevice)
    \union (IF UsesBridge(r) THEN Bridge ELSE {})

\* A start is all or nothing: a session that runs holds everything it needs
\* and nothing an earlier start left, and after a failure at any step, or a
\* stop, the process holds nothing, and the copy of the request's TUN fd is
\* closed, so the platform's VPN interface can go down.
AllOrNothing ==
    pc = "idle" =>
        /\ held = IF running = NoEngine THEN {} ELSE Needs(req)
        /\ fd \in {"none", "engine", "closed"}
        /\ fd = "engine" => running # NoEngine

\* The folder a session asked for, or the app's when it asked for none.
Wanted(r) == IF r.dir = NoDir THEN Default ELSE r.dir

\* xray's session matches lists of its own geo folder and mihomo's home is its
\* own, whatever folders earlier sessions, failed ones included, had.
GeoOfSession ==
    /\ "instance" \in held => ipLists = Wanted(req) /\ siteLists = Wanted(req)
    /\ "config" \in held => home = Wanted(req)

\* Pings at any moment leave xray's system dialer with the session.
DialerOfSession == "dialerSession" \in held => dialer = "session"

\* A TUN session up on Windows has its default routes and a host route to each
\* of its servers outside the TUN, whatever routes earlier sessions left.
TunRouted ==
    (pc = "idle" /\ platform = "windows" /\ "adapter" \in held) =>
        split /\ \A s \in req.servers : \E g \in Gateway : <<s, g>> \in pinned

=============================================================================
