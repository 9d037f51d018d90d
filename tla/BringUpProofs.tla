---------------------------- MODULE BringUpProofs ----------------------------
(***************************************************************************)
(* The properties of BringUp for any requests, servers, gateways and geo   *)
(* folders.  The inductive invariant says what the process holds at every  *)
(* step of a start, who owns the TUN copy, which folder the lists are of   *)
(* and when the routes are there.                                          *)
(***************************************************************************)
EXTENDS BringUp, TLAPS

\* The steps of a start between which the engine's flag is up already.
XrayRuns == pc \in {"started", "rollback"} \/ (pc = "unbridge" /\ req.engine = "xray")

\* The engine a step belongs to.
OfEngine ==
    /\ pc \in {"instance", "started", "rollback"} => req.engine = "xray"
    /\ pc \in {"applied", "teardown"} => req.engine = "mihomo"
    /\ pc \in {"configure", "up", "close"} => req.engine = "awg"
    /\ pc = "unbridge" => req.engine \in {"xray", "mihomo"}

\* What the process holds at each step.
Holds ==
    CASE pc \in {"idle", "return"} -> IF running = NoEngine THEN {} ELSE Needs(req)
      [] pc \in {"geo", "instance"} -> {}
      [] pc = "build" -> IF req.engine = "mihomo" THEN {"logBridge"} ELSE {}
      [] pc \in {"started", "rollback"} -> Instance
      [] pc \in {"applied", "teardown"} -> {"config", "logBridge"}
      [] pc = "unbridge" ->
             Bridge \union (IF req.engine = "xray" THEN Instance ELSE {"config", "logBridge"})
      [] pc \in {"configure", "up", "close"} -> AwgDevice

\* The steps, the engines they belong to and the session flag.
Steps ==
    /\ platform \in {"windows", "android", "linux"}
    /\ req \in Request
    /\ pc \in {"idle", "geo", "build", "instance", "started", "rollback", "unbridge",
               "applied", "teardown", "configure", "up", "close", "return"}
    /\ OfEngine
    /\ pc \in {"configure", "close", "unbridge"} => platform = "windows"
    /\ running = IF XrayRuns THEN "xray"
                 ELSE IF pc \in {"idle", "return"} /\ running # NoEngine THEN req.engine
                 ELSE NoEngine

Plan == held = Holds

\* The TUN copy: a start owns it until the engine does, and nobody else may.
Copy ==
    /\ fd \in {"none", "start", "engine", "closed"}
    /\ platform # "android" => fd = "none"
    /\ fd = "start" => req.fd
    /\ pc \in {"geo", "build", "instance", "started"} => fd \in {"none", "start"}
    /\ pc \in {"applied", "up"} => fd \in {"none", "engine"}
    /\ pc = "applied" /\ req.proxy => fd = "none"
    /\ pc = "rollback" => fd \in {"none", "closed"}
    /\ pc = "teardown" => fd # "start"
    /\ pc = "idle" => fd # "start"
    /\ pc \in {"idle", "return"} /\ fd = "engine" => running # NoEngine

\* The environment's folder and the lists read from it.
Folders ==
    /\ env # Empty
    /\ IF saved = Empty THEN env = Default ELSE saved = Default
    /\ ipLists \in {Empty, geoFolder}
    /\ siteLists \in {Empty, geoFolder}
    /\ pc = "build" /\ req.engine = "xray" => env = Wanted(req) /\ geoFolder = Wanted(req)
    /\ pc = "build" /\ req.engine = "mihomo" => home = Wanted(req)
    /\ pc = "instance" => ipLists = Wanted(req) /\ siteLists = Wanted(req)
    /\ GeoOfSession

\* The routes of a TUN that was configured.
Routes ==
    /\ gateway \in Gateway \union {NoGateway}
    /\ platform = "windows" /\ pc \in {"up", "return", "idle"} /\ "adapter" \in held =>
           split /\ \A s \in req.servers : \E g \in Gateway : <<s, g>> \in pinned

IInv == Steps /\ Plan /\ Copy /\ Folders /\ DialerOfSession /\ Routes

USE SMTT(60)

-----------------------------------------------------------------------------
\* Every step leaves the start at a step of its own engine, with the flag up
\* only from newXrayInstance to the end of its rollback, or in a session.
LEMMA StepsKept ==
  ASSUME IInv, [Next]_vars
  PROVE  Steps'
<1> USE RequestAssumption, GatewayAssumption
    DEF IInv, tunVars, geo, NoEngine, Steps, OfEngine, XrayRuns
<1>1. ASSUME NEW r \in Request, Start(r) PROVE Steps'
  BY <1>1 DEF Start, HasFd
<1>2. CASE GeoXray
  BY <1>2 DEF GeoXray, applyGeoAssetsDir, dropXrayGeoMatchersOnFolderChange
<1>3. CASE GeoMihomo
  BY <1>3 DEF GeoMihomo, applyGeoAssetsDir, ensureMihomoHome
<1>4. CASE GeoAwg  BY <1>4 DEF GeoAwg
<1>5. CASE Return  BY <1>5 DEF Return, release
<1>6. CASE XrayBuild  BY <1>6 DEF XrayBuild
<1>7. CASE XrayInstance  BY <1>7 DEF XrayInstance
<1>8. CASE XrayFails  BY <1>8 DEF XrayFails, xrayRollback
<1>9. CASE XrayProxyUp  BY <1>9 DEF XrayProxyUp
<1>10. CASE XrayTun2socksFails
  BY <1>10 DEF XrayTun2socksFails, Tun2socksFails, take
<1>11. CASE XrayUnconfigured
  BY <1>11 DEF XrayUnconfigured, Tun2socksUnconfigured, ConfigureFails,
       Exclude
<1>12. CASE Unbridge
  BY <1>12 DEF Unbridge, EngineCloses, Cleanup, CleanupTun, CleanupSkipped
<1>13. CASE XrayRollback  BY <1>13 DEF XrayRollback, xrayRollback
<1>14. CASE XrayTunUp
  BY <1>14 DEF XrayTunUp, Tun2socksRuns, take, ConfigureWorks, Exclude
<1>15. CASE XrayStop
  BY <1>15 DEF XrayStop, EngineCloses, Cleanup, CleanupTun, CleanupSkipped
<1>16. CASE MihomoBuildFails  BY <1>16 DEF MihomoBuildFails
<1>17. CASE MihomoApply  BY <1>17 DEF MihomoApply, take
<1>18. CASE MihomoBridgeFails
  BY <1>18 DEF MihomoBridgeFails, Tun2socksFails, take,
       Tun2socksUnconfigured, ConfigureFails, Exclude
<1>19. CASE MihomoTunFails  BY <1>19 DEF MihomoTunFails
<1>20. CASE MihomoRollback
  BY <1>20 DEF MihomoRollback, mihomoTeardown, EngineCloses
<1>21. CASE MihomoUp
  BY <1>21 DEF MihomoUp, Tun2socksRuns, take, ConfigureWorks, Exclude
<1>22. CASE MihomoStop
  BY <1>22 DEF MihomoStop, EngineCloses, Cleanup, CleanupTun, CleanupSkipped
<1>23. CASE AwgFails  BY <1>23 DEF AwgFails
<1>24. CASE AwgDeviceUp  BY <1>24 DEF AwgDeviceUp, take
<1>25. CASE AwgUnconfigured
  BY <1>25 DEF AwgUnconfigured, ConfigureFails, Exclude
<1>26. CASE AwgCloses  BY <1>26 DEF AwgCloses, CleanupSkipped
<1>27. CASE AwgConfigured  BY <1>27 DEF AwgConfigured, ConfigureWorks, Exclude
<1>28. CASE AwgUp  BY <1>28 DEF AwgUp
<1>29. CASE AwgStop
  BY <1>29 DEF AwgStop, EngineCloses, Cleanup, CleanupTun, CleanupSkipped
<1>30. CASE NewProbe  BY <1>30 DEF NewProbe
<1>31. CASE NetworkMoves  BY <1>31 DEF NetworkMoves, NetworkChanges
<1>32. CASE UNCHANGED vars  BY <1>32 DEF vars
<1> HIDE DEF IInv, tunVars, geo, NoEngine, Steps, OfEngine, XrayRuns
<1> QED
  BY <1>1, <1>2, <1>3, <1>4, <1>5, <1>6, <1>7, <1>8, <1>9, <1>10, <1>11,
     <1>12, <1>13, <1>14, <1>15, <1>16, <1>17, <1>18, <1>19, <1>20, <1>21,
     <1>22, <1>23, <1>24, <1>25, <1>26, <1>27, <1>28, <1>29, <1>30, <1>31,
     <1>32 DEF Next

\* What is held follows the step: each failure path gives back what its step
\* had taken, no more and no less.
LEMMA PlanKept ==
  ASSUME IInv, [Next]_vars
  PROVE  Plan'
<1> USE RequestAssumption, GatewayAssumption
    DEF IInv, tunVars, geo, NoEngine, Steps, OfEngine, XrayRuns, Plan,
        Holds, Needs, UsesBridge, Bridge, Instance,
        AwgDevice
<1>1. ASSUME NEW r \in Request, Start(r) PROVE Plan'
  BY <1>1 DEF Start, HasFd
<1>2. CASE GeoXray
  BY <1>2 DEF GeoXray, applyGeoAssetsDir, dropXrayGeoMatchersOnFolderChange
<1>3. CASE GeoMihomo
  BY <1>3 DEF GeoMihomo, applyGeoAssetsDir, ensureMihomoHome
<1>4. CASE GeoAwg  BY <1>4 DEF GeoAwg
<1>5. CASE Return  BY <1>5 DEF Return, release
<1>6. CASE XrayBuild  BY <1>6 DEF XrayBuild
<1>7. CASE XrayInstance  BY <1>7 DEF XrayInstance
<1>8. CASE XrayFails  BY <1>8 DEF XrayFails, xrayRollback
<1>9. CASE XrayProxyUp  BY <1>9 DEF XrayProxyUp
<1>10. CASE XrayTun2socksFails
  BY <1>10 DEF XrayTun2socksFails, Tun2socksFails, take
<1>11. CASE XrayUnconfigured
  BY <1>11 DEF XrayUnconfigured, Tun2socksUnconfigured, ConfigureFails,
       Exclude
<1>12. CASE Unbridge
  BY <1>12 DEF Unbridge, EngineCloses, Cleanup, CleanupTun, CleanupSkipped
<1>13. CASE XrayRollback  BY <1>13 DEF XrayRollback, xrayRollback
<1>14. CASE XrayTunUp
  BY <1>14 DEF XrayTunUp, Tun2socksRuns, take, ConfigureWorks, Exclude
<1>15. CASE XrayStop
  BY <1>15 DEF XrayStop, EngineCloses, Cleanup, CleanupTun, CleanupSkipped
<1>16. CASE MihomoBuildFails  BY <1>16 DEF MihomoBuildFails
<1>17. CASE MihomoApply  BY <1>17 DEF MihomoApply, take
<1>18. CASE MihomoBridgeFails
  BY <1>18 DEF MihomoBridgeFails, Tun2socksFails, take,
       Tun2socksUnconfigured, ConfigureFails, Exclude
<1>19. CASE MihomoTunFails  BY <1>19 DEF MihomoTunFails
<1>20. CASE MihomoRollback
  BY <1>20 DEF MihomoRollback, mihomoTeardown, EngineCloses
<1>21. CASE MihomoUp
  BY <1>21 DEF MihomoUp, Tun2socksRuns, take, ConfigureWorks, Exclude
<1>22. CASE MihomoStop
  BY <1>22 DEF MihomoStop, EngineCloses, Cleanup, CleanupTun, CleanupSkipped
<1>23. CASE AwgFails  BY <1>23 DEF AwgFails
<1>24. CASE AwgDeviceUp  BY <1>24 DEF AwgDeviceUp, take
<1>25. CASE AwgUnconfigured
  BY <1>25 DEF AwgUnconfigured, ConfigureFails, Exclude
<1>26. CASE AwgCloses  BY <1>26 DEF AwgCloses, CleanupSkipped
<1>27. CASE AwgConfigured  BY <1>27 DEF AwgConfigured, ConfigureWorks, Exclude
<1>28. CASE AwgUp  BY <1>28 DEF AwgUp
<1>29. CASE AwgStop
  BY <1>29 DEF AwgStop, EngineCloses, Cleanup, CleanupTun, CleanupSkipped
<1>30. CASE NewProbe  BY <1>30 DEF NewProbe
<1>31. CASE NetworkMoves  BY <1>31 DEF NetworkMoves, NetworkChanges
<1>32. CASE UNCHANGED vars  BY <1>32 DEF vars
<1> HIDE DEF IInv, tunVars, geo, NoEngine, Steps, OfEngine, XrayRuns, Plan,
        Holds, Needs, UsesBridge, Bridge, Instance,
        AwgDevice
<1> QED
  BY <1>1, <1>2, <1>3, <1>4, <1>5, <1>6, <1>7, <1>8, <1>9, <1>10, <1>11,
     <1>12, <1>13, <1>14, <1>15, <1>16, <1>17, <1>18, <1>19, <1>20, <1>21,
     <1>22, <1>23, <1>24, <1>25, <1>26, <1>27, <1>28, <1>29, <1>30, <1>31,
     <1>32 DEF Next

\* The TUN copy has one owner at a time, and a failure closes it.
LEMMA CopyKept ==
  ASSUME IInv, [Next]_vars
  PROVE  Copy'
<1> USE RequestAssumption, GatewayAssumption
    DEF IInv, tunVars, geo, NoEngine, Steps, OfEngine, XrayRuns, Copy,
        HasFd, UsesBridge
<1>1. ASSUME NEW r \in Request, Start(r) PROVE Copy'
  BY <1>1 DEF Start, HasFd
<1>2. CASE GeoXray
  BY <1>2 DEF GeoXray, applyGeoAssetsDir, dropXrayGeoMatchersOnFolderChange
<1>3. CASE GeoMihomo
  BY <1>3 DEF GeoMihomo, applyGeoAssetsDir, ensureMihomoHome
<1>4. CASE GeoAwg  BY <1>4 DEF GeoAwg
<1>5. CASE Return  BY <1>5 DEF Return, release
<1>6. CASE XrayBuild  BY <1>6 DEF XrayBuild
<1>7. CASE XrayInstance  BY <1>7 DEF XrayInstance
<1>8. CASE XrayFails  BY <1>8 DEF XrayFails, xrayRollback
<1>9. CASE XrayProxyUp  BY <1>9 DEF XrayProxyUp
<1>10. CASE XrayTun2socksFails
  BY <1>10 DEF XrayTun2socksFails, Tun2socksFails, take
<1>11. CASE XrayUnconfigured
  BY <1>11 DEF XrayUnconfigured, Tun2socksUnconfigured, ConfigureFails,
       Exclude
<1>12. CASE Unbridge
  BY <1>12 DEF Unbridge, EngineCloses, Cleanup, CleanupTun, CleanupSkipped
<1>13. CASE XrayRollback  BY <1>13 DEF XrayRollback, xrayRollback
<1>14. CASE XrayTunUp
  BY <1>14 DEF XrayTunUp, Tun2socksRuns, take, ConfigureWorks, Exclude
<1>15. CASE XrayStop
  BY <1>15 DEF XrayStop, EngineCloses, Cleanup, CleanupTun, CleanupSkipped
<1>16. CASE MihomoBuildFails  BY <1>16 DEF MihomoBuildFails
<1>17. CASE MihomoApply  BY <1>17 DEF MihomoApply, take
<1>18. CASE MihomoBridgeFails
  BY <1>18 DEF MihomoBridgeFails, Tun2socksFails, take,
       Tun2socksUnconfigured, ConfigureFails, Exclude
<1>19. CASE MihomoTunFails  BY <1>19 DEF MihomoTunFails
<1>20. CASE MihomoRollback
  BY <1>20 DEF MihomoRollback, mihomoTeardown, EngineCloses
<1>21. CASE MihomoUp
  BY <1>21 DEF MihomoUp, Tun2socksRuns, take, ConfigureWorks, Exclude
<1>22. CASE MihomoStop
  BY <1>22 DEF MihomoStop, EngineCloses, Cleanup, CleanupTun, CleanupSkipped
<1>23. CASE AwgFails  BY <1>23 DEF AwgFails
<1>24. CASE AwgDeviceUp  BY <1>24 DEF AwgDeviceUp, take
<1>25. CASE AwgUnconfigured
  BY <1>25 DEF AwgUnconfigured, ConfigureFails, Exclude
<1>26. CASE AwgCloses  BY <1>26 DEF AwgCloses, CleanupSkipped
<1>27. CASE AwgConfigured  BY <1>27 DEF AwgConfigured, ConfigureWorks, Exclude
<1>28. CASE AwgUp  BY <1>28 DEF AwgUp
<1>29. CASE AwgStop
  BY <1>29 DEF AwgStop, EngineCloses, Cleanup, CleanupTun, CleanupSkipped
<1>30. CASE NewProbe  BY <1>30 DEF NewProbe
<1>31. CASE NetworkMoves  BY <1>31 DEF NetworkMoves, NetworkChanges
<1>32. CASE UNCHANGED vars  BY <1>32 DEF vars
<1> HIDE DEF IInv, tunVars, geo, NoEngine, Steps, OfEngine, XrayRuns, Copy,
        HasFd, UsesBridge
<1> QED
  BY <1>1, <1>2, <1>3, <1>4, <1>5, <1>6, <1>7, <1>8, <1>9, <1>10, <1>11,
     <1>12, <1>13, <1>14, <1>15, <1>16, <1>17, <1>18, <1>19, <1>20, <1>21,
     <1>22, <1>23, <1>24, <1>25, <1>26, <1>27, <1>28, <1>29, <1>30, <1>31,
     <1>32 DEF Next

\* The cached lists are of geoFolder or dropped, also when a reload fails, and
\* the environment returns to the app's folder.
LEMMA FoldersKept ==
  ASSUME IInv, [Next]_vars
  PROVE  Folders'
<1> USE RequestAssumption, GatewayAssumption
    DEF IInv, tunVars, geo, NoEngine, Steps, OfEngine, XrayRuns, Plan,
        Holds, Needs, UsesBridge, Bridge, Instance,
        AwgDevice, Folders, GeoOfSession, Wanted
<1>1. ASSUME NEW r \in Request, Start(r) PROVE Folders'
  BY <1>1 DEF Start, HasFd
<1>2. CASE GeoXray
  BY <1>2 DEF GeoXray, applyGeoAssetsDir, dropXrayGeoMatchersOnFolderChange
<1>3. CASE GeoMihomo
  BY <1>3 DEF GeoMihomo, applyGeoAssetsDir, ensureMihomoHome
<1>4. CASE GeoAwg  BY <1>4 DEF GeoAwg
<1>5. CASE Return  BY <1>5 DEF Return, release
<1>6. CASE XrayBuild  BY <1>6 DEF XrayBuild
<1>7. CASE XrayInstance  BY <1>7 DEF XrayInstance
<1>8. CASE XrayFails  BY <1>8 DEF XrayFails, xrayRollback
<1>9. CASE XrayProxyUp  BY <1>9 DEF XrayProxyUp
<1>10. CASE XrayTun2socksFails
  BY <1>10 DEF XrayTun2socksFails, Tun2socksFails, take
<1>11. CASE XrayUnconfigured
  BY <1>11 DEF XrayUnconfigured, Tun2socksUnconfigured, ConfigureFails,
       Exclude
<1>12. CASE Unbridge
  BY <1>12 DEF Unbridge, EngineCloses, Cleanup, CleanupTun, CleanupSkipped
<1>13. CASE XrayRollback  BY <1>13 DEF XrayRollback, xrayRollback
<1>14. CASE XrayTunUp
  BY <1>14 DEF XrayTunUp, Tun2socksRuns, take, ConfigureWorks, Exclude
<1>15. CASE XrayStop
  BY <1>15 DEF XrayStop, EngineCloses, Cleanup, CleanupTun, CleanupSkipped
<1>16. CASE MihomoBuildFails  BY <1>16 DEF MihomoBuildFails
<1>17. CASE MihomoApply  BY <1>17 DEF MihomoApply, take
<1>18. CASE MihomoBridgeFails
  BY <1>18 DEF MihomoBridgeFails, Tun2socksFails, take,
       Tun2socksUnconfigured, ConfigureFails, Exclude
<1>19. CASE MihomoTunFails  BY <1>19 DEF MihomoTunFails
<1>20. CASE MihomoRollback
  BY <1>20 DEF MihomoRollback, mihomoTeardown, EngineCloses
<1>21. CASE MihomoUp
  BY <1>21 DEF MihomoUp, Tun2socksRuns, take, ConfigureWorks, Exclude
<1>22. CASE MihomoStop
  BY <1>22 DEF MihomoStop, EngineCloses, Cleanup, CleanupTun, CleanupSkipped
<1>23. CASE AwgFails  BY <1>23 DEF AwgFails
<1>24. CASE AwgDeviceUp  BY <1>24 DEF AwgDeviceUp, take
<1>25. CASE AwgUnconfigured
  BY <1>25 DEF AwgUnconfigured, ConfigureFails, Exclude
<1>26. CASE AwgCloses  BY <1>26 DEF AwgCloses, CleanupSkipped
<1>27. CASE AwgConfigured  BY <1>27 DEF AwgConfigured, ConfigureWorks, Exclude
<1>28. CASE AwgUp  BY <1>28 DEF AwgUp
<1>29. CASE AwgStop
  BY <1>29 DEF AwgStop, EngineCloses, Cleanup, CleanupTun, CleanupSkipped
<1>30. CASE NewProbe  BY <1>30 DEF NewProbe
<1>31. CASE NetworkMoves  BY <1>31 DEF NetworkMoves, NetworkChanges
<1>32. CASE UNCHANGED vars  BY <1>32 DEF vars
<1> HIDE DEF IInv, tunVars, geo, NoEngine, Steps, OfEngine, XrayRuns, Plan,
        Holds, Needs, UsesBridge, Bridge, Instance,
        AwgDevice, Folders, GeoOfSession, Wanted
<1> QED
  BY <1>1, <1>2, <1>3, <1>4, <1>5, <1>6, <1>7, <1>8, <1>9, <1>10, <1>11,
     <1>12, <1>13, <1>14, <1>15, <1>16, <1>17, <1>18, <1>19, <1>20, <1>21,
     <1>22, <1>23, <1>24, <1>25, <1>26, <1>27, <1>28, <1>29, <1>30, <1>31,
     <1>32 DEF Next

\* A start, a stop and a ping leave the dialer with the session that holds it.
LEMMA DialerOfSessionKept ==
  ASSUME IInv, [Next]_vars
  PROVE  DialerOfSession'
<1> USE RequestAssumption, GatewayAssumption
    DEF IInv, tunVars, geo, NoEngine, Steps, OfEngine, XrayRuns, Plan,
        Holds, Needs, UsesBridge, Bridge, Instance,
        AwgDevice, DialerOfSession
<1>1. ASSUME NEW r \in Request, Start(r) PROVE DialerOfSession'
  BY <1>1 DEF Start, HasFd
<1>2. CASE GeoXray
  BY <1>2 DEF GeoXray, applyGeoAssetsDir, dropXrayGeoMatchersOnFolderChange
<1>3. CASE GeoMihomo
  BY <1>3 DEF GeoMihomo, applyGeoAssetsDir, ensureMihomoHome
<1>4. CASE GeoAwg  BY <1>4 DEF GeoAwg
<1>5. CASE Return  BY <1>5 DEF Return, release
<1>6. CASE XrayBuild  BY <1>6 DEF XrayBuild
<1>7. CASE XrayInstance  BY <1>7 DEF XrayInstance
<1>8. CASE XrayFails  BY <1>8 DEF XrayFails, xrayRollback
<1>9. CASE XrayProxyUp  BY <1>9 DEF XrayProxyUp
<1>10. CASE XrayTun2socksFails
  BY <1>10 DEF XrayTun2socksFails, Tun2socksFails, take
<1>11. CASE XrayUnconfigured
  BY <1>11 DEF XrayUnconfigured, Tun2socksUnconfigured, ConfigureFails,
       Exclude
<1>12. CASE Unbridge
  BY <1>12 DEF Unbridge, EngineCloses, Cleanup, CleanupTun, CleanupSkipped
<1>13. CASE XrayRollback  BY <1>13 DEF XrayRollback, xrayRollback
<1>14. CASE XrayTunUp
  BY <1>14 DEF XrayTunUp, Tun2socksRuns, take, ConfigureWorks, Exclude
<1>15. CASE XrayStop
  BY <1>15 DEF XrayStop, EngineCloses, Cleanup, CleanupTun, CleanupSkipped
<1>16. CASE MihomoBuildFails  BY <1>16 DEF MihomoBuildFails
<1>17. CASE MihomoApply  BY <1>17 DEF MihomoApply, take
<1>18. CASE MihomoBridgeFails
  BY <1>18 DEF MihomoBridgeFails, Tun2socksFails, take,
       Tun2socksUnconfigured, ConfigureFails, Exclude
<1>19. CASE MihomoTunFails  BY <1>19 DEF MihomoTunFails
<1>20. CASE MihomoRollback
  BY <1>20 DEF MihomoRollback, mihomoTeardown, EngineCloses
<1>21. CASE MihomoUp
  BY <1>21 DEF MihomoUp, Tun2socksRuns, take, ConfigureWorks, Exclude
<1>22. CASE MihomoStop
  BY <1>22 DEF MihomoStop, EngineCloses, Cleanup, CleanupTun, CleanupSkipped
<1>23. CASE AwgFails  BY <1>23 DEF AwgFails
<1>24. CASE AwgDeviceUp  BY <1>24 DEF AwgDeviceUp, take
<1>25. CASE AwgUnconfigured
  BY <1>25 DEF AwgUnconfigured, ConfigureFails, Exclude
<1>26. CASE AwgCloses  BY <1>26 DEF AwgCloses, CleanupSkipped
<1>27. CASE AwgConfigured  BY <1>27 DEF AwgConfigured, ConfigureWorks, Exclude
<1>28. CASE AwgUp  BY <1>28 DEF AwgUp
<1>29. CASE AwgStop
  BY <1>29 DEF AwgStop, EngineCloses, Cleanup, CleanupTun, CleanupSkipped
<1>30. CASE NewProbe  BY <1>30 DEF NewProbe
<1>31. CASE NetworkMoves  BY <1>31 DEF NetworkMoves, NetworkChanges
<1>32. CASE UNCHANGED vars  BY <1>32 DEF vars
<1> HIDE DEF IInv, tunVars, geo, NoEngine, Steps, OfEngine, XrayRuns, Plan,
        Holds, Needs, UsesBridge, Bridge, Instance,
        AwgDevice, DialerOfSession
<1> QED
  BY <1>1, <1>2, <1>3, <1>4, <1>5, <1>6, <1>7, <1>8, <1>9, <1>10, <1>11,
     <1>12, <1>13, <1>14, <1>15, <1>16, <1>17, <1>18, <1>19, <1>20, <1>21,
     <1>22, <1>23, <1>24, <1>25, <1>26, <1>27, <1>28, <1>29, <1>30, <1>31,
     <1>32 DEF Next

\* The routes of a configured TUN stay until its session ends, whatever the
\* network does.
LEMMA RoutesKept ==
  ASSUME IInv, [Next]_vars
  PROVE  Routes'
<1> USE RequestAssumption, GatewayAssumption
    DEF IInv, tunVars, geo, NoEngine, Steps, OfEngine, XrayRuns, Plan,
        Holds, Needs, UsesBridge, Bridge, Instance,
        AwgDevice, Routes
<1>1. ASSUME NEW r \in Request, Start(r) PROVE Routes'
  BY <1>1 DEF Start, HasFd
<1>2. CASE GeoXray
  BY <1>2 DEF GeoXray, applyGeoAssetsDir, dropXrayGeoMatchersOnFolderChange
<1>3. CASE GeoMihomo
  BY <1>3 DEF GeoMihomo, applyGeoAssetsDir, ensureMihomoHome
<1>4. CASE GeoAwg  BY <1>4 DEF GeoAwg
<1>5. CASE Return  BY <1>5 DEF Return, release
<1>6. CASE XrayBuild  BY <1>6 DEF XrayBuild
<1>7. CASE XrayInstance  BY <1>7 DEF XrayInstance
<1>8. CASE XrayFails  BY <1>8 DEF XrayFails, xrayRollback
<1>9. CASE XrayProxyUp  BY <1>9 DEF XrayProxyUp
<1>10. CASE XrayTun2socksFails
  BY <1>10 DEF XrayTun2socksFails, Tun2socksFails, take
<1>11. CASE XrayUnconfigured
  BY <1>11 DEF XrayUnconfigured, Tun2socksUnconfigured, ConfigureFails,
       Exclude
<1>12. CASE Unbridge
  BY <1>12 DEF Unbridge, EngineCloses, Cleanup, CleanupTun, CleanupSkipped
<1>13. CASE XrayRollback  BY <1>13 DEF XrayRollback, xrayRollback
<1>14. CASE XrayTunUp
  BY <1>14 DEF XrayTunUp, Tun2socksRuns, take, ConfigureWorks, Exclude
<1>15. CASE XrayStop
  BY <1>15 DEF XrayStop, EngineCloses, Cleanup, CleanupTun, CleanupSkipped
<1>16. CASE MihomoBuildFails  BY <1>16 DEF MihomoBuildFails
<1>17. CASE MihomoApply  BY <1>17 DEF MihomoApply, take
<1>18. CASE MihomoBridgeFails
  BY <1>18 DEF MihomoBridgeFails, Tun2socksFails, take,
       Tun2socksUnconfigured, ConfigureFails, Exclude
<1>19. CASE MihomoTunFails  BY <1>19 DEF MihomoTunFails
<1>20. CASE MihomoRollback
  BY <1>20 DEF MihomoRollback, mihomoTeardown, EngineCloses
<1>21. CASE MihomoUp
  BY <1>21 DEF MihomoUp, Tun2socksRuns, take, ConfigureWorks, Exclude
<1>22. CASE MihomoStop
  BY <1>22 DEF MihomoStop, EngineCloses, Cleanup, CleanupTun, CleanupSkipped
<1>23. CASE AwgFails  BY <1>23 DEF AwgFails
<1>24. CASE AwgDeviceUp  BY <1>24 DEF AwgDeviceUp, take
<1>25. CASE AwgUnconfigured
  BY <1>25 DEF AwgUnconfigured, ConfigureFails, Exclude
<1>26. CASE AwgCloses  BY <1>26 DEF AwgCloses, CleanupSkipped
<1>27. CASE AwgConfigured  BY <1>27 DEF AwgConfigured, ConfigureWorks, Exclude
<1>28. CASE AwgUp  BY <1>28 DEF AwgUp
<1>29. CASE AwgStop
  BY <1>29 DEF AwgStop, EngineCloses, Cleanup, CleanupTun, CleanupSkipped
<1>30. CASE NewProbe  BY <1>30 DEF NewProbe
<1>31. CASE NetworkMoves  BY <1>31 DEF NetworkMoves, NetworkChanges
<1>32. CASE UNCHANGED vars  BY <1>32 DEF vars
<1> HIDE DEF IInv, tunVars, geo, NoEngine, Steps, OfEngine, XrayRuns, Plan,
        Holds, Needs, UsesBridge, Bridge, Instance,
        AwgDevice, Routes
<1> QED
  BY <1>1, <1>2, <1>3, <1>4, <1>5, <1>6, <1>7, <1>8, <1>9, <1>10, <1>11,
     <1>12, <1>13, <1>14, <1>15, <1>16, <1>17, <1>18, <1>19, <1>20, <1>21,
     <1>22, <1>23, <1>24, <1>25, <1>26, <1>27, <1>28, <1>29, <1>30, <1>31,
     <1>32 DEF Next

-----------------------------------------------------------------------------
\* Before a start nothing is up.
LEMMA InitInv == Init => IInv
<1> SUFFICES ASSUME Init PROVE IInv
  OBVIOUS
<1> USE RequestAssumption, PlatformAssumption
    DEF Init, TunInit, NoEngine
<1>1. Steps  BY DEF Steps, OfEngine, XrayRuns
<1>2. Plan  BY DEF Plan, Holds
<1>3. Copy  BY DEF Copy
<1>4. Folders  BY DEF Folders, GeoOfSession
<1>5. DialerOfSession /\ Routes  BY DEF DialerOfSession, Routes
<1> QED
  BY <1>1, <1>2, <1>3, <1>4, <1>5 DEF IInv

\* Every step of a start or a stop keeps the invariant.
LEMMA Inductive == Spec => []IInv
<1>1. IInv /\ [Next]_vars => IInv'
  BY StepsKept, PlanKept, CopyKept, FoldersKept, DialerOfSessionKept,
     RoutesKept DEF IInv
<1> QED
  BY InitInv, <1>1, PTL DEF Spec

\* A failure at any step of a start, or a stop, leaves nothing held and the TUN
\* copy closed, and a session that runs holds all it needs, for any requests
\* (xray.go, engine_mihomo.go, awg.go, tun2socks_bridge.go).
THEOREM StartAllOrNothing == Spec => []AllOrNothing
<1>1. IInv => AllOrNothing
  BY DEF IInv, Steps, Plan, Holds, Copy, AllOrNothing
<1> QED
  BY Inductive, <1>1, PTL

\* A session's lists and home are of the folder it asked for, for any folders
\* and any sequence of starts that fail and succeed (geoassets.go, xray.go).
THEOREM ListsOfSession == Spec => []GeoOfSession
<1>1. IInv => GeoOfSession
  BY DEF IInv, Folders
<1> QED
  BY Inductive, <1>1, PTL

\* xray's system dialer stays with the session through any pings
\* (xraydialer.go).
THEOREM DialerStaysOfSession == Spec => []DialerOfSession
<1>1. IInv => DialerOfSession
  BY DEF IInv
<1> QED
  BY Inductive, <1>1, PTL

\* A TUN session on Windows has its default routes and its host routes for any
\* servers, gateways and changes of the network (tun_windows_config.go).
THEOREM SessionsAreRouted == Spec => []TunRouted
<1>1. IInv => TunRouted
  BY DEF IInv, Routes, TunRouted
<1> QED
  BY Inductive, <1>1, PTL
=============================================================================
