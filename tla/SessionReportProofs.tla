------------------------- MODULE SessionReportProofs -------------------------
(***************************************************************************)
(* Proofs about what a session reports: the external address, for any      *)
(* number of sessions, stops and triggers; the link, for any callers,      *)
(* starts and DownAfter; the traffic, whatever its amount; the server in   *)
(* use, for any outbounds, counters, floor and lead.                       *)
(***************************************************************************)
EXTENDS SessionReport, WellFoundedInduction, TLAPS

\* Every leaf is small; the limits leave room for a loaded machine.
USE SMTT(60), ZenonT(60)

-----------------------------------------------------------------------------
(* IpResolve. *)

\* ipFetchBusy says whether the worker goroutine runs, and only a running worker
\* is asked for another round.
Handshake ==
    /\ busy <=> workerPc # "off"
    /\ again => workerPc # "off"

\* A round that fetches has a session's configuration, and a report of an
\* unsupported tunnel is one of a session that armed.
Sessions ==
    /\ workerPc = "fetch" => Fetches(workerCfg)
    /\ armPc = "report" => sessions \in Session

IpInv == TypeOK /\ Handshake /\ Sessions /\ StateOfGeneration /\ NoLostTrigger

\* A configuration that fetches is that of a session which armed the resolver
\* (configureIPResolve), never the one a stop leaves.
LEMMA FetchingSession ==
  ASSUME NEW cfg \in Config, Fetches(cfg)
  PROVE  cfg.session \in Session
  BY DEF Config, Fetches, Off

\* A fresh controller (initEngineState) satisfies the invariant.
LEMMA IpInit == Init => IpInv
  <1> SUFFICES ASSUME Init PROVE IpInv
    OBVIOUS
  <1> USE DEF Init
  <1>1. TypeOK
    <2>1. ipResolve \in Config /\ workerCfg \in Config
      BY DEF Config
    <2>2. ipState \in [answer : Answer \union {NoAnswer}, gen : Nat]
      BY DEF NoState
    <2>3. /\ sessions \in 0..MaxSessions /\ stops \in 0..MaxStops
          /\ triggers \in 0..MaxTriggers
      BY BoundAssumption
    <2>4. busy \in BOOLEAN /\ again \in BOOLEAN /\ owed \in BOOLEAN
      BY ZenonT(60)
    <2> QED BY <2>1, <2>2, <2>3, <2>4 DEF TypeOK
  <1>2. Handshake /\ StateOfGeneration /\ NoLostTrigger /\ Sessions
    BY DEF Handshake, StateOfGeneration, NoLostTrigger, Sessions
  <1> QED BY <1>1, <1>2 DEF IpInv

\* Every step of arming, disarming, triggers and worker keeps it.
LEMMA IpNext ==
  ASSUME IpInv, [Next]_vars
  PROVE  IpInv'
  <1> USE BoundAssumption
      DEF IpInv, TypeOK, Handshake, StateOfGeneration, NoLostTrigger, Sessions,
          worker, arming, counts
  <1>1. ASSUME NEW mode \in Mode, configureIPResolve(mode)
        PROVE  IpInv'
    <2>1. sessions' \in Session
      BY <1>1 DEF configureIPResolve, Session
    <2>2. ipResolve' \in Config
      BY <1>1, <2>1 DEF configureIPResolve, Config
    <2>3. ipState' = NoState /\ NoState \in [answer : Answer \union {NoAnswer}, gen : Nat]
      BY <1>1 DEF configureIPResolve, NoState
    <2> QED BY <1>1, <2>1, <2>2, <2>3 DEF configureIPResolve, Session
  <1>2. CASE stopIPResolve
    <2>1. Off \in Config
      BY DEF Config
    <2>2. NoState \in [answer : Answer \union {NoAnswer}, gen : Nat]
      BY DEF NoState
    <2> QED BY <1>2, <2>1, <2>2 DEF stopIPResolve
  <1>3. CASE ReportUnsupported
    <2>1. [session |-> sessions, says |-> "unsupported"] \in Answer
      BY <1>3 DEF ReportUnsupported, Answer
    <2> QED BY <1>3, <2>1 DEF ReportUnsupported, setExternalIPState, News, Stale
  <1>4. CASE EmitUnsupported
    BY <1>4 DEF EmitUnsupported
  <1>5. ASSUME NEW t \in Trigger, TriggerLoads(t)
        PROVE  IpInv'
    BY <1>5 DEF TriggerLoads
  <1>6. ASSUME NEW t \in Trigger, TriggerQueues(t)
        PROVE  IpInv'
    BY <1>6 DEF TriggerQueues
  <1>7. ASSUME NEW t \in Trigger, TriggerStarts(t)
        PROVE  IpInv'
    BY <1>7 DEF TriggerStarts
  <1>8. CASE LoadConfig
    BY ZenonT(60), <1>8 DEF LoadConfig
  <1>9. CASE LoadGen
    BY <1>9 DEF LoadGen
  <1>10. CASE Fetch
    <2>1. answer' \in Answer
      BY <1>10, FetchingSession DEF Fetch, Answer
    <2> QED BY <1>10, <2>1 DEF Fetch
  <1>11. CASE StoreAnswer
    BY <1>11 DEF StoreAnswer, setExternalIPState, News, Stale
  <1>12. CASE EmitAnswer
    BY <1>12 DEF EmitAnswer
  <1>13. CASE AnotherRound
    BY ZenonT(60), <1>13 DEF AnotherRound, ForgetRound, Config
  <1>14. CASE WorkerEnds
    BY ZenonT(60), <1>14 DEF WorkerEnds, ForgetRound, Config
  <1>15. CASE UNCHANGED vars
    BY <1>15 DEF vars
  <1> QED BY ZenonT(60), <1>1, <1>2, <1>3, <1>4, <1>5, <1>6, <1>7, <1>8, <1>9,
             <1>10, <1>11, <1>12, <1>13, <1>14, <1>15
          DEF Next, ArmStep, TriggerStep, WorkerStep, Rest

\* The invariant holds throughout, for any number of sessions, stops and
\* triggers (configureIPResolve, stopIPResolve, triggerIPResolve and its worker).
THEOREM ResolverInvariant == Spec => []IpInv
  BY IpInit, IpNext, PTL DEF Spec

\* The resolver's state keeps its types (the fields of CoreController).
THEOREM ResolverTypes == Spec => []TypeOK
  <1>1. IpInv => TypeOK
    BY DEF IpInv
  <1> QED BY <1>1, ResolverInvariant, PTL

\* A stored answer was fetched under the current generation: one that outlives
\* a stop or a restart is refused (setExternalIPState).
THEOREM AnswerOfGeneration == Spec => []StateOfGeneration
  <1>1. IpInv => StateOfGeneration
    BY DEF IpInv
  <1> QED BY <1>1, ResolverInvariant, PTL

\* The busy/again handshake of triggerIPResolve and its worker loses no
\* trigger it accepted.
THEOREM TriggersKept == Spec => []NoLostTrigger
  <1>1. IpInv => NoLostTrigger
    BY DEF IpInv
  <1> QED BY <1>1, ResolverInvariant, PTL

-----------------------------------------------------------------------------
(* LinkWatch: who may close a loop's quit, and whose verdict the link is. *)

Closing == {"close", "restart"}
Waiting == {"wait", "rewait"}
Starting == {"restart", "rewait", "arm"}

OwnTypes ==
    /\ pc \in [Caller -> {"idle", "close", "restart", "wait", "rewait", "arm"}]
    /\ mine \in [Caller -> 0..MaxStarts]
    /\ registered \in 0..MaxStarts
    /\ loop \in [Loop -> {"off", "timer", "probe", "done"}]
    /\ closed \in [Loop -> Nat]

\* A caller holds a loop exactly while it stops one, and nobody else holds it.
Held ==
    /\ \A c \in Caller : mine[c] # 0 <=> pc[c] \in Closing \union Waiting
    /\ \A c \in Caller : mine[c] # 0 => mine[c] # registered
    /\ \A c, d \in Caller : mine[c] # 0 /\ mine[c] = mine[d] => c = d

\* One start at a time replaces the loop, and until it has none is registered.
OneStart ==
    /\ \A c, d \in Caller : pc[c] \in Starting /\ pc[d] \in Starting => c = d
    /\ \A c \in Caller : pc[c] \in Starting => registered = 0

\* A quit is open while its loop is registered and until its holder closes it.
QuitOpen ==
    /\ registered # 0 => closed[registered] = 0 /\ loop[registered] # "off"
    /\ \A c \in Caller : pc[c] \in Closing => closed[mine[c]] = 0
    /\ \A c \in Caller : mine[c] # 0 => loop[mine[c]] # "off"
    /\ \A i \in Loop : loop[i] = "off" => closed[i] = 0

Owned(i) == registered = i \/ \E c \in Caller : mine[c] = i

\* A loop that runs is registered, or a stop waits for it.
LoopsOwned == \A i \in Loop : loop[i] \in {"timer", "probe"} => Owned(i)

OwnInv == OwnTypes /\ Held /\ OneStart /\ QuitOpen /\ QuitClosedOnce /\ LoopsOwned

VerdictTypes ==
    /\ state \in [Loop -> {Unknown, "up", "down"}]
    /\ real \in [Loop -> Nat]
    /\ fails = real
    /\ link \in {Unknown, "up", "down"}
    /\ writer \in 0..MaxStarts

\* A tracker that is down has seen DownAfter failures in a row.
DownCounted == \A i \in Loop : state[i] = "down" => real[i] >= DownAfter

\* The link is its writer's conclusive state, or unknown.
LinkIsState ==
    /\ writer = 0 => link = Unknown
    /\ writer # 0 => link = state[writer] /\ state[writer] # Unknown

VerdictInv == VerdictTypes /\ DownCounted /\ LinkIsState

LinkInv == OwnInv /\ VerdictInv /\ LinkHasOwner

-----------------------------------------------------------------------------
(* Ownership. *)

\* A process without a loop satisfies the invariant.
LEMMA LinkInitInv == LinkInit => LinkInv
  <1> SUFFICES ASSUME LinkInit PROVE LinkInv
    OBVIOUS
  <1> USE LinkAssumption DEF LinkInit, Loop, Unknown
  <1>1. OwnTypes
    BY DEF OwnTypes
  <1>2. Held /\ OneStart /\ QuitOpen /\ QuitClosedOnce /\ LoopsOwned
    BY DEF Held, OneStart, QuitOpen, QuitClosedOnce, LoopsOwned, Closing,
           Waiting, Starting
  <1>3. VerdictInv
    BY DEF VerdictInv, VerdictTypes, DownCounted, LinkIsState
  <1> QED BY <1>1, <1>2, <1>3 DEF LinkInv, OwnInv, LinkHasOwner

\* Taking the pointers out moves a loop from the register to its taker
\* (stopLiveness under loopsMu).
LEMMA SwapKeepsOwners ==
  ASSUME OwnInv, NEW c \in Caller, pc[c] = "idle",
         NEW to \in Closing, NEW none \in {"idle", "arm"},
         Swap(c, to, none), UNCHANGED <<loop, closed>>,
         "restart" = to => none = "arm" /\ \A d \in Caller : pc[d] \notin Starting,
         "close" = to => none = "idle"
  PROVE  OwnInv' /\ \A i \in Loop : Owned(i) => Owned(i)'
  <1> USE DEF OwnInv, OwnTypes, Swap, Loop
  <1>1. OwnTypes'
    <2>1. to \in {"close", "restart"}
      BY DEF Closing
    <2>2. pc' \in [Caller -> {"idle", "close", "restart", "wait", "rewait", "arm"}]
      BY <2>1
    <2>3. mine' \in [Caller -> 0..MaxStarts] /\ registered' \in 0..MaxStarts
      BY LinkAssumption
    <2> QED BY <2>2, <2>3
  <1>2. mine[c] = 0
    BY DEF Held, Closing, Waiting
  <1>3. Held'
    BY <1>2 DEF Held, Closing, Waiting
  <1>4. OneStart'
    BY DEF OneStart, Closing, Starting
  <1>5. QuitOpen'
    BY DEF QuitOpen, Held, Closing, Waiting
  <1>6. ASSUME NEW i \in Loop, Owned(i) PROVE Owned(i)'
    <2>1. CASE registered = i
      BY <2>1 DEF Owned
    <2>2. CASE \E d \in Caller : mine[d] = i
      <3>1. PICK d \in Caller : mine[d] = i
        BY <2>2
      <3>2. d # c
        BY <3>1, <1>2
      <3> QED BY <3>1, <3>2 DEF Owned
    <2> QED BY <1>6, <2>1, <2>2 DEF Owned
  <1>7. LoopsOwned'
    BY <1>6 DEF LoopsOwned
  <1>8. QuitClosedOnce'
    BY DEF QuitClosedOnce
  <1> QED BY <1>1, <1>3, <1>4, <1>5, <1>6, <1>7, <1>8

\* A stop closes the quit of the loop it took, which nobody closed before.
LEMMA CloseKeepsOwners ==
  ASSUME OwnInv, NEW c \in Caller, CloseQuit(c)
  PROVE  OwnInv' /\ \A i \in Loop : Owned(i) => Owned(i)'
  <1> USE DEF OwnInv, OwnTypes, CloseQuit, Loop
  <1>1. mine[c] \in Loop /\ closed[mine[c]] = 0
    BY DEF Held, QuitOpen, Closing, Waiting
  <1>2. OwnTypes'
    BY <1>1
  <1>3. Held'
    BY DEF Held, Closing, Waiting
  <1>4. OneStart'
    BY DEF OneStart, Starting
  <1>5. closed' = [closed EXCEPT ![mine[c]] = 1]
    BY <1>1
  <1>6. QuitClosedOnce'
    BY <1>5 DEF QuitClosedOnce
  <1>7. QuitOpen'
    BY <1>1, <1>5 DEF QuitOpen, Held, Closing, Waiting
  <1>8. (\A i \in Loop : Owned(i) => Owned(i)') /\ LoopsOwned'
    BY DEF Owned, LoopsOwned
  <1> QED BY <1>2, <1>3, <1>4, <1>6, <1>7, <1>8

\* A stop lets go of a loop that has ended.
LEMMA WaitKeepsOwners ==
  ASSUME OwnInv, NEW c \in Caller, StopWaits(c)
  PROVE  OwnInv'
  <1> USE DEF OwnInv, OwnTypes, StopWaits, Loop
  <1>1. mine[c] \in Loop
    BY DEF Held, Closing, Waiting
  <1>2. OwnTypes'
    BY LinkAssumption
  <1>3. Held'
    BY DEF Held, Closing, Waiting
  <1>4. OneStart'
    BY DEF OneStart, Starting
  <1>5. QuitOpen'
    BY DEF QuitOpen, Closing, Waiting
  <1>6. ASSUME NEW i \in Loop, loop[i] \in {"timer", "probe"} PROVE Owned(i)'
    <2>1. CASE registered = i
      BY <2>1 DEF Owned
    <2>2. CASE registered # i
      <3>1. PICK d \in Caller : mine[d] = i
        BY <1>6, <2>2 DEF LoopsOwned, Owned
      <3>2. d # c
        BY <1>6, <3>1
      <3> QED BY <3>1, <3>2 DEF Owned
    <2> QED BY <2>1, <2>2
  <1>7. LoopsOwned' /\ QuitClosedOnce'
    BY <1>6 DEF LoopsOwned, QuitClosedOnce
  <1> QED BY <1>2, <1>3, <1>4, <1>5, <1>7

\* A start registers a loop of its own over none.
LEMMA ArmKeepsOwners ==
  ASSUME OwnInv, NEW c \in Caller, Arm(c)
  PROVE  OwnInv'
  <1> USE DEF OwnInv, OwnTypes, Loop
  <1>1. pc[c] = "arm" /\ pc' = [pc EXCEPT ![c] = "idle"] /\ UNCHANGED <<mine, closed>>
    BY DEF Arm
  <1>2. PICK i \in Loop : /\ loop[i] = "off" /\ registered' = i
                          /\ loop' = [loop EXCEPT ![i] = "timer"]
    BY ZenonT(60) DEF Arm
  <1>3. registered = 0
    BY <1>1 DEF OneStart, Starting
  <1>4. \A d \in Caller : mine[d] # i
    BY <1>2 DEF QuitOpen
  <1>5. OwnTypes'
    BY <1>1, <1>2
  <1>6. Held'
    BY <1>1, <1>2, <1>4 DEF Held, Closing, Waiting
  <1>7. OneStart'
    BY <1>1 DEF OneStart, Starting
  <1>8. QuitOpen'
    BY <1>1, <1>2, <1>4 DEF QuitOpen, Closing
  <1>9. LoopsOwned' /\ QuitClosedOnce'
    BY <1>1, <1>2, <1>3 DEF LoopsOwned, Owned, QuitClosedOnce
  <1> QED BY <1>5, <1>6, <1>7, <1>8, <1>9

\* What a step of loop i does to the goroutines: it goes on.
LoopMoves(i) ==
    /\ loop[i] \in {"timer", "probe"}
    /\ \E x \in {"timer", "probe", "done"} : loop' = [loop EXCEPT ![i] = x]
    /\ UNCHANGED <<pc, mine, registered, closed>>

\* A loop's own steps leave its owner in place.
LEMMA LoopKeepsOwners ==
  ASSUME OwnInv, NEW i \in Loop, LoopMoves(i)
  PROVE  OwnInv' /\ \A j \in Loop : Owned(j) => Owned(j)'
  <1> USE DEF OwnInv, OwnTypes, LoopMoves
  <1>1. OwnTypes' /\ Held' /\ OneStart' /\ QuitClosedOnce'
    BY DEF Held, OneStart, QuitClosedOnce
  <1>2. QuitOpen'
    BY DEF QuitOpen
  <1>3. (\A j \in Loop : Owned(j) => Owned(j)') /\ LoopsOwned'
    BY DEF Owned, LoopsOwned
  <1> QED BY <1>1, <1>2, <1>3

-----------------------------------------------------------------------------
(* Verdicts. *)

Observes(i) ==
    \/ ObserveSuccess(i) \/ ObserveFailure(i) \/ UNCHANGED <<state, fails, real>>

\* A tracker turns down only on DownAfter failures in a row, and never turns
\* unknown again (Tracker.ObserveSuccess, Tracker.ObserveFailure).
LEMMA ObservationCounted ==
  ASSUME VerdictInv, NEW i \in Loop, Observes(i)
  PROVE  /\ state' \in [Loop -> {Unknown, "up", "down"}]
         /\ real' \in [Loop -> Nat] /\ fails' = real'
         /\ DownCounted'
         /\ \A j \in Loop : j # i => state'[j] = state[j]
         /\ state[i] # Unknown => state'[i] # Unknown
  <1> USE LinkAssumption DEF VerdictInv, VerdictTypes, DownCounted
  <1>1. CASE ObserveSuccess(i)
    BY <1>1 DEF ObserveSuccess, Unknown
  <1>2. CASE ObserveFailure(i)
    <2>1. /\ real' = [real EXCEPT ![i] = @ + 1] /\ fails' = real'
          /\ real' \in [Loop -> Nat]
      BY <1>2 DEF ObserveFailure
    <2>2. /\ state'[i] = IF real[i] + 1 < DownAfter /\ state[i] # "down"
                         THEN state[i] ELSE "down"
          /\ state' \in [Loop -> {Unknown, "up", "down"}]
          /\ \A j \in Loop : j # i => state'[j] = state[j]
      BY <1>2 DEF ObserveFailure
    <2>3. DownCounted'
      BY <2>1, <2>2
    <2> QED BY ZenonT(60), <2>1, <2>2, <2>3 DEF Unknown
  <1>3. CASE UNCHANGED <<state, fails, real>>
    BY <1>3
  <1> QED BY <1>1, <1>2, <1>3 DEF Observes

\* A stored verdict is that of the loop that stores it.
LEMMA StoreKeepsVerdict ==
  ASSUME VerdictInv, NEW i \in Loop, Observes(i), Store(i)
  PROVE  VerdictInv' /\ writer' \in {writer, i}
  <1>1. /\ state' \in [Loop -> {Unknown, "up", "down"}]
        /\ real' \in [Loop -> Nat] /\ fails' = real' /\ DownCounted'
        /\ \A j \in Loop : j # i => state'[j] = state[j]
        /\ state[i] # Unknown => state'[i] # Unknown
    BY ObservationCounted
  <1>2. \/ state'[i] # Unknown /\ link' = state'[i] /\ writer' = i
        \/ state'[i] = Unknown /\ link' = link /\ writer' = writer
    BY DEF Store
  <1>3. writer' \in 0..MaxStarts /\ writer' \in {writer, i} /\ i # 0
    BY <1>2 DEF VerdictInv, VerdictTypes, Loop
  <1>4. link' \in {Unknown, "up", "down"}
    BY <1>1, <1>2 DEF VerdictInv, VerdictTypes
  <1>5. LinkIsState'
    <2>1. CASE writer' = i /\ link' = state'[i] /\ state'[i] # Unknown
      BY <2>1, <1>3 DEF LinkIsState
    <2>2. CASE state'[i] = Unknown /\ link' = link /\ writer' = writer
      <3>1. writer = 0 \/ (writer \in Loop /\ writer # i)
        BY <2>2, <1>1 DEF VerdictInv, VerdictTypes, LinkIsState, Loop
      <3> QED BY <2>2, <3>1, <1>1 DEF VerdictInv, LinkIsState
    <2> QED BY <1>2, <2>1, <2>2
  <1> QED BY <1>1, <1>3, <1>4, <1>5 DEF VerdictInv, VerdictTypes

\* A step that leaves the trackers alone and forgets the verdict, or keeps it.
LEMMA ResetKeepsVerdict ==
  ASSUME VerdictInv, UNCHANGED <<state, fails, real>>,
         (link' = Unknown /\ writer' = 0) \/ UNCHANGED <<link, writer>>
  PROVE  VerdictInv'
  BY LinkAssumption DEF VerdictInv, VerdictTypes, DownCounted, LinkIsState

-----------------------------------------------------------------------------
(* The two together. *)

\* A verdict whose writer is owned, or is the running loop, keeps an owner.
LEMMA WriterOwned ==
  ASSUME LinkInv, writer' # 0 => writer' \in Loop /\ Owned(writer'),
         \A i \in Loop : Owned(i) => Owned(i)'
  PROVE  LinkHasOwner'
  BY DEF LinkHasOwner, Owned

\* Every step of a caller or of a loop keeps the invariant.
LEMMA LinkStep ==
  ASSUME LinkInv, [LinkNext]_linkVars
  PROVE  LinkInv'
  <1> USE DEF LinkInv
  <1> writer \in 0..MaxStarts /\ (writer # 0 => writer \in Loop /\ Owned(writer))
    BY DEF VerdictInv, VerdictTypes, LinkHasOwner, Owned, Loop
  <1>1. ASSUME NEW c \in Caller, StopLiveness(c) PROVE LinkInv'
    <2>1. OwnInv' /\ \A i \in Loop : Owned(i) => Owned(i)'
      BY <1>1, SwapKeepsOwners DEF StopLiveness, Closing
    <2>2. VerdictInv'
      BY <1>1, ResetKeepsVerdict DEF StopLiveness
    <2> QED BY <1>1, <2>1, <2>2, WriterOwned DEF StopLiveness
  <1>2. ASSUME NEW c \in Caller, StartLiveness(c) PROVE LinkInv'
    <2>1. OwnInv' /\ \A i \in Loop : Owned(i) => Owned(i)'
      BY <1>2, SwapKeepsOwners DEF StartLiveness, Closing, Starting
    <2>2. VerdictInv'
      BY <1>2, ResetKeepsVerdict DEF StartLiveness
    <2> QED BY <1>2, <2>1, <2>2, WriterOwned DEF StartLiveness
  <1>3. ASSUME NEW c \in Caller, CloseQuit(c) PROVE LinkInv'
    <2>1. VerdictInv' /\ writer' = writer
      BY <1>3, ResetKeepsVerdict DEF CloseQuit
    <2> QED BY <1>3, <2>1, CloseKeepsOwners, WriterOwned
  <1>4. ASSUME NEW c \in Caller, StopWaits(c) PROVE LinkInv'
    <2>1. VerdictInv' /\ writer' = 0
      BY <1>4, ResetKeepsVerdict DEF StopWaits
    <2> QED BY <1>4, <2>1, WaitKeepsOwners DEF LinkHasOwner
  <1>5. ASSUME NEW c \in Caller, Arm(c) PROVE LinkInv'
    <2>1. VerdictInv' /\ writer' = 0
      BY <1>5, ResetKeepsVerdict DEF Arm
    <2> QED BY <1>5, <2>1, ArmKeepsOwners DEF LinkHasOwner
  <1>6. ASSUME NEW i \in Loop, TimerFires(i) \/ LoopStep(i)
        PROVE  LoopMoves(i)
    BY <1>6 DEF LoopMoves, TimerFires, LoopStep, LoopQuits, ProbeSucceeds,
                ProbeErrs, Sampled, SampleErrs, Store
  <1>7. ASSUME NEW i \in Loop, TimerFires(i) \/ LoopStep(i)
        PROVE  VerdictInv' /\ writer' \in {writer, i}
    <2>1. CASE Observes(i) /\ Store(i)
      BY <2>1, StoreKeepsVerdict
    <2>2. CASE UNCHANGED <<state, fails, real, link, writer>>
      BY <2>2, ResetKeepsVerdict
    <2>3. ASSUME ProbeSucceeds(i) \/ ProbeErrs(i)
          PROVE  (Observes(i) /\ Store(i)) \/ UNCHANGED <<state, fails, real, link, writer>>
      BY <2>3 DEF ProbeSucceeds, ProbeErrs, Observes
    <2>4. ASSUME Sampled(i) \/ SampleErrs(i)
          PROVE  (Observes(i) /\ Store(i)) \/ UNCHANGED <<state, fails, real, link, writer>>
      BY <2>4 DEF Sampled, SampleErrs, ObserveWG, Observes
    <2>5. ASSUME TimerFires(i) \/ LoopQuits(i)
          PROVE  UNCHANGED <<state, fails, real, link, writer>>
      BY <2>5 DEF TimerFires, LoopQuits
    <2> QED BY <1>7, <2>1, <2>2, <2>3, <2>4, <2>5 DEF LoopStep
  <1>8. ASSUME NEW i \in Loop, TimerFires(i) \/ LoopStep(i) PROVE LinkInv'
    <2>1. LoopMoves(i) /\ VerdictInv' /\ writer' \in {writer, i}
      BY <1>6, <1>7, <1>8
    <2>2. Owned(i)
      BY <2>1 DEF LoopMoves, OwnInv, LoopsOwned
    <2> QED BY <2>1, <2>2, LoopKeepsOwners, WriterOwned
  <1>9. CASE UNCHANGED linkVars
    BY <1>9 DEF linkVars, OwnInv, OwnTypes, Held, OneStart, QuitOpen,
                QuitClosedOnce, LoopsOwned, Owned, VerdictInv, VerdictTypes,
                DownCounted, LinkIsState, LinkHasOwner
  <1> QED BY <1>1, <1>2, <1>3, <1>4, <1>5, <1>8, <1>9 DEF LinkNext, CallerStep

\* The invariant holds throughout, for any callers and any number of starts
\* (startLiveness, stopLiveness, Tracker).
THEOREM LinkInvariant == LinkSpec => []LinkInv
  BY LinkInitInv, LinkStep, PTL DEF LinkSpec

\* No two stops close the same quit, which would panic (stopLiveness).
THEOREM QuitsClosedOnce == LinkSpec => []QuitClosedOnce
  <1>1. LinkInv => QuitClosedOnce
    BY DEF LinkInv, OwnInv
  <1> QED BY <1>1, LinkInvariant, PTL

\* The link never keeps the verdict of a loop nobody stops any more.
THEOREM VerdictHasOwner == LinkSpec => []LinkHasOwner
  <1>1. LinkInv => LinkHasOwner
    BY DEF LinkInv
  <1> QED BY <1>1, LinkInvariant, PTL

\* The link is down only on DownAfter failures in a row of one loop
\* (Tracker.ObserveFailure), none of them a cancelled probe.
THEOREM DownConfirmed == LinkSpec => []DownIsConfirmed
  <1>1. LinkInv => DownIsConfirmed
    BY DEF LinkInv, VerdictInv, VerdictTypes, DownCounted, LinkIsState,
           DownIsConfirmed, Unknown, Loop
  <1> QED BY <1>1, LinkInvariant, PTL

-----------------------------------------------------------------------------
(* MihomoTraffic. *)

TrafficTypes ==
    /\ total \in Nat /\ direct \in Nat /\ unseen \in Nat
    /\ base \in Nat /\ shown \in Nat /\ read \in Nat
    /\ proxied \in Nat /\ carried \in Nat
    /\ mu \in {"free", "start", "read"}

\* Every chunk since the mark is in the total or on its way there, and was
\* proxied, carried over the start, or taken off by the DIRECT counter.
Balance ==
    total + unseen = base + proxied + carried + IF mu = "start" THEN 0 ELSE direct

\* A read takes its total before the DIRECT count it takes off.
ReadBehind == mu = "read" => read <= total

TrafficInv == TrafficTypes /\ Balance /\ ReadBehind /\ OnlyProxied

\* A process that has carried nothing satisfies the invariant.
LEMMA TrafficInitInv == TrafficInit => TrafficInv
  BY DEF TrafficInit, TrafficInv, TrafficTypes, Balance, ReadBehind, OnlyProxied

\* What a read is about to show was proxied by this session, or straddles its
\* start (mihomoTraffic.proxied).
LEMMA DifferenceIsProxied ==
  ASSUME TrafficTypes, Balance, ReadBehind, mu = "read", read > base + direct
  PROVE  read - (base + direct) \in Nat /\ read - (base + direct) <= proxied + carried
  BY DEF TrafficTypes, Balance, ReadBehind

\* Chunks, starts and reads keep the books.
LEMMA TrafficStep ==
  ASSUME TrafficInv, [TrafficNext]_trafficVars
  PROVE  TrafficInv'
  <1> USE DEF TrafficInv, TrafficTypes, Balance, ReadBehind, OnlyProxied
  <1>1. CASE ProxiedChunk
    BY <1>1 DEF ProxiedChunk
  <1>2. CASE DirectChunk
    BY <1>2 DEF DirectChunk
  <1>3. CASE DirectTotalled
    BY <1>3 DEF DirectTotalled
  <1>4. CASE StartMark
    BY <1>4 DEF StartMark
  <1>5. CASE StartReset
    BY <1>5 DEF StartReset
  <1>6. CASE ReadTotal
    BY <1>6 DEF ReadTotal
  <1>7. CASE ReadShows
    <2>1. shown' \in Nat /\ shown' <= proxied + carried
      BY <1>7, DifferenceIsProxied DEF ReadShows
    <2> QED BY <1>7, <2>1 DEF ReadShows
  <1>8. CASE UNCHANGED trafficVars
    BY <1>8 DEF trafficVars
  <1> QED BY <1>1, <1>2, <1>3, <1>4, <1>5, <1>6, <1>7, <1>8 DEF TrafficNext

\* The books balance throughout, however chunks fall between the steps of a
\* start and of a read (startSession, proxied, countedConn).
THEOREM TrafficInvariant == TrafficSpec => []TrafficInv
  BY TrafficInitInv, TrafficStep, PTL DEF TrafficSpec

\* A session reports no more than it proxied, the DIRECT chunks that straddle
\* its start apart (mihomoTraffic.proxied).
THEOREM ReportsOnlyProxied == TrafficSpec => []OnlyProxied
  <1>1. TrafficInv => OnlyProxied
    BY DEF TrafficInv
  <1> QED BY <1>1, TrafficInvariant, PTL

\* What a session reported is never taken back (the max of proxied).
THEOREM ReportsNeverShrink == TrafficSpec => NeverTakenBack
  <1>1. TrafficInv /\ [TrafficNext]_trafficVars
          => [mu # "start" => shown' >= shown]_trafficVars
    <2> SUFFICES ASSUME TrafficInv, TrafficNext, mu # "start"
                 PROVE  shown' >= shown
      BY DEF trafficVars
    <2> USE DEF TrafficInv, TrafficTypes
    <2>1. CASE ReadShows
      BY <2>1 DEF ReadShows
    <2>2. CASE ~ReadShows
      BY <2>2 DEF TrafficNext, ProxiedChunk, DirectChunk, DirectTotalled,
                  StartMark, StartReset, ReadTotal
    <2> QED BY <2>1, <2>2
  <1> QED BY <1>1, TrafficInvariant, PTL DEF TrafficSpec, NeverTakenBack

-----------------------------------------------------------------------------
(* ServerWatch: the picker finds the tag that leads, whenever one does. *)

\* Every set of naturals has a least element: what the inductions below use.
LEMMA LeastNatural ==
  ASSUME NEW T \in SUBSET Nat, T # {}
  PROVE  \E n \in T : \A m \in T : n <= m
<1> DEFINE R == {ss \in Nat \X Nat : ss[1] < ss[2]}
<1>1. IsWellFoundedOn(R, Nat)
  BY NatLessThanWellFounded DEF OpToRel
<1> HIDE DEF R
<1>2. PICK n \in T : \A m \in T : ~(<<m, n>> \in R)
  BY ZenonT(60), <1>1, WFMin
<1>3. ASSUME NEW m \in T PROVE n <= m
  <2>1. m \in Nat /\ n \in Nat /\ ~(<<m, n>> \in R)
    BY <1>2
  <2>2. ~(m < n)
    BY <2>1 DEF R
  <2> QED
    BY <2>1, <2>2
<1> QED
  BY <1>3

Started == [best |-> Nobody, most |-> 0, second |-> 0]

\* The recursion of the picker's loop has a solution: for each number of turns
\* there is a function that follows it that far.
LEMMA ScanExists ==
    ASSUME NEW d
    PROVE  \E g : g = [i \in 0..Tags |-> IF i = 0 THEN Started ELSE seen(d, g[i - 1], i)]
<1> DEFINE Upto(n, g) == g = [i \in 0..n |-> IF i = 0 THEN Started ELSE seen(d, g[i - 1], i)]
           T == {n \in Nat : ~ \E g : Upto(n, g)}
<1>1. SUFFICES ASSUME T # {} PROVE FALSE
  BY WatchAssumption
<1>2. PICK n \in T : \A m \in T : n <= m
  BY ZenonT(60), <1>1, LeastNatural
<1>3. n # 0
  <2>1. Upto(0, [i \in 0..0 |-> Started])
    OBVIOUS
  <2> QED
    BY ZenonT(60), <2>1
<1>4. PICK g : Upto(n - 1, g)
  <2>1. n - 1 \in Nat /\ ~(n <= n - 1)
    BY <1>3
  <2> QED
    BY <1>2, <2>1
<1> DEFINE h == [i \in 0..n |-> IF i = n THEN seen(d, g[n - 1], n) ELSE g[i]]
<1>5. Upto(n, h)
  <2>1. \A i \in 0..n : h[i] = IF i = 0 THEN Started ELSE seen(d, h[i - 1], i)
    <3> SUFFICES ASSUME NEW i \in 0..n
                 PROVE  h[i] = IF i = 0 THEN Started ELSE seen(d, h[i - 1], i)
      BY ZenonT(60)
    <3>1. n \in Nat /\ n > 0
      BY <1>3
    <3>2. CASE i = n
      <4>1. h[n] = seen(d, g[n - 1], n) /\ h[n - 1] = g[n - 1]
        BY <3>1
      <4> QED
        BY <3>1, <3>2, <4>1
    <3>3. CASE i # n
      <4>1. i \in 0..(n - 1) /\ h[i] = g[i]
        BY <3>1, <3>3
      <4>2. g[i] = IF i = 0 THEN Started ELSE seen(d, g[i - 1], i)
        BY <1>4, <4>1
      <4>3. i # 0 => h[i - 1] = g[i - 1]
        BY <3>1, <4>1
      <4> QED
        BY <4>1, <4>2, <4>3
    <3> QED
      BY <3>2, <3>3
  <2>2. h = [i \in 0..n |-> h[i]]
    OBVIOUS
  <2>3. [i \in 0..n |-> h[i]] = [i \in 0..n |-> IF i = 0 THEN Started ELSE seen(d, h[i - 1], i)]
    <3> HIDE DEF h
    <3> QED
      BY <2>1
  <2> HIDE DEF h
  <2> QED
    BY ZenonT(60), <2>2, <2>3
<1> QED
  BY ZenonT(60), <1>2, <1>5

\* So scanned is that function: its turns are the loop's.
LEMMA ScanTurns ==
    ASSUME NEW d
    PROVE  scanned(d) = [i \in 0..Tags |->
               IF i = 0 THEN Started ELSE seen(d, scanned(d)[i - 1], i)]
<1>1. scanned(d) = CHOOSE g : g = [i \in 0..Tags |->
               IF i = 0 THEN Started ELSE seen(d, g[i - 1], i)]
  BY DEF scanned, Started
<1> QED
  BY ScanExists, <1>1, ZenonT(60)

Counts == [best : Nat, most : Nat, second : Nat]

\* The loop's invariant: the most is the best tag's growth, and the second is
\* the greatest of all the others seen.
Counted(d, r, i) ==
    /\ r \in Counts
    /\ r.second <= r.most
    /\ r.best = Nobody => r.most = 0
    /\ r.best # Nobody => r.best \in 1..i /\ r.most = d[r.best] /\ r.most > 0
    /\ \A j \in 1..i : j # r.best => d[j] <= r.second
    /\ r.second # 0 => \E j \in 1..i : j # r.best /\ d[j] = r.second

\* A turn of the loop keeps its invariant,
LEMMA TurnCounts ==
    ASSUME NEW d \in Delta, NEW i \in Tag, NEW r, Counted(d, r, i - 1)
    PROVE  Counted(d, seen(d, r, i), i)
<1> DEFINE s == seen(d, r, i)
<1>0. /\ i \in Nat /\ i >= 1 /\ i - 1 \in Nat
      /\ \A j \in 1..i : d[j] \in Nat
      /\ 1..i = 1..(i - 1) \cup {i}
      /\ i \notin 1..(i - 1)
  BY WatchAssumption DEF Tag, Delta
<1>1. CASE d[i] > r.most
  <2>1. s = [best |-> i, most |-> d[i], second |-> r.most]
    BY <1>1 DEF seen
  <2>2. s \in Counts /\ s.best = i /\ s.most = d[i] /\ s.second = r.most
    BY <1>0, <2>1 DEF Counted, Counts
  <2>3. \A j \in 1..i : j # i => d[j] <= r.most
    BY <1>0 DEF Counted, Counts, Nobody
  <2>4. r.most # 0 => \E j \in 1..i : j # i /\ d[j] = r.most
    BY <1>0 DEF Counted, Counts, Nobody
  <2> HIDE DEF s
  <2>5. Counted(d, s, i)
    BY <1>0, <1>1, <2>2, <2>3, <2>4 DEF Counted, Counts, Nobody
  <2> QED
    BY <2>5 DEF s
<1>2. CASE ~(d[i] > r.most) /\ d[i] > r.second
  <2>1. s = [r EXCEPT !.second = d[i]]
    BY <1>2 DEF seen
  <2>2. s \in Counts /\ s.best = r.best /\ s.most = r.most /\ s.second = d[i]
    BY <1>0, <2>1 DEF Counted, Counts
  <2> HIDE DEF s
  <2>5. Counted(d, s, i)
    BY <1>0, <1>2, <2>2 DEF Counted, Counts, Nobody
  <2> QED
    BY <2>5 DEF s
<1>3. CASE ~(d[i] > r.most) /\ ~(d[i] > r.second)
  <2>1. s = r
    BY <1>3 DEF seen
  <2> HIDE DEF s
  <2>5. Counted(d, s, i)
    BY <1>0, <1>3, <2>1 DEF Counted, Counts, Nobody
  <2> QED
    BY <2>5 DEF s
<1> QED
  BY <1>1, <1>2, <1>3

\* so the invariant holds when the loop has seen every tag.
LEMMA ScanCounts ==
    ASSUME NEW d \in Delta
    PROVE  Counted(d, scanned(d)[Tags], Tags)
<1> DEFINE T == {n \in Nat : n <= Tags /\ ~Counted(d, scanned(d)[n], n)}
<1>1. SUFFICES ASSUME T # {} PROVE FALSE
  BY WatchAssumption
<1>2. PICK n \in T : \A m \in T : n <= m
  BY ZenonT(60), <1>1, LeastNatural
<1>3. \A i \in 0..Tags : scanned(d)[i] =
        IF i = 0 THEN Started ELSE seen(d, scanned(d)[i - 1], i)
  BY ZenonT(60), ScanTurns
<1>4. n # 0
  <2>1. Counted(d, Started, 0)
    BY DEF Counted, Counts, Started, Nobody
  <2> QED
    BY <1>2, <1>3, <2>1, WatchAssumption
<1>5. n \in Tag /\ n - 1 \in Nat /\ n - 1 <= Tags /\ ~(n <= n - 1) /\ n \in 0..Tags
  BY <1>2, <1>4, WatchAssumption DEF Tag
<1>6. Counted(d, scanned(d)[n - 1], n - 1)
  BY <1>2, <1>5
<1>7. Counted(d, seen(d, scanned(d)[n - 1], n), n)
  BY <1>5, <1>6, TurnCounts
<1> QED
  BY <1>2, <1>3, <1>4, <1>5, <1>7

\* Multiples are ordered as what they are multiples of.
LEMMA Multiples ==
    ASSUME NEW a \in Nat, NEW b \in Nat, NEW c \in Nat, a <= b
    PROVE  c * a <= c * b /\ c * a \in Nat /\ b * c = c * b
OBVIOUS

\* The picker names a tag exactly when that tag leads.
LEMMA PickLeads ==
    ASSUME NEW d \in Delta
    PROVE  /\ pick(d) \in Tag \cup {Nobody}
           /\ \A i \in Tag : Leads(i, d) <=> pick(d) = i
<1> DEFINE r == scanned(d)[Tags]
           L == tagTrafficLead
<1>1. Counted(d, r, Tags)
  BY ScanCounts
<1>2. pick(d) = IF r.most < minTagTrafficDelta \/ r.most < r.second * L
                THEN Nobody ELSE r.best
  BY DEF pick
<1> HIDE DEF r
<1>3. /\ r.best \in Nat /\ r.most \in Nat /\ r.second \in Nat
      /\ L \in Nat /\ L >= 2 /\ minTagTrafficDelta \in Nat /\ minTagTrafficDelta >= 1
      /\ \A j \in Tag : d[j] \in Nat
      /\ Tag = 1..Tags /\ Nobody \notin Tag
  BY <1>1, WatchAssumption DEF Counted, Counts, Tag, Delta, Nobody
<1>4. pick(d) \in Tag \cup {Nobody}
  BY <1>1, <1>2 DEF Counted, Tag
<1>5. ASSUME NEW i \in Tag, pick(d) = i PROVE Leads(i, d)
  <2>1. i = r.best /\ r.most >= minTagTrafficDelta /\ r.most >= r.second * L
    <3>1. r.second * L \in Nat
      BY <1>3, Multiples
    <3> QED
      BY <1>2, <1>3, <1>5, <3>1
  <2>2. r.most = d[i]
    BY <1>1, <1>3, <2>1 DEF Counted
  <2>3. ASSUME NEW j \in Tag \ {i} PROVE d[i] >= L * d[j]
    <3>1. d[j] <= r.second
      BY <1>1, <1>3, <2>1 DEF Counted
    <3>2. L * d[j] <= L * r.second /\ L * d[j] \in Nat /\ r.second * L = L * r.second
      BY <1>3, <3>1, Multiples
    <3>3. L * r.second \in Nat
      BY <1>3, Multiples
    <3> QED
      BY <1>3, <2>1, <2>2, <3>2, <3>3
  <2> QED
    BY <2>1, <2>2, <2>3 DEF Leads
<1>6. ASSUME NEW i \in Tag, Leads(i, d) PROVE pick(d) = i
  <2>1. d[i] \in Nat /\ d[i] >= minTagTrafficDelta /\ d[i] > 0
    BY <1>3, <1>6 DEF Leads
  <2>2. ASSUME NEW j \in Tag \ {i} PROVE d[i] >= L * d[j] /\ d[i] >= 2 * d[j]
    <3>1. d[i] >= L * d[j]
      BY <1>6 DEF Leads
    <3>2. d[j] * 2 <= d[j] * L /\ d[j] * L \in Nat /\ d[j] * L = L * d[j]
      BY <1>3, Multiples
    <3> QED
      BY <1>3, <2>1, <3>1, <3>2
  <2>3. r.best = i
    <3> SUFFICES ASSUME r.best # i PROVE FALSE
      OBVIOUS
    <3>1. d[i] <= r.second /\ r.second <= r.most
      BY <1>1, <1>3 DEF Counted
    <3>2. r.best \in Tag /\ r.most = d[r.best]
      BY <1>1, <1>3, <2>1, <3>1 DEF Counted
    <3>3. d[i] >= 2 * d[r.best]
      BY <2>2, <3>2
    <3> QED
      BY <1>3, <2>1, <3>1, <3>2, <3>3
  <2>4. r.most = d[i]
    BY <1>1, <1>3, <2>3 DEF Counted
  <2>5. r.most >= r.second * L /\ r.second * L \in Nat
    <3>1. CASE r.second = 0
      BY <1>3, <3>1
    <3>2. CASE r.second # 0
      <4>1. PICK j \in 1..Tags : j # i /\ d[j] = r.second
        BY <1>1, <2>3, <3>2 DEF Counted
      <4>2. d[i] >= L * r.second
        BY <1>3, <2>2, <4>1
      <4>3. r.second * L = L * r.second /\ L * r.second \in Nat
        BY <1>3, Multiples
      <4> QED
        BY <2>4, <4>2, <4>3
    <3> QED
      BY <3>1, <3>2
  <2> QED
    BY <1>2, <1>3, <2>1, <2>3, <2>4, <2>5
<1> QED
  BY <1>4, <1>5, <1>6

\* The poller's last name is the one reported, and rests hold no growth.
WatchInv ==
    /\ watching \in BOOLEAN
    /\ delta \in Delta
    /\ watching => selection = last
    /\ ~watching => delta = Still /\ selection = Nothing
    /\ PickStandsOut

WatchSpec == WatchInit /\ [][WatchNext]_watchVars

\* Of tags that have not grown none leads.
LEMMA StillLeadsNone == Still \in Delta /\ \A i \in Tag : ~Leads(i, Still)
  BY WatchAssumption DEF Still, Delta, Leads

\* A poller that does not run reports nothing.
LEMMA WatchInitInv == WatchInit => WatchInv
<1> SUFFICES ASSUME WatchInit PROVE WatchInv
  OBVIOUS
<1>1. Nothing \notin Tag
  BY WatchAssumption DEF Nothing, Tag
<1> QED
  BY ZenonT(60), <1>1, StillLeadsNone DEF WatchInit, WatchInv, PickStandsOut

\* Starting, seeding, polling and ending keep the invariant.
LEMMA WatchStep == WatchInv /\ [WatchNext]_watchVars => WatchInv'
<1> SUFFICES ASSUME WatchInv, [WatchNext]_watchVars PROVE WatchInv'
  OBVIOUS
<1>0. Nobody \notin Tag /\ Nothing \notin Tag
  BY WatchAssumption DEF Tag, Nobody, Nothing
<1>1. CASE StartWatch
  BY <1>0, <1>1, StillLeadsNone DEF WatchInv, StartWatch, PickStandsOut
<1>2. CASE Seed
  BY <1>0, <1>2, StillLeadsNone DEF WatchInv, Seed, PickStandsOut
<1>3. CASE EndWatch
  BY ZenonT(60), <1>0, <1>3, StillLeadsNone DEF WatchInv, EndWatch, PickStandsOut
<1>4. ASSUME NEW d \in Delta, Poll(d) PROVE WatchInv'
  <2>1. /\ pick(d) \in Tag \cup {Nobody}
        /\ \A i \in Tag : Leads(i, d) <=> pick(d) = i
    BY PickLeads
  <2>2. /\ watching /\ watching' = watching /\ delta' = d
        /\ \/ /\ pick(d) \in {Nobody, last}
              /\ last' = last /\ selection' = selection /\ cause' = cause
           \/ /\ pick(d) \notin {Nobody, last}
              /\ last' = pick(d) /\ selection' = pick(d) /\ cause' = d
    BY <1>4 DEF Poll
  <2> QED
    BY <1>0, <2>1, <2>2 DEF WatchInv, PickStandsOut
<1>5. CASE UNCHANGED watchVars
  BY <1>5 DEF WatchInv, watchVars, PickStandsOut
<1> QED
  BY <1>1, <1>2, <1>3, <1>4, <1>5 DEF WatchNext

\* For any number of tags and any lead required, the server xray's poller
\* reports led all others in the poll that named it, and when one leads in the
\* last poll it is the one reported.
THEOREM PicksStandOut == WatchSpec => []PickStandsOut
<1>1. WatchInv => PickStandsOut
  BY DEF WatchInv
<1> QED
  BY WatchInitInv, WatchStep, <1>1, PTL DEF WatchSpec
=============================================================================
