------------------------- MODULE EngineSessionProofs -------------------------
(***************************************************************************)
(* What the session protocol guarantees for any set of engines, starts and *)
(* stops: its inductive invariant, step by step, and what follows from it. *)
(***************************************************************************)
EXTENDS EngineSession, FiniteSetTheorems, TLAPS

\* Every leaf is small; the limits leave room for a loaded machine.
USE SMTT(60), ZenonT(60)

-----------------------------------------------------------------------------
(* The inductive invariant, and the steps that do no more than move one call. *)

\* The pcs from which a start that marked its instance running holds coreMutex.
OwnerPc == {"settle", "liveness", "server", "ip", "unlock"}

\* coreMutex is held by exactly the start that is between LockCore and unlock.
MutexHeld == \A r \in Start : startPc[r] \in CriticalPc <=> coreMutex = r

\* A call names its engine, and no generation kept anywhere is ahead of
\* sessionGen.
Bounded ==
    /\ \A r \in Start : /\ startPc[r] # "idle" => startEngine[r] \in Engine
                        /\ startPc[r] \in GoroutinePc \union {"count"} =>
                               startMark[r] \in Nat
                        /\ startMark[r] <= sessionGen
    /\ \A p \in Stop : /\ stopPc[p] # "idle" => stopEngine[p] \in Engine
                       /\ stopGen[p] <= sessionGen
    /\ \A e \in Engine : instanceGen[e] <= sessionGen

\* A start about to bring its instance up finds nothing running, and is newer
\* than every stop that has closed its engine.
Clear ==
    \A r \in Start : startPc[r] = "build" =>
        /\ \A e \in Engine : ~running[e]
        /\ \A p \in Stop : stopPc[p] \in {"disconnected", "done"} =>
               stopGen[p] <= startMark[r]

\* A start that brought its instance up finds it still running until it unlocks.
Owned ==
    \A r \in Start : startPc[r] \in OwnerPc =>
        runsSession(startEngine[r], startMark[r])

\* A probe that is not the running instance's is about to be replaced by the
\* start that holds coreMutex.
Probes ==
    \A e \in Engine : running[e] =>
        /\ \/ liveness \in {NoGen, instanceGen[e]}
           \/ \E r \in Start : startPc[r] \in {"settle", "liveness"}
        /\ \/ ipResolve \in {NoGen, instanceGen[e]}
           \/ \E r \in Start : startPc[r] \in {"settle", "liveness", "server", "ip"}

IInv ==
    /\ TypeOK /\ MutexHeld /\ Bounded /\ Clear /\ Owned
    /\ OneEngine /\ StoppedStaysDown /\ Probes

\* A counter per engine stays one when it moves by one.
LEMMA CountType ==
  ASSUME NEW f \in [Engine -> Int], NEW e \in Engine
  PROVE  /\ [f EXCEPT ![e] = f[e] + 1] \in [Engine -> Int]
         /\ [f EXCEPT ![e] = f[e] - 1] \in [Engine -> Int]
  OBVIOUS

\* A flag per engine stays one when it is set.
LEMMA FlagType ==
  ASSUME NEW f \in [Engine -> BOOLEAN], NEW e, NEW v \in BOOLEAN
  PROVE  [f EXCEPT ![e] = v] \in [Engine -> BOOLEAN]
  BY ZenonT(60)

-----------------------------------------------------------------------------
(* What most steps do: one call moves on, and loops may end. *)

\* No instance and no generation moves, a loop is kept or ended, and the rest
\* keeps its type.
Quiet ==
    /\ UNCHANGED <<sessionGen, running, instanceGen>>
    /\ liveness' \in {liveness, NoGen} /\ ipResolve' \in {ipResolve, NoGen}
    /\ selWatch' \in {selWatch, NoGen} /\ serverSel' \in {serverSel, NoGen}
    /\ stats' \in BOOLEAN
    /\ report' \in SessionEvent \union {"none"}
    /\ startsInFlight' \in [Engine -> Int]
    /\ replayPc' \in [Client -> {"idle", "attach", "connected", "stats", "done"}]

\* Start r moves on, and neither takes nor gives back coreMutex.
StartMoves(r) ==
    /\ Quiet
    /\ UNCHANGED <<coreMutex, startEngine, startMark, stopPc, stopEngine, stopGen>>
    /\ startPc' = [startPc EXCEPT ![r] = startPc'[r]]
    /\ startPc[r] # "idle" /\ startPc'[r] \in StartPc
    /\ startPc'[r] \in CriticalPc <=> startPc[r] \in CriticalPc
    /\ startPc'[r] \in GoroutinePc \union {"count"} =>
           startPc[r] \in GoroutinePc \union {"count"}
    /\ startPc'[r] # "build"
    /\ startPc'[r] \in OwnerPc => startPc[r] \in OwnerPc
    /\ startPc[r] \in {"settle", "liveness"} => startPc'[r] \in {"settle", "liveness"}
    /\ startPc[r] \notin {"server", "ip"}

\* Start r gives coreMutex back, its instance armed or never brought up.
StartReleases(r) ==
    /\ Quiet
    /\ coreMutex' = Nobody
    /\ UNCHANGED <<startEngine, startMark, stopPc, stopEngine, stopGen>>
    /\ startPc' = [startPc EXCEPT ![r] = startPc'[r]]
    /\ startPc[r] \in {"prepare", "build", "unlock"} /\ startPc'[r] \in TailPc

\* Stop p moves on, without closing its engine.
StopMoves(p) ==
    /\ Quiet
    /\ UNCHANGED <<coreMutex, startPc, startEngine, startMark, stopEngine, stopGen>>
    /\ stopPc' = [stopPc EXCEPT ![p] = stopPc'[p]]
    /\ stopPc[p] # "idle" /\ stopPc'[p] \in StopPc \ {"disconnected"}
    /\ stopPc'[p] = "done" => stopPc[p] = "disconnected"

\* A start that moves on outside the lock, or between two of its steps under it.
LEMMA StartMovesInv ==
  ASSUME IInv, NEW r \in Start, StartMoves(r)
  PROVE  IInv'
  <1>1. TypeOK'
    BY DEF IInv, TypeOK, StartMoves, Quiet, Gen
  <1>2. MutexHeld'
    BY DEF IInv, TypeOK, MutexHeld, StartMoves
  <1>3. Bounded'
    BY DEF IInv, TypeOK, Bounded, StartMoves, Quiet
  <1>4. Clear'
    BY DEF IInv, TypeOK, Clear, StartMoves, Quiet
  <1>5. Owned'
    BY DEF IInv, TypeOK, Owned, StartMoves, Quiet, runsSession
  <1>6. OneEngine' /\ StoppedStaysDown'
    BY DEF IInv, OneEngine, StoppedStaysDown, StartMoves, Quiet
  <1>7. Probes'
    BY DEF IInv, TypeOK, Probes, StartMoves, Quiet
  <1> QED BY <1>1, <1>2, <1>3, <1>4, <1>5, <1>6, <1>7 DEF IInv

\* A start that gives coreMutex back.
LEMMA StartReleasesInv ==
  ASSUME IInv, NEW r \in Start, StartReleases(r)
  PROVE  IInv'
  <1>1. TypeOK'
    BY DEF IInv, TypeOK, StartReleases, Quiet, Gen, TailPc, GoroutinePc, StartPc
  <1>2. MutexHeld'
    BY RequestAssumption
       DEF IInv, TypeOK, MutexHeld, StartReleases, CriticalPc, TailPc
  <1>3. Bounded'
    BY DEF IInv, TypeOK, Bounded, StartReleases, Quiet, CriticalPc, TailPc, GoroutinePc
  <1>4. Clear'
    BY DEF IInv, TypeOK, Clear, StartReleases, Quiet, TailPc
  <1>5. Owned'
    BY DEF IInv, TypeOK, Owned, StartReleases, Quiet, runsSession, TailPc, OwnerPc
  <1>6. OneEngine' /\ StoppedStaysDown'
    BY DEF IInv, OneEngine, StoppedStaysDown, StartReleases, Quiet
  <1>7. Probes'
    BY DEF IInv, TypeOK, Probes, StartReleases, Quiet, TailPc
  <1> QED BY <1>1, <1>2, <1>3, <1>4, <1>5, <1>6, <1>7 DEF IInv

\* A stop that moves on.
LEMMA StopMovesInv ==
  ASSUME IInv, NEW p \in Stop, StopMoves(p)
  PROVE  IInv'
  <1>1. TypeOK'
    BY DEF IInv, TypeOK, StopMoves, Quiet, Gen
  <1>2. MutexHeld' /\ Owned' /\ OneEngine'
    BY DEF IInv, MutexHeld, Owned, OneEngine, StopMoves, Quiet, runsSession
  <1>3. Bounded'
    BY DEF IInv, TypeOK, Bounded, StopMoves, Quiet
  <1>4. Clear'
    BY DEF IInv, TypeOK, Clear, StopMoves, Quiet
  <1>5. StoppedStaysDown'
    BY DEF IInv, TypeOK, StoppedStaysDown, StopMoves, Quiet
  <1>6. Probes'
    BY DEF IInv, Probes, StopMoves, Quiet
  <1> QED BY <1>1, <1>2, <1>3, <1>4, <1>5, <1>6 DEF IInv

\* A step that moves no call.
LEMMA QuietInv ==
  ASSUME IInv, Quiet,
         UNCHANGED <<coreMutex, startPc, startEngine, startMark, stopPc,
                     stopEngine, stopGen>>
  PROVE  IInv'
  <1>1. TypeOK'
    BY DEF IInv, TypeOK, Quiet, Gen
  <1>2. MutexHeld' /\ Owned' /\ OneEngine'
    BY DEF IInv, MutexHeld, Owned, OneEngine, Quiet, runsSession
  <1>3. Bounded' /\ Clear' /\ StoppedStaysDown'
    BY DEF IInv, Bounded, Clear, StoppedStaysDown, Quiet
  <1>4. Probes'
    BY DEF IInv, Probes, Quiet
  <1> QED BY <1>1, <1>2, <1>3, <1>4 DEF IInv

-----------------------------------------------------------------------------
(* Every action keeps IInv. *)

\* The initial state of the controller.
LEMMA InitInv == Init => IInv
  <1> SUFFICES ASSUME Init PROVE IInv
    OBVIOUS
  <1>1. TypeOK
    <2>1. /\ running \in [Engine -> BOOLEAN] /\ stats \in BOOLEAN
          /\ replayPc \in [Client -> {"idle", "attach", "connected", "stats", "done"}]
      BY ZenonT(60) DEF Init
    <2>2. /\ startPc \in [Start -> StartPc] /\ stopPc \in [Stop -> StopPc]
          /\ startEngine \in [Start -> Engine \union {NoEngine}]
          /\ stopEngine \in [Stop -> Engine \union {NoEngine}]
      BY DEF Init, StartPc, StopPc
    <2>3. /\ startsInFlight \in [Engine -> Int] /\ instanceGen \in [Engine -> Nat]
          /\ startMark \in [Start -> Gen] /\ stopGen \in [Stop -> Gen]
      BY DEF Init, Gen, NoGen
    <2> QED BY <2>1, <2>2, <2>3 DEF Init, TypeOK, Gen
  <1>2. MutexHeld /\ Bounded /\ Clear /\ Owned
    BY RequestAssumption DEF Init, MutexHeld, Bounded, Clear, Owned, OwnerPc,
          CriticalPc, TailPc, GoroutinePc, NoGen
  <1>3. OneEngine /\ StoppedStaysDown /\ Probes
    BY DEF Init, OneEngine, StoppedStaysDown, Probes
  <1> QED BY <1>1, <1>2, <1>3 DEF IInv

\* Replacing an instance only takes the engine's own one down and loops away.
LEMMA ReplaceOnlyEnds ==
  ASSUME TypeOK, NEW e \in Engine, ReplaceInstance(e)
  PROVE  /\ running' \in [Engine -> BOOLEAN] /\ ~running'[e]
         /\ \A f \in Engine : running'[f] => running[f]
         /\ \A f \in Engine : f # e => running'[f] = running[f]
         /\ instanceGen' = instanceGen
         /\ liveness' \in {liveness, NoGen} /\ selWatch' \in {selWatch, NoGen}
         /\ serverSel' \in {serverSel, NoGen} /\ ipResolve' \in {ipResolve, NoGen}
  <1>1. CASE running[e]
    <2>1. running' = [running EXCEPT ![e] = FALSE] /\ instanceGen' = instanceGen
      BY <1>1 DEF ReplaceInstance, stopLocked
    <2>2. running' \in [Engine -> BOOLEAN] /\ ~running'[e]
      BY <2>1 DEF TypeOK
    <2>3. /\ \A f \in Engine : running'[f] => running[f]
          /\ \A f \in Engine : f # e => running'[f] = running[f]
      BY <1>1, <2>1 DEF TypeOK
    <2>4. /\ liveness' = NoGen /\ selWatch' = NoGen
          /\ serverSel' = NoGen /\ ipResolve' = NoGen
      BY <1>1 DEF ReplaceInstance, endSessionLoops
    <2> QED BY <2>1, <2>2, <2>3, <2>4
  <1>2. CASE ~running[e]
    BY <1>2 DEF ReplaceInstance, instance, loops, TypeOK
  <1> QED BY <1>1, <1>2

\* The start handler.
LEMMA HandlerInv ==
  ASSUME IInv, NEW r \in Start, HandlerStep(r)
  PROVE  IInv'
  <1> USE DEF StartAt, emitStatus, SessionEvent, instance, loops, starts, stops,
              HandlerPc, CriticalPc, OwnerPc, TailPc, GoroutinePc, StartPc
  <1>0. TypeOK
    BY DEF IInv
  <1>1. CASE ReplyAlreadyRunning(r)
    <2>1. StartMoves(r)
      BY <1>0, <1>1 DEF ReplyAlreadyRunning, StartMoves, Quiet, TypeOK
    <2> QED BY <2>1, StartMovesInv
  <1>2. CASE ReplyStats(r)
    <2>1. StartMoves(r)
      BY <1>0, <1>2 DEF ReplyStats, StartMoves, Quiet, TypeOK
    <2> QED BY <2>1, StartMovesInv
  <1>3. CASE ReplyConnected(r)
    <2>1. StartMoves(r)
      BY <1>0, <1>3 DEF ReplyConnected, StartMoves, Quiet, TypeOK
    <2> QED BY <2>1, StartMovesInv
  <1>4. CASE StartInvalid(r)
    <2>1. StartMoves(r)
      BY <1>0, <1>4 DEF StartInvalid, StartMoves, Quiet, TypeOK
    <2> QED BY <2>1, StartMovesInv
  <1>5. CASE StartConnecting(r)
    <2>1. StartMoves(r)
      BY <1>0, <1>5 DEF StartConnecting, StartMoves, Quiet, TypeOK
    <2> QED BY <2>1, StartMovesInv
  <1>6. CASE BeginStartFails(r)
    <2>1. StartMoves(r)
      BY <1>0, <1>6 DEF BeginStartFails, StartMoves, Quiet, TypeOK
    <2> QED BY <2>1, StartMovesInv
  <1>7. CASE beginStart(r)
    <2>1. TypeOK'
      BY <1>7, <1>0 DEF beginStart, TypeOK, Gen
    <2>2. MutexHeld' /\ Clear' /\ Owned'
      BY <1>7 DEF beginStart, IInv, TypeOK, MutexHeld, Clear, Owned, runsSession
    <2>3. Bounded'
      BY <1>7 DEF beginStart, IInv, TypeOK, Bounded
    <2>4. OneEngine' /\ StoppedStaysDown'
      BY <1>7 DEF beginStart, IInv, OneEngine, StoppedStaysDown
    <2>5. Probes'
      BY <1>7 DEF beginStart, IInv, TypeOK, Probes
    <2> QED BY ZenonT(60), <2>1, <2>2, <2>3, <2>4, <2>5 DEF IInv
  <1>8. CASE CountStart(r)
    <2>1. startsInFlight' \in [Engine -> Int]
      <3>1. startEngine[r] \in Engine
        BY <1>8 DEF CountStart, IInv, Bounded
      <3>2. startsInFlight' =
              [startsInFlight EXCEPT ![startEngine[r]] = startsInFlight[startEngine[r]] + 1]
        BY <1>8 DEF CountStart
      <3>3. startsInFlight \in [Engine -> Int]
        BY <1>0 DEF TypeOK
      <3> QED BY <3>1, <3>2, <3>3, CountType, ZenonT(60)
    <2>2. StartMoves(r)
      BY <1>0, <1>8, <2>1 DEF CountStart, StartMoves, Quiet, TypeOK
    <2> QED BY <2>2, StartMovesInv
  <1> QED BY ZenonT(60), <1>1, <1>2, <1>3, <1>4, <1>5, <1>6, <1>7, <1>8
          DEF HandlerStep

\* The steps of a start outside coreMutex.
LEMMA TailInv ==
  ASSUME IInv, NEW r \in Start, TailStep(r)
  PROVE  IInv'
  <1> USE DEF StartAt, emitStatus, SessionEvent, instance, loops, starts, stops,
              HandlerPc, CriticalPc, OwnerPc, TailPc, GoroutinePc, StartPc
  <1>0. TypeOK
    BY DEF IInv
  <1>1. CASE ChooseAwgLink(r)
    <2>1. StartMoves(r)
      BY <1>0, <1>1 DEF ChooseAwgLink, StartMoves, Quiet, TypeOK
    <2> QED BY <2>1, StartMovesInv
  <1>2. CASE LockCore(r)
    <2>1. /\ startPc[r] = "lock" /\ startPc' = [startPc EXCEPT ![r] = "prepare"]
          /\ coreMutex = Nobody /\ coreMutex' = r
          /\ UNCHANGED <<sessionGen, running, instanceGen, liveness, selWatch, serverSel,
                         ipResolve, stats, report, startEngine, startMark,
                         startsInFlight, stopPc, stopEngine, stopGen, replayPc>>
      BY ZenonT(60), <1>2 DEF LockCore
    <2>2. TypeOK'
      BY <1>0, <2>1 DEF TypeOK
    <2>3. MutexHeld'
      BY RequestAssumption, <2>1 DEF IInv, TypeOK, MutexHeld
    <2>4. Bounded'
      BY <2>1 DEF IInv, TypeOK, Bounded
    <2>5. Clear' /\ Owned'
      BY <2>1 DEF IInv, TypeOK, Clear, Owned, runsSession
    <2>6. OneEngine' /\ StoppedStaysDown'
      BY ZenonT(60), <2>1 DEF IInv, OneEngine, StoppedStaysDown
    <2>7. Probes'
      BY <2>1 DEF IInv, TypeOK, Probes
    <2> QED BY ZenonT(60), <2>2, <2>3, <2>4, <2>5, <2>6, <2>7 DEF IInv
  <1>3. CASE NotStale(r)
    <2>1. StartMoves(r)
      BY <1>0, <1>3 DEF NotStale, StartMoves, Quiet, TypeOK
    <2> QED BY <2>1, StartMovesInv
  <1>4. CASE AbortStale(r)
    <2>1. StartMoves(r)
      BY <1>0, <1>4 DEF AbortStale, StartMoves, Quiet, TypeOK, endSessionLoops
    <2> QED BY <2>1, StartMovesInv
  <1>5. CASE StartStats(r)
    <2>1. StartMoves(r)
      BY <1>0, <1>5 DEF StartStats, StartMoves, Quiet, TypeOK
    <2> QED BY <2>1, StartMovesInv
  <1>6. CASE EmitConnected(r)
    <2>1. StartMoves(r)
      BY <1>0, <1>6 DEF EmitConnected, StartMoves, Quiet, TypeOK
    <2> QED BY <2>1, StartMovesInv
  <1>7. CASE FailedBump(r)
    <2>1. /\ startPc[r] = "failed" /\ startPc' = [startPc EXCEPT ![r] = "clearWatch"]
          /\ sessionGen' = sessionGen + 1
          /\ UNCHANGED <<coreMutex, running, instanceGen, liveness, selWatch, serverSel,
                         ipResolve, stats, report, startEngine, startMark,
                         startsInFlight, stopPc, stopEngine, stopGen, replayPc>>
      BY ZenonT(60), <1>7 DEF FailedBump
    <2>2. TypeOK'
      BY <1>0, <2>1 DEF TypeOK
    <2>3. MutexHeld'
      BY <2>1 DEF IInv, TypeOK, MutexHeld
    <2>4. Bounded'
      BY <2>1 DEF IInv, TypeOK, Bounded, Gen, NoGen
    <2>5. Clear' /\ Owned'
      BY <2>1 DEF IInv, TypeOK, Clear, Owned, runsSession
    <2>6. OneEngine' /\ StoppedStaysDown'
      BY ZenonT(60), <2>1 DEF IInv, OneEngine, StoppedStaysDown
    <2>7. Probes'
      BY <2>1 DEF IInv, TypeOK, Probes
    <2> QED BY ZenonT(60), <2>2, <2>3, <2>4, <2>5, <2>6, <2>7 DEF IInv
  <1>8. CASE FailedClearWatch(r)
    <2>1. StartMoves(r)
      BY <1>0, <1>8 DEF FailedClearWatch, StartMoves, Quiet, TypeOK
    <2> QED BY <2>1, StartMovesInv
  <1>9. CASE FailedClearIp(r)
    <2>1. StartMoves(r)
      BY <1>0, <1>9 DEF FailedClearIp, StartMoves, Quiet, TypeOK
    <2> QED BY <2>1, StartMovesInv
  <1>10. CASE FailedClearServer(r)
    <2>1. StartMoves(r)
      BY <1>0, <1>10 DEF FailedClearServer, StartMoves, Quiet, TypeOK
    <2> QED BY <2>1, StartMovesInv
  <1>11. CASE EmitStartError(r)
    <2>1. StartMoves(r)
      BY <1>0, <1>11 DEF EmitStartError, StartMoves, Quiet, TypeOK
    <2> QED BY <2>1, StartMovesInv
  <1>12. CASE StartDone(r)
    <2>1. startsInFlight' \in [Engine -> Int]
      <3>1. startEngine[r] \in Engine
        BY <1>12 DEF StartDone, IInv, Bounded
      <3>2. startsInFlight' =
              [startsInFlight EXCEPT ![startEngine[r]] = startsInFlight[startEngine[r]] - 1]
        BY <1>12 DEF StartDone
      <3>3. startsInFlight \in [Engine -> Int]
        BY <1>0 DEF TypeOK
      <3> QED BY <3>1, <3>2, <3>3, CountType, ZenonT(60)
    <2>2. StartMoves(r)
      BY <1>0, <1>12, <2>1 DEF StartDone, StartMoves, Quiet, TypeOK
    <2> QED BY <2>2, StartMovesInv
  <1> QED BY ZenonT(60), <1>1, <1>2, <1>3, <1>4, <1>5, <1>6, <1>7, <1>8, <1>9, <1>10, <1>11, <1>12
          DEF TailStep

-----------------------------------------------------------------------------
(* The steps that change the session. *)

\* The body of a start, under coreMutex.
LEMMA CriticalInv ==
  ASSUME IInv, NEW r \in Start, CriticalStep(r)
  PROVE  IInv'
  <1> USE DEF StartAt, emitStatus, SessionEvent, instance, loops, starts, stops,
              HandlerPc, CriticalPc, OwnerPc, TailPc, GoroutinePc, StartPc, Unlock
  <1>0. TypeOK
    BY DEF IInv
  <1>1. CASE PrepareEnded(r)
    <2>1. StartReleases(r)
      BY <1>0, <1>1 DEF PrepareEnded, StartReleases, Quiet, TypeOK
    <2> QED BY <2>1, StartReleasesInv
  <1>2. CASE PrepareAlready(r)
    <2>1. StartReleases(r)
      BY <1>0, <1>2 DEF PrepareAlready, StartReleases, Quiet, TypeOK
    <2> QED BY <2>1, StartReleasesInv
  <1>3. CASE PrepareFresh(r)
    <2>1. startPc[r] = "prepare" /\ startEngine[r] \in Engine
      BY <1>3 DEF PrepareFresh, IInv, Bounded
    <2>2. ReplaceInstance(startEngine[r])
      BY ZenonT(60), <1>3 DEF PrepareFresh
    <2>3. /\ running' \in [Engine -> BOOLEAN] /\ ~running'[startEngine[r]]
          /\ \A f \in Engine : running'[f] => running[f]
          /\ instanceGen' = instanceGen
          /\ liveness' \in {liveness, NoGen} /\ selWatch' \in {selWatch, NoGen}
          /\ serverSel' \in {serverSel, NoGen} /\ ipResolve' \in {ipResolve, NoGen}
      BY <1>0, <2>1, <2>2, ReplaceOnlyEnds, ZenonT(60)
    <2>4. /\ startPc' = [startPc EXCEPT ![r] = "build"]
          /\ coreMutex' = coreMutex /\ sessionGen = startMark[r]
          /\ UNCHANGED <<sessionGen, stats, report, startEngine, startMark,
                         startsInFlight, stopPc, stopEngine, stopGen, replayPc>>
      BY ZenonT(60), <1>3 DEF PrepareFresh
    <2>5. TypeOK'
      BY <1>0, <2>3, <2>4 DEF TypeOK, Gen
    <2>6. MutexHeld'
      BY RequestAssumption, <2>1, <2>4 DEF IInv, TypeOK, MutexHeld
    <2>7. Bounded'
      BY <2>1, <2>3, <2>4 DEF IInv, TypeOK, Bounded
    <2>8. Clear'
      <3>1. \A f \in Engine : ~running'[f]
        BY <1>3, <2>1, <2>3 DEF PrepareFresh, otherRuns
      <3> QED BY <2>4, <3>1 DEF IInv, TypeOK, Clear, Bounded
    <2>9. Owned'
      BY <2>1, <2>4 DEF IInv, TypeOK, Owned, MutexHeld, runsSession
    <2>10. OneEngine'
      BY <2>3 DEF IInv, OneEngine
    <2>11. StoppedStaysDown'
      BY <2>3, <2>4 DEF IInv, TypeOK, StoppedStaysDown, Bounded
    <2>12. Probes'
      BY <2>1, <2>3, <2>4 DEF IInv, TypeOK, Probes
    <2> QED BY ZenonT(60), <2>5, <2>6, <2>7, <2>8, <2>9, <2>10, <2>11, <2>12 DEF IInv
  <1>4. CASE PrepareConflict(r)
    <2>1. startPc[r] = "prepare" /\ startEngine[r] \in Engine
      BY <1>4 DEF PrepareConflict, IInv, Bounded
    <2>2. ReplaceInstance(startEngine[r])
      BY ZenonT(60), <1>4 DEF PrepareConflict
    <2>3. /\ running' \in [Engine -> BOOLEAN] /\ ~running'[startEngine[r]]
          /\ \A f \in Engine : running'[f] => running[f]
          /\ instanceGen' = instanceGen
          /\ liveness' \in {liveness, NoGen} /\ selWatch' \in {selWatch, NoGen}
          /\ serverSel' \in {serverSel, NoGen} /\ ipResolve' \in {ipResolve, NoGen}
      BY <1>0, <2>1, <2>2, ReplaceOnlyEnds, ZenonT(60)
    <2>4. /\ startPc' = [startPc EXCEPT ![r] = "failed"]
          /\ coreMutex' = Nobody /\ sessionGen = startMark[r]
          /\ UNCHANGED <<sessionGen, stats, report, startEngine, startMark,
                         startsInFlight, stopPc, stopEngine, stopGen, replayPc>>
      BY ZenonT(60), <1>4 DEF PrepareConflict
    <2>5. TypeOK'
      BY <1>0, <2>3, <2>4 DEF TypeOK, Gen
    <2>6. MutexHeld'
      BY RequestAssumption, <2>1, <2>4 DEF IInv, TypeOK, MutexHeld
    <2>7. Bounded'
      BY <2>1, <2>3, <2>4 DEF IInv, TypeOK, Bounded
    <2>8. Clear'
      BY <2>1, <2>4 DEF IInv, TypeOK, Clear, MutexHeld
    <2>9. Owned'
      BY <2>1, <2>4 DEF IInv, TypeOK, Owned, MutexHeld, runsSession
    <2>10. OneEngine'
      BY <2>3 DEF IInv, OneEngine
    <2>11. StoppedStaysDown'
      BY <2>3, <2>4 DEF IInv, TypeOK, StoppedStaysDown, Bounded
    <2>12. Probes'
      BY <2>1, <2>3, <2>4 DEF IInv, TypeOK, Probes
    <2> QED BY ZenonT(60), <2>5, <2>6, <2>7, <2>8, <2>9, <2>10, <2>11, <2>12 DEF IInv
  <1>5. CASE BuildFails(r)
    <2>1. StartReleases(r)
      BY <1>0, <1>5 DEF BuildFails, StartReleases, Quiet, TypeOK
    <2> QED BY <2>1, StartReleasesInv
  <1>6. CASE BringUp(r)
    <2>1. /\ startPc[r] = "build" /\ startEngine[r] \in Engine
          /\ startMark[r] \in Nat /\ startMark[r] <= sessionGen
      BY <1>6 DEF BringUp, IInv, Bounded
    <2>2. PICK to \in {"settle", "liveness"} : startPc' = [startPc EXCEPT ![r] = to]
      BY <1>6, ZenonT(60) DEF BringUp
    <2>3. /\ running' = [running EXCEPT ![startEngine[r]] = TRUE]
          /\ instanceGen' = [instanceGen EXCEPT ![startEngine[r]] = startMark[r]]
          /\ UNCHANGED <<coreMutex, sessionGen, liveness, selWatch, serverSel, ipResolve,
                         stats, report, startEngine, startMark, startsInFlight,
                         stopPc, stopEngine, stopGen, replayPc>>
      BY ZenonT(60), <1>6 DEF BringUp, up
    <2>4. /\ \A f \in Engine : ~running[f]
          /\ \A p \in Stop : stopPc[p] \in {"disconnected", "done"} =>
                 stopGen[p] <= startMark[r]
      BY <2>1 DEF IInv, Clear
    <2>5. \A q \in Start : q # r => startPc[q] \notin CriticalPc
      BY <2>1 DEF IInv, MutexHeld
    <2>6. TypeOK'
      <3>1. running' \in [Engine -> BOOLEAN]
        BY <1>0, <2>3, FlagType, ZenonT(60) DEF TypeOK
      <3> QED BY <1>0, <2>1, <2>2, <2>3, <3>1 DEF TypeOK
    <2>7. MutexHeld'
      BY <2>1, <2>2, <2>3 DEF IInv, TypeOK, MutexHeld
    <2>8. Bounded'
      BY <2>1, <2>2, <2>3 DEF IInv, TypeOK, Bounded
    <2>9. Clear'
      BY <2>2, <2>3, <2>5 DEF IInv, TypeOK, Clear
    <2>10. Owned'
      BY <1>0, <2>1, <2>2, <2>3, <2>5 DEF TypeOK, Owned, runsSession
    <2>11. OneEngine'
      BY <1>0, <2>1, <2>3, <2>4 DEF TypeOK, OneEngine
    <2>12. StoppedStaysDown'
      <3>1. \A p \in Stop : stopPc[p] # "idle" => stopEngine[p] \in Engine
        BY DEF IInv, Bounded
      <3>2. \A f \in Engine : f # startEngine[r] => ~running'[f]
        BY <1>0, <2>3, <2>4 DEF TypeOK
      <3>3. instanceGen'[startEngine[r]] = startMark[r]
        BY <1>0, <2>1, <2>3 DEF TypeOK
      <3>4. \A p \in Stop : stopGen[p] \in Int
        BY <1>0 DEF TypeOK, Gen, NoGen
      <3> QED BY <2>1, <2>3, <2>4, <3>1, <3>2, <3>3, <3>4 DEF StoppedStaysDown
    <2>13. Probes'
      BY <1>0, <2>1, <2>2, <2>3 DEF TypeOK, Probes
    <2> QED BY ZenonT(60), <2>6, <2>7, <2>8, <2>9, <2>10, <2>11, <2>12, <2>13 DEF IInv
  <1>7. CASE XraySettles(r)
    <2>1. StartMoves(r)
      BY <1>0, <1>7 DEF XraySettles, StartMoves, Quiet, TypeOK
    <2> QED BY <2>1, StartMovesInv
  <1>8. CASE xrayRollback(r)
    <2>1. startPc[r] = "settle" /\ startEngine[r] \in Engine
      BY <1>8 DEF xrayRollback, IInv, Bounded
    <2>2. /\ startPc' = [startPc EXCEPT ![r] = "failed"] /\ coreMutex' = Nobody
          /\ running' = [running EXCEPT ![startEngine[r]] = FALSE]
          /\ UNCHANGED <<sessionGen, instanceGen, liveness, selWatch, serverSel,
                         ipResolve, stats, report, startEngine, startMark,
                         startsInFlight, stopPc, stopEngine, stopGen, replayPc>>
      BY ZenonT(60), <1>8 DEF xrayRollback, stopLocked
    <2>3. \A f \in Engine : ~running'[f]
      <3>1. running[startEngine[r]]
        BY <2>1 DEF IInv, Owned, runsSession
      <3>2. \A f \in Engine : f # startEngine[r] => ~running[f]
        BY <2>1, <3>1 DEF IInv, OneEngine
      <3> QED BY <1>0, <2>1, <2>2, <3>2 DEF TypeOK
    <2>4. TypeOK'
      <3>1. running' \in [Engine -> BOOLEAN]
        BY <1>0, <2>2, FlagType, ZenonT(60) DEF TypeOK
      <3> QED BY <1>0, <2>2, <3>1 DEF TypeOK
    <2>5. MutexHeld'
      BY RequestAssumption, <2>1, <2>2 DEF IInv, TypeOK, MutexHeld
    <2>6. Bounded'
      BY <2>1, <2>2 DEF IInv, TypeOK, Bounded
    <2>7. Clear' /\ Owned'
      BY <2>1, <2>2, <2>3 DEF IInv, TypeOK, Clear, Owned, MutexHeld, runsSession
    <2>8. OneEngine' /\ Probes'
      BY <2>3 DEF OneEngine, Probes
    <2>9. StoppedStaysDown'
      BY <1>0, <2>1, <2>2 DEF IInv, TypeOK, StoppedStaysDown
    <2> QED BY ZenonT(60), <2>4, <2>5, <2>6, <2>7, <2>8, <2>9 DEF IInv
  <1>9. CASE ArmLiveness(r)
    <2>1. startPc[r] = "liveness" /\ startPc' = [startPc EXCEPT ![r] = "server"]
      BY ZenonT(60), <1>9 DEF ArmLiveness
    <2>2. /\ liveness' = startMark[r]
          /\ UNCHANGED <<coreMutex, sessionGen, running, instanceGen, selWatch, serverSel, ipResolve,
                         stats, report, startEngine, startMark, startsInFlight,
                         stopPc, stopEngine, stopGen, replayPc>>
      BY ZenonT(60), <1>9 DEF ArmLiveness
    <2>3. \A f \in Engine : running[f] => instanceGen[f] = startMark[r]
      BY <2>1 DEF IInv, Bounded, Owned, OneEngine, runsSession
    <2>4. TypeOK'
      BY <1>0, <2>1, <2>2 DEF TypeOK
    <2>5. MutexHeld'
      BY <2>1, <2>2 DEF IInv, TypeOK, MutexHeld
    <2>6. Bounded'
      BY <2>1, <2>2 DEF IInv, TypeOK, Bounded
    <2>7. Clear' /\ Owned'
      BY <2>1, <2>2 DEF IInv, TypeOK, Clear, Owned, runsSession
    <2>8. OneEngine' /\ StoppedStaysDown'
      BY ZenonT(60), <2>2 DEF IInv, OneEngine, StoppedStaysDown
    <2>9. Probes'
      BY <1>0, <2>1, <2>2, <2>3 DEF IInv, TypeOK, Probes, MutexHeld
    <2> QED BY ZenonT(60), <2>4, <2>5, <2>6, <2>7, <2>8, <2>9 DEF IInv
  <1>10. CASE ArmServerState(r)
    <2>1. startPc[r] = "server" /\ startPc' = [startPc EXCEPT ![r] = "ip"]
      BY ZenonT(60), <1>10 DEF ArmServerState
    <2>2. /\ selWatch' \in {selWatch, startMark[r]} /\ serverSel' \in {serverSel, startMark[r]}
          /\ UNCHANGED <<coreMutex, sessionGen, running, instanceGen, liveness, ipResolve,
                         stats, report, startEngine, startMark, startsInFlight,
                         stopPc, stopEngine, stopGen, replayPc>>
      BY ZenonT(60), <1>10 DEF ArmServerState
    <2>3. \A f \in Engine : running[f] => instanceGen[f] = startMark[r]
      BY <2>1 DEF IInv, Bounded, Owned, OneEngine, runsSession
    <2>4. TypeOK'
      BY <1>0, <2>1, <2>2 DEF TypeOK
    <2>5. MutexHeld'
      BY <2>1, <2>2 DEF IInv, TypeOK, MutexHeld
    <2>6. Bounded'
      BY <2>1, <2>2 DEF IInv, TypeOK, Bounded
    <2>7. Clear' /\ Owned'
      BY <2>1, <2>2 DEF IInv, TypeOK, Clear, Owned, runsSession
    <2>8. OneEngine' /\ StoppedStaysDown'
      BY ZenonT(60), <2>2 DEF IInv, OneEngine, StoppedStaysDown
    <2>9. Probes'
      BY <1>0, <2>1, <2>2, <2>3 DEF IInv, TypeOK, Probes, MutexHeld
    <2> QED BY ZenonT(60), <2>4, <2>5, <2>6, <2>7, <2>8, <2>9 DEF IInv
  <1>11. CASE ArmIpResolve(r)
    <2>1. startPc[r] = "ip" /\ startPc' = [startPc EXCEPT ![r] = "unlock"]
      BY ZenonT(60), <1>11 DEF ArmIpResolve
    <2>2. /\ ipResolve' = startMark[r]
          /\ UNCHANGED <<coreMutex, sessionGen, running, instanceGen, liveness, selWatch, serverSel,
                         stats, report, startEngine, startMark, startsInFlight,
                         stopPc, stopEngine, stopGen, replayPc>>
      BY ZenonT(60), <1>11 DEF ArmIpResolve
    <2>3. \A f \in Engine : running[f] => instanceGen[f] = startMark[r]
      BY <2>1 DEF IInv, Bounded, Owned, OneEngine, runsSession
    <2>4. TypeOK'
      BY <1>0, <2>1, <2>2 DEF TypeOK
    <2>5. MutexHeld'
      BY <2>1, <2>2 DEF IInv, TypeOK, MutexHeld
    <2>6. Bounded'
      BY <2>1, <2>2 DEF IInv, TypeOK, Bounded
    <2>7. Clear' /\ Owned'
      BY <2>1, <2>2 DEF IInv, TypeOK, Clear, Owned, runsSession
    <2>8. OneEngine' /\ StoppedStaysDown'
      BY ZenonT(60), <2>2 DEF IInv, OneEngine, StoppedStaysDown
    <2>9. Probes'
      BY <1>0, <2>1, <2>2, <2>3 DEF IInv, TypeOK, Probes, MutexHeld
    <2> QED BY ZenonT(60), <2>4, <2>5, <2>6, <2>7, <2>8, <2>9 DEF IInv
  <1>12. CASE UnlockCore(r)
    <2>1. StartReleases(r)
      BY <1>0, <1>12 DEF UnlockCore, StartReleases, Quiet, TypeOK
    <2> QED BY <2>1, StartReleasesInv
  <1> QED BY ZenonT(60), <1>1, <1>2, <1>3, <1>4, <1>5, <1>6, <1>7, <1>8, <1>9, <1>10, <1>11, <1>12
          DEF CriticalStep

\* The stop handler and its goroutine.
LEMMA StopInv ==
  ASSUME IInv, NEW p \in Stop, StopStep(p)
  PROVE  IInv'
  <1> USE DEF StopAt, emitStatus, SessionEvent, instance, loops, starts,
              StopHandlerPc, StopEndPc, StopPc
  <1>0. TypeOK
    BY DEF IInv
  <1>1. CASE StopEngaged(p)
    <2>1. StopMoves(p)
      BY <1>0, <1>1 DEF StopEngaged, StopMoves, Quiet, TypeOK
    <2> QED BY <2>1, StopMovesInv
  <1>2. CASE StopRefused(p)
    <2>1. StopMoves(p)
      BY <1>0, <1>2 DEF StopRefused, StopMoves, Quiet, TypeOK
    <2> QED BY <2>1, StopMovesInv
  <1>3. CASE StopStats(p)
    <2>1. StopMoves(p)
      BY ZenonT(60), <1>0, <1>3 DEF StopStats, StopMoves, Quiet, TypeOK
    <2> QED BY <2>1, StopMovesInv
  <1>4. CASE StopLiveness(p)
    <2>1. StopMoves(p)
      BY <1>0, <1>4 DEF StopLiveness, StopMoves, Quiet, TypeOK
    <2> QED BY <2>1, StopMovesInv
  <1>5. CASE StopBump(p)
    <2>1. /\ stopPc[p] = "bump" /\ stopPc' = [stopPc EXCEPT ![p] = "watch"]
          /\ sessionGen' = sessionGen + 1
          /\ stopGen' = [stopGen EXCEPT ![p] = sessionGen + 1]
          /\ UNCHANGED <<coreMutex, running, instanceGen, liveness, selWatch, serverSel,
                         ipResolve, stats, report, startPc, startEngine, startMark,
                         startsInFlight, stopEngine, replayPc>>
      BY ZenonT(60), <1>5 DEF StopBump
    <2>2. TypeOK'
      BY <1>0, <2>1 DEF TypeOK, Gen
    <2>3. MutexHeld' /\ Owned' /\ OneEngine' /\ Probes'
      BY ZenonT(60), <2>1 DEF IInv, MutexHeld, Owned, OneEngine, Probes, runsSession
    <2>4. Bounded'
      BY <2>1 DEF IInv, TypeOK, Bounded, Gen, NoGen
    <2>5. Clear'
      BY <2>1 DEF IInv, TypeOK, Clear
    <2>6. StoppedStaysDown'
      BY <2>1 DEF IInv, TypeOK, StoppedStaysDown
    <2> QED BY ZenonT(60), <2>2, <2>3, <2>4, <2>5, <2>6 DEF IInv
  <1>6. CASE StopWatch(p)
    <2>1. StopMoves(p)
      BY <1>0, <1>6 DEF StopWatch, StopMoves, Quiet, TypeOK
    <2> QED BY <2>1, StopMovesInv
  <1>7. CASE StopIp(p)
    <2>1. StopMoves(p)
      BY <1>0, <1>7 DEF StopIp, StopMoves, Quiet, TypeOK
    <2> QED BY <2>1, StopMovesInv
  <1>8. CASE StopServer(p)
    <2>1. StopMoves(p)
      BY <1>0, <1>8 DEF StopServer, StopMoves, Quiet, TypeOK
    <2> QED BY <2>1, StopMovesInv
  <1>9. CASE EmitDisconnecting(p)
    <2>1. StopMoves(p)
      BY <1>0, <1>9 DEF EmitDisconnecting, StopMoves, Quiet, TypeOK
    <2> QED BY <2>1, StopMovesInv
  <1>10. CASE StopSuperseded(p)
    <2>1. StopMoves(p)
      BY <1>0, <1>10 DEF StopSuperseded, StopMoves, Quiet, TypeOK
    <2> QED BY <2>1, StopMovesInv
  <1>11. CASE StopInstance(p)
    <2>1. /\ stopPc[p] = "lock" /\ stopPc' = [stopPc EXCEPT ![p] = "disconnected"]
          /\ coreMutex = Nobody /\ running' = [running EXCEPT ![stopEngine[p]] = FALSE]
          /\ UNCHANGED <<coreMutex, sessionGen, instanceGen, liveness, selWatch,
                         serverSel, ipResolve, stats, report, startPc, startEngine,
                         startMark, startsInFlight, stopEngine, stopGen, replayPc>>
      BY ZenonT(60), <1>11 DEF StopInstance, stopLocked
    <2>2. \A r \in Start : startPc[r] \notin CriticalPc
      BY RequestAssumption, <2>1 DEF IInv, MutexHeld
    <2>3. stopEngine[p] \in Engine
      BY <2>1 DEF IInv, Bounded
    <2>4. \A f \in Engine : /\ running'[f] => running[f]
                            /\ f = stopEngine[p] => ~running'[f]
      BY <1>0, <2>1 DEF TypeOK
    <2>5. TypeOK'
      <3>1. running' \in [Engine -> BOOLEAN]
        BY <1>0, <2>1, FlagType, ZenonT(60) DEF TypeOK
      <3> QED BY <1>0, <2>1, <3>1 DEF TypeOK
    <2>6. MutexHeld' /\ Clear' /\ Owned'
      BY <2>1, <2>2 DEF IInv, MutexHeld, Clear, Owned, CriticalPc, OwnerPc
    <2>7. Bounded'
      BY <2>1, <2>3 DEF IInv, TypeOK, Bounded
    <2>8. OneEngine'
      BY <2>4 DEF IInv, OneEngine
    <2>9. StoppedStaysDown'
      <3>1. \A q \in Stop : q # p => stopPc'[q] = stopPc[q]
        BY <1>0, <2>1 DEF TypeOK
      <3>2. \A q \in Stop : stopPc[q] # "idle" => stopEngine[q] \in Engine
        BY DEF IInv, Bounded
      <3>3. UNCHANGED <<instanceGen, stopEngine, stopGen>> /\ StoppedStaysDown
        BY ZenonT(60), <2>1 DEF IInv
      <3> QED BY ZenonT(60), <2>3, <2>4, <3>1, <3>2, <3>3 DEF StoppedStaysDown
    <2>10. Probes'
      BY ZenonT(60), <2>1, <2>4 DEF IInv, Probes
    <2> QED BY ZenonT(60), <2>5, <2>6, <2>7, <2>8, <2>9, <2>10 DEF IInv
  <1>12. CASE EmitDisconnected(p)
    <2>1. StopMoves(p)
      BY <1>0, <1>12 DEF EmitDisconnected, StopMoves, Quiet, TypeOK
    <2> QED BY <2>1, StopMovesInv
  <1> QED BY ZenonT(60), <1>1, <1>2, <1>3, <1>4, <1>5, <1>6, <1>7, <1>8, <1>9, <1>10, <1>11, <1>12
          DEF StopStep

\* Any step: the four kinds above, the calls that open a request, and a
\* client's replay.
LEMMA NextInv ==
  ASSUME IInv, [Next]_vars
  PROVE  IInv'
  <1>0. TypeOK
    BY DEF IInv
  <1>1. ASSUME NEW r \in Start, NEW e \in Engine, StartRefused(r, e)
        PROVE  IInv'
    <2>1. /\ startPc[r] = "idle" /\ startPc' = [startPc EXCEPT ![r] = "done"]
          /\ startEngine' = [startEngine EXCEPT ![r] = e]
          /\ report' = report
          /\ UNCHANGED <<coreMutex, sessionGen, running, instanceGen, liveness, selWatch,
                         serverSel, ipResolve, stats, startMark, startsInFlight,
                         stopPc, stopEngine, stopGen, replayPc>>
      BY ZenonT(60), <1>1 DEF StartRefused, emitStatus, SessionEvent, instance, loops, stops
    <2>2. TypeOK'
      BY <1>0, <2>1 DEF TypeOK, HandlerPc, StartPc
    <2>3. MutexHeld'
      BY <2>1 DEF IInv, TypeOK, MutexHeld, CriticalPc
    <2>4. Bounded'
      BY <2>1 DEF IInv, TypeOK, Bounded, CriticalPc, TailPc, GoroutinePc
    <2>5. Clear'
      BY <2>1 DEF IInv, TypeOK, Clear
    <2>6. Owned'
      BY <2>1 DEF IInv, TypeOK, Owned, OwnerPc, runsSession
    <2>7. OneEngine' /\ StoppedStaysDown'
      BY ZenonT(60), <2>1 DEF IInv, OneEngine, StoppedStaysDown
    <2>8. Probes'
      BY <2>1 DEF IInv, TypeOK, Probes
    <2> QED BY ZenonT(60), <2>2, <2>3, <2>4, <2>5, <2>6, <2>7, <2>8 DEF IInv
  <1>2. ASSUME NEW r \in Start, NEW e \in Engine, StartGuarded(r, e)
        PROVE  IInv'
    <2>1. /\ startPc[r] = "idle" /\ startPc' = [startPc EXCEPT ![r] = "session"]
          /\ startEngine' = [startEngine EXCEPT ![r] = e]
          /\ report' = report
          /\ UNCHANGED <<coreMutex, sessionGen, running, instanceGen, liveness, selWatch,
                         serverSel, ipResolve, stats, startMark, startsInFlight,
                         stopPc, stopEngine, stopGen, replayPc>>
      BY ZenonT(60), <1>2 DEF StartGuarded, emitStatus, SessionEvent, instance, loops, stops
    <2>2. TypeOK'
      BY <1>0, <2>1 DEF TypeOK, HandlerPc, StartPc
    <2>3. MutexHeld'
      BY <2>1 DEF IInv, TypeOK, MutexHeld, CriticalPc
    <2>4. Bounded'
      BY <2>1 DEF IInv, TypeOK, Bounded, CriticalPc, TailPc, GoroutinePc
    <2>5. Clear'
      BY <2>1 DEF IInv, TypeOK, Clear
    <2>6. Owned'
      BY <2>1 DEF IInv, TypeOK, Owned, OwnerPc, runsSession
    <2>7. OneEngine' /\ StoppedStaysDown'
      BY ZenonT(60), <2>1 DEF IInv, OneEngine, StoppedStaysDown
    <2>8. Probes'
      BY <2>1 DEF IInv, TypeOK, Probes
    <2> QED BY ZenonT(60), <2>2, <2>3, <2>4, <2>5, <2>6, <2>7, <2>8 DEF IInv
  <1>3. ASSUME NEW p \in Stop, NEW e \in Engine, StopCall(p, e)
        PROVE  IInv'
    <2>1. /\ stopPc[p] = "idle" /\ stopEngine' = [stopEngine EXCEPT ![p] = e]
          /\ UNCHANGED <<coreMutex, sessionGen, running, instanceGen, liveness, selWatch,
                         serverSel, ipResolve, stats, report, startPc, startEngine,
                         startMark, startsInFlight, stopGen, replayPc>>
      BY ZenonT(60), <1>3 DEF StopCall, StopAt, instance, loops, starts
    <2>2. PICK to \in {"stats", "engaged"} : stopPc' = [stopPc EXCEPT ![p] = to]
      BY <1>3, ZenonT(60) DEF StopCall, StopAt
    <2>3. TypeOK'
      BY <1>0, <2>1, <2>2 DEF TypeOK, StopHandlerPc, StopPc
    <2>4. MutexHeld' /\ Owned' /\ OneEngine' /\ Probes'
      BY ZenonT(60), <2>1 DEF IInv, MutexHeld, Owned, OneEngine, Probes, runsSession
    <2>5. Bounded'
      BY <2>1, <2>2 DEF IInv, TypeOK, Bounded
    <2>6. Clear'
      BY <2>1, <2>2 DEF IInv, TypeOK, Clear
    <2>7. StoppedStaysDown'
      BY <2>1, <2>2 DEF IInv, TypeOK, StoppedStaysDown
    <2> QED BY ZenonT(60), <2>3, <2>4, <2>5, <2>6, <2>7 DEF IInv
  <1>4. ASSUME NEW c \in Client, Replay(c)
        PROVE  IInv'
    <2>1. Quiet
      BY <1>0, <1>4 DEF Replay, Quiet, TypeOK, emitStatus, SessionEvent, instance,
                      loops, starts
    <2>2. UNCHANGED <<coreMutex, startPc, startEngine, startMark, stopPc, stopEngine,
                      stopGen>>
      BY ZenonT(60), <1>4 DEF Replay, starts, stops
    <2> QED BY <2>1, <2>2, QuietInv
  <1>5. ASSUME NEW c \in Client, ReplayConnected(c)
        PROVE  IInv'
    <2>1. Quiet
      BY <1>0, <1>5 DEF ReplayConnected, Quiet, TypeOK, emitStatus, SessionEvent, instance,
                      loops, starts
    <2>2. UNCHANGED <<coreMutex, startPc, startEngine, startMark, stopPc, stopEngine,
                      stopGen>>
      BY ZenonT(60), <1>5 DEF ReplayConnected, starts, stops
    <2> QED BY <2>1, <2>2, QuietInv
  <1>6. ASSUME NEW c \in Client, ReplayStats(c)
        PROVE  IInv'
    <2>1. Quiet
      BY <1>0, <1>6 DEF ReplayStats, Quiet, TypeOK, emitStatus, SessionEvent, instance,
                      loops, starts
    <2>2. UNCHANGED <<coreMutex, startPc, startEngine, startMark, stopPc, stopEngine,
                      stopGen>>
      BY ZenonT(60), <1>6 DEF ReplayStats, starts, stops
    <2> QED BY <2>1, <2>2, QuietInv
  <1>7. ASSUME NEW c \in Client, OnDartApiInit(c)
        PROVE  IInv'
    <2>1. Quiet
      BY ZenonT(60), <1>0, <1>7 DEF OnDartApiInit, Quiet, TypeOK, emitStatus, SessionEvent, instance,
                      loops, starts
    <2>2. UNCHANGED <<coreMutex, startPc, startEngine, startMark, stopPc, stopEngine,
                      stopGen>>
      BY ZenonT(60), <1>7 DEF OnDartApiInit, starts, stops
    <2> QED BY <2>1, <2>2, QuietInv
  <1>8. CASE UNCHANGED vars
    <2>1. Quiet
      BY <1>0, <1>8 DEF vars, Quiet, TypeOK, instance, loops, starts
    <2>2. UNCHANGED <<coreMutex, startPc, startEngine, startMark, stopPc, stopEngine,
                      stopGen>>
      BY ZenonT(60), <1>8 DEF vars, starts, stops
    <2> QED BY <2>1, <2>2, QuietInv
  <1> QED BY ZenonT(60), <1>1, <1>2, <1>3, <1>4, <1>5, <1>6, <1>7, <1>8, HandlerInv,
             CriticalInv, TailInv, StopInv
          DEF Next, StartStep, ReplayStep, Rest

-----------------------------------------------------------------------------
(* What the invariant gives. *)

\* Cardinalities, when one start joins or leaves.
LEMMA CardinalityMoves ==
  ASSUME NEW S, IsFiniteSet(S), NEW x
  PROVE  /\ x \notin S => Cardinality(S \union {x}) = Cardinality(S) + 1
         /\ x \in S => Cardinality(S \ {x}) = Cardinality(S) - 1
  BY FS_AddElement, FS_RemoveElement

-----------------------------------------------------------------------------
(* What follows from IInv. *)

\* IInv is an invariant of the session protocol.
THEOREM SessionInvariant == Spec => []IInv
  <1>1. Init => IInv
    BY InitInv
  <1>2. IInv /\ [Next]_vars => IInv'
    BY NextInv
  <1> QED BY <1>1, <1>2, PTL DEF Spec

\* The variables keep their types: the generations are ones sessionGen took, and
\* the client is only ever told a code of emitStatus.
THEOREM TypeCorrect == Spec => []TypeOK
  <1>1. IInv => TypeOK
    BY DEF IInv
  <1> QED BY <1>1, SessionInvariant, PTL

\* The controller runs one engine at a time, however many starts of however many
\* engines race past the guards of their handlers.
THEOREM OneEngineAlways == Spec => []OneEngine
  <1>1. IInv => OneEngine
    BY DEF IInv
  <1> QED BY <1>1, SessionInvariant, PTL

\* A stop that closed its engine is final for every start requested before it.
THEOREM StopIsFinal == Spec => []StoppedStaysDown
  <1>1. IInv => StoppedStaysDown
    BY DEF IInv
  <1> QED BY <1>1, SessionInvariant, PTL

\* With coreMutex free, the liveness loop and the armed IP resolve are those of
\* the instance that runs: startLiveness and configureIPResolve replace what an
\* earlier session left before the start's lock is released.
THEOREM ProbesFollowInstance == Spec => []ProbesOfRunningInstance
  <1>1. IInv => ProbesOfRunningInstance
    BY RequestAssumption
       DEF IInv, MutexHeld, Probes, ProbesOfRunningInstance, CriticalPc
  <1> QED BY <1>1, SessionInvariant, PTL

-----------------------------------------------------------------------------
(* The instance of the current session survives. *)

\* A step of a start that leaves the instances alone.
LEMMA StartLeavesInstances ==
  ASSUME NEW r \in Start, StartStep(r)
  PROVE  \/ running' = running
         \/ PrepareFresh(r) \/ PrepareConflict(r) \/ BringUp(r) \/ xrayRollback(r)
  <1>1. CASE HandlerStep(r)
    BY ZenonT(60), <1>1 DEF instance, HandlerStep, ReplyAlreadyRunning, ReplyStats, ReplyConnected, StartInvalid,
               StartConnecting, BeginStartFails, beginStart, CountStart
  <1>2. CASE TailStep(r)
    BY ZenonT(60), <1>2 DEF instance, TailStep, ChooseAwgLink, LockCore, NotStale, AbortStale, StartStats,
               EmitConnected, FailedBump, FailedClearWatch, FailedClearIp,
               FailedClearServer, EmitStartError, StartDone
  <1>3. CASE CriticalStep(r)
    BY ZenonT(60), <1>3 DEF instance, CriticalStep, PrepareEnded, PrepareAlready, BuildFails, XraySettles,
               ArmLiveness, ArmServerState, ArmIpResolve, UnlockCore
  <1> QED BY <1>1, <1>2, <1>3 DEF StartStep

\* A step of a stop that leaves the instances alone.
LEMMA StopLeavesInstances ==
  ASSUME NEW p \in Stop, StopStep(p)
  PROVE  running' = running \/ StopInstance(p)
  BY ZenonT(60) DEF instance, StopStep, StopEngaged, StopRefused, StopStats, StopLiveness, StopBump,
               StopWatch, StopIp, StopServer, EmitDisconnecting, StopSuperseded,
               EmitDisconnected

\* A step that takes a running instance down is a replacement, a rollback or a
\* stop.
LEMMA RunningChange ==
  ASSUME TypeOK, Next, NEW e \in Engine, running[e], ~running'[e]
  PROVE  \/ \E r \in Start : \/ PrepareFresh(r) \/ PrepareConflict(r)
                             \/ xrayRollback(r)
         \/ \E p \in Stop : StopInstance(p)
  <1>1. \A r \in Start : BringUp(r) => running'[e]
    BY DEF BringUp, up, TypeOK
  <1>2. \A r \in Start, f \in Engine :
          StartRefused(r, f) \/ StartGuarded(r, f) => running' = running
    BY ZenonT(60) DEF StartRefused, StartGuarded, instance
  <1>3. \A p \in Stop, f \in Engine : StopCall(p, f) => running' = running
    BY ZenonT(60) DEF StopCall, instance
  <1>4. \A q \in Client : OnDartApiInit(q) \/ Replay(q) \/ ReplayStep(q)
          => running' = running
    BY ZenonT(60) DEF OnDartApiInit, Replay, ReplayStep, ReplayConnected, ReplayStats,
                 instance
  <1>5. Rest => running' = running
    BY ZenonT(60) DEF Rest, vars, instance
  <1> QED BY ZenonT(60), <1>1, <1>2, <1>3, <1>4, <1>5, StartLeavesInstances,
             StopLeavesInstances
          DEF Next

\* An instance of the current session goes down only when its own start rolls
\* it back (stopEngineInstance, prepareStartLocked and xrayRollback).
THEOREM SessionSurvives == Spec => CurrentInstanceSurvives
  <1>1. IInv /\ [Next]_vars => [\A e \in Engine : InstanceSurvives(e)]_vars
    <2> SUFFICES ASSUME IInv, Next, NEW e \in Engine,
                        running[e], instanceGen[e] = sessionGen, ~running'[e]
                 PROVE  \E r \in Start :
                           /\ startPc[r] = "settle" /\ startPc'[r] = "failed"
                           /\ startEngine[r] = e /\ startMark[r] = sessionGen
      BY ZenonT(60) DEF InstanceSurvives
    <2>0. TypeOK
      BY DEF IInv
    <2>1. ASSUME NEW r \in Start, PrepareFresh(r) \/ PrepareConflict(r)
          PROVE  FALSE
      <3>1. startPc[r] = "prepare" /\ sessionGen = startMark[r]
        BY ZenonT(60), <2>1 DEF PrepareFresh, PrepareConflict, StartAt
      <3>2. startEngine[r] \in Engine
        BY <3>1 DEF IInv, Bounded
      <3>3. ~runsSession(startEngine[r], startMark[r]) /\ ReplaceInstance(startEngine[r])
        BY ZenonT(60), <2>1 DEF PrepareFresh, PrepareConflict
      <3>4. e # startEngine[r]
        BY <3>1, <3>3 DEF runsSession
      <3>5. running'[e] = running[e]
        BY ZenonT(60), <2>0, <3>2, <3>3, <3>4, ReplaceOnlyEnds
      <3> QED BY <3>5
    <2>2. ASSUME NEW r \in Start, xrayRollback(r)
          PROVE  /\ startPc[r] = "settle" /\ startPc'[r] = "failed"
                 /\ startEngine[r] = e /\ startMark[r] = sessionGen
      <3>1. startPc[r] = "settle" /\ startPc'[r] = "failed"
        BY <2>0, <2>2 DEF xrayRollback, StartAt, TypeOK
      <3>2. startEngine[r] = e
        BY <2>0, <2>2 DEF xrayRollback, stopLocked, TypeOK
      <3>3. startMark[r] = sessionGen
        BY <3>1, <3>2 DEF IInv, Owned, OwnerPc, runsSession
      <3> QED BY <3>1, <3>2, <3>3
    <2>3. ASSUME NEW p \in Stop, StopInstance(p)
          PROVE  FALSE
      <3>1. stopEngine[p] = e
        BY <2>0, <2>3 DEF StopInstance, stopLocked, TypeOK
      <3>2. stopGen[p] <= sessionGen
        BY DEF IInv, Bounded
      <3> QED BY <2>0, <2>3, <3>1, <3>2 DEF StopInstance, supersedes, TypeOK, Gen, NoGen
    <2> QED BY ZenonT(60), <2>0, <2>1, <2>2, <2>3, RunningChange
  <1> QED BY <1>1, SessionInvariant, PTL DEF Spec, CurrentInstanceSurvives

-----------------------------------------------------------------------------
(* Start goroutines are counted. *)

\* Start r is in its goroutine before the step and after it, or neither.
KeepsGoroutine(r) ==
    /\ UNCHANGED <<startEngine, startsInFlight>>
    /\ startPc' = [startPc EXCEPT ![r] = startPc'[r]]
    /\ startPc'[r] \in GoroutinePc <=> startPc[r] \in GoroutinePc

\* Such a step leaves the goroutines of every engine as they are.
LEMMA SameGoroutines ==
  ASSUME TypeOK, NEW r \in Start, KeepsGoroutine(r), NEW e \in Engine
  PROVE  InGoroutine(e)' = InGoroutine(e)
  BY DEF TypeOK, KeepsGoroutine, InGoroutine

\* No step but CountStart and StartDone starts or ends a goroutine.
LEMMA StartsKept ==
  ASSUME TypeOK, NEW r \in Start, StartStep(r), ~CountStart(r), ~StartDone(r)
  PROVE  KeepsGoroutine(r)
  <1> USE DEF StartAt, HandlerPc, CriticalPc, TailPc, GoroutinePc, TypeOK,
              KeepsGoroutine
  <1>1. CASE ReplyAlreadyRunning(r)
    BY <1>1 DEF ReplyAlreadyRunning
  <1>2. CASE ReplyStats(r)
    BY <1>2 DEF ReplyStats
  <1>3. CASE ReplyConnected(r)
    BY <1>3 DEF ReplyConnected
  <1>4. CASE StartInvalid(r)
    BY <1>4 DEF StartInvalid
  <1>5. CASE StartConnecting(r)
    BY <1>5 DEF StartConnecting
  <1>6. CASE BeginStartFails(r)
    BY <1>6 DEF BeginStartFails
  <1>7. CASE beginStart(r)
    BY <1>7 DEF beginStart
  <1>8. CASE PrepareEnded(r)
    BY <1>8 DEF PrepareEnded
  <1>9. CASE PrepareAlready(r)
    BY <1>9 DEF PrepareAlready
  <1>10. CASE BuildFails(r)
    BY <1>10 DEF BuildFails
  <1>11. CASE PrepareFresh(r)
    BY <1>11 DEF PrepareFresh
  <1>12. CASE PrepareConflict(r)
    BY <1>12 DEF PrepareConflict
  <1>13. CASE BringUp(r)
    BY <1>13 DEF BringUp
  <1>14. CASE xrayRollback(r)
    BY <1>14 DEF xrayRollback
  <1>15. CASE XraySettles(r)
    BY <1>15 DEF XraySettles
  <1>16. CASE ArmLiveness(r)
    BY <1>16 DEF ArmLiveness
  <1>17. CASE ArmServerState(r)
    BY <1>17 DEF ArmServerState
  <1>18. CASE ArmIpResolve(r)
    BY <1>18 DEF ArmIpResolve
  <1>19. CASE UnlockCore(r)
    BY <1>19 DEF UnlockCore
  <1>20. CASE ChooseAwgLink(r)
    BY <1>20 DEF ChooseAwgLink
  <1>21. CASE LockCore(r)
    BY <1>21 DEF LockCore
  <1>22. CASE NotStale(r)
    BY <1>22 DEF NotStale
  <1>23. CASE AbortStale(r)
    BY <1>23 DEF AbortStale
  <1>24. CASE StartStats(r)
    BY <1>24 DEF StartStats
  <1>25. CASE EmitConnected(r)
    BY <1>25 DEF EmitConnected
  <1>26. CASE FailedBump(r)
    BY <1>26 DEF FailedBump
  <1>27. CASE FailedClearWatch(r)
    BY <1>27 DEF FailedClearWatch
  <1>28. CASE FailedClearIp(r)
    BY <1>28 DEF FailedClearIp
  <1>29. CASE FailedClearServer(r)
    BY <1>29 DEF FailedClearServer
  <1>30. CASE EmitStartError(r)
    BY <1>30 DEF EmitStartError
  <1> QED BY ZenonT(60), <1>1, <1>2, <1>3, <1>4, <1>5, <1>6, <1>7, <1>8, <1>9, <1>10,
             <1>11, <1>12, <1>13, <1>14, <1>15, <1>16, <1>17, <1>18, <1>19,
             <1>20, <1>21, <1>22, <1>23, <1>24, <1>25, <1>26, <1>27, <1>28,
             <1>29, <1>30
          DEF StartStep, HandlerStep, CriticalStep, TailStep

\* Steps that are not a start's leave the starts alone.
LEMMA OthersKeepStarts ==
  /\ \A p \in Stop : StopStep(p) => UNCHANGED starts
  /\ \A p \in Stop, e \in Engine : StopCall(p, e) => UNCHANGED starts
  /\ \A q \in Client : OnDartApiInit(q) \/ Replay(q) \/ ReplayStep(q) => UNCHANGED starts
  /\ UNCHANGED vars => UNCHANGED starts
  <1>1. \A p \in Stop : StopStep(p) => UNCHANGED starts
    BY ZenonT(60) DEF StopStep, StopInstance, StopEngaged, StopRefused, StopStats, StopLiveness, StopBump,
                 StopWatch, StopIp, StopServer, EmitDisconnecting, StopSuperseded,
                 EmitDisconnected
  <1>2. \A p \in Stop, e \in Engine : StopCall(p, e) => UNCHANGED starts
    BY ZenonT(60) DEF StopCall
  <1>3. \A q \in Client : OnDartApiInit(q) \/ Replay(q) \/ ReplayStep(q) => UNCHANGED starts
    BY ZenonT(60) DEF OnDartApiInit, Replay, ReplayStep, ReplayConnected, ReplayStats
  <1>4. UNCHANGED vars => UNCHANGED starts
    BY ZenonT(60) DEF vars
  <1> QED BY <1>1, <1>2, <1>3, <1>4

\* startsInFlight is the number of start goroutines that have not ended, so it
\* is never negative and reaches zero again when the last one does.
THEOREM StartsAreCounted == Spec => []CountedStarts
  <1>1. Init => CountedStarts
    <2> SUFFICES ASSUME Init, NEW e \in Engine
                 PROVE  startsInFlight[e] = Cardinality(InGoroutine(e))
      BY DEF CountedStarts
    <2>1. InGoroutine(e) = {}
      BY DEF Init, InGoroutine, CriticalPc, TailPc, GoroutinePc
    <2> QED BY <2>1, FS_EmptySet DEF Init
  <1>2. IInv /\ CountedStarts /\ [Next]_vars => CountedStarts'
    <2> SUFFICES ASSUME IInv, CountedStarts, [Next]_vars, NEW e \in Engine
                 PROVE  startsInFlight'[e] = Cardinality(InGoroutine(e)')
      BY DEF CountedStarts
    <2>1. /\ TypeOK /\ startsInFlight \in [Engine -> Int]
          /\ startsInFlight[e] = Cardinality(InGoroutine(e))
          /\ \A r \in Start : startPc[r] # "idle" => startEngine[r] \in Engine
      BY DEF IInv, TypeOK, CountedStarts, Bounded
    <2>2. IsFiniteSet(InGoroutine(e))
      BY RequestAssumption, FS_Subset DEF InGoroutine
    <2>3. ASSUME NEW r \in Start, CountStart(r)
          PROVE  startsInFlight'[e] = Cardinality(InGoroutine(e)')
      <3>1. startsInFlight' = [startsInFlight EXCEPT ![startEngine[r]] =
                                   startsInFlight[startEngine[r]] + 1]
        BY <2>3 DEF CountStart
      <3>2. CASE startEngine[r] = e
        <4>1. InGoroutine(e)' = InGoroutine(e) \union {r} /\ r \notin InGoroutine(e)
          BY <2>1, <2>3, <3>2 DEF CountStart, StartAt, InGoroutine, CriticalPc, TailPc,
                                  GoroutinePc, TypeOK
        <4>2. Cardinality(InGoroutine(e) \union {r}) = Cardinality(InGoroutine(e)) + 1
          BY <2>2, <4>1, CardinalityMoves, ZenonT(60)
        <4> QED BY <2>1, <3>1, <3>2, <4>1, <4>2
      <3>3. CASE startEngine[r] # e
        <4>1. InGoroutine(e)' = InGoroutine(e)
          BY <2>1, <2>3, <3>3 DEF CountStart, StartAt, InGoroutine, TypeOK
        <4> QED BY <2>1, <3>1, <3>3, <4>1
      <3> QED BY <3>2, <3>3
    <2>4. ASSUME NEW r \in Start, StartDone(r)
          PROVE  startsInFlight'[e] = Cardinality(InGoroutine(e)')
      <3>1. startsInFlight' = [startsInFlight EXCEPT ![startEngine[r]] =
                                   startsInFlight[startEngine[r]] - 1]
        BY <2>4 DEF StartDone
      <3>2. CASE startEngine[r] = e
        <4>1. InGoroutine(e)' = InGoroutine(e) \ {r} /\ r \in InGoroutine(e)
          BY <2>1, <2>4, <3>2 DEF StartDone, StartAt, InGoroutine, CriticalPc, TailPc,
                                  GoroutinePc, TypeOK
        <4>2. Cardinality(InGoroutine(e) \ {r}) = Cardinality(InGoroutine(e)) - 1
          BY <2>2, <4>1, CardinalityMoves, ZenonT(60)
        <4> QED BY <2>1, <3>1, <3>2, <4>1, <4>2
      <3>3. CASE startEngine[r] # e
        <4>1. InGoroutine(e)' = InGoroutine(e)
          BY <2>1, <2>4, <3>3 DEF StartDone, StartAt, InGoroutine, TypeOK
        <4> QED BY <2>1, <3>1, <3>3, <4>1
      <3> QED BY <3>2, <3>3
    <2>5. ASSUME NEW r \in Start, StartStep(r), ~CountStart(r), ~StartDone(r)
          PROVE  startsInFlight'[e] = Cardinality(InGoroutine(e)')
      <3>1. KeepsGoroutine(r)
        BY ZenonT(60), <2>1, <2>5, StartsKept
      <3>2. startsInFlight' = startsInFlight
        BY <3>1 DEF KeepsGoroutine
      <3> QED BY ZenonT(60), <2>1, <3>1, <3>2, SameGoroutines
    <2>6. ASSUME NEW r \in Start, NEW f \in Engine,
                 StartRefused(r, f) \/ StartGuarded(r, f)
          PROVE  startsInFlight'[e] = Cardinality(InGoroutine(e)')
      <3>1. startsInFlight' = startsInFlight
        BY ZenonT(60), <2>6 DEF StartRefused, StartGuarded
      <3>2. /\ startPc[r] = "idle"
            /\ \E to \in {"done", "session"} : startPc' = [startPc EXCEPT ![r] = to]
            /\ startEngine' = [startEngine EXCEPT ![r] = f]
        BY ZenonT(60), <2>6 DEF StartRefused, StartGuarded
      <3>3. InGoroutine(e)' = InGoroutine(e)
        BY <2>1, <3>2 DEF InGoroutine, CriticalPc, TailPc, GoroutinePc, TypeOK
      <3> QED BY <2>1, <3>1, <3>3
    <2>7. CASE UNCHANGED starts
      <3>1. startsInFlight' = startsInFlight /\ InGoroutine(e)' = InGoroutine(e)
        BY ZenonT(60), <2>7 DEF starts, InGoroutine
      <3> QED BY <2>1, <3>1
    <2> QED BY ZenonT(60), <2>3, <2>4, <2>5, <2>6, <2>7, OthersKeepStarts DEF Next, Rest
  <1> QED BY <1>1, <1>2, SessionInvariant, PTL DEF Spec

-----------------------------------------------------------------------------
(* What a session armed ends with it, and a live session has its stats. *)

StopClears == {"watch", "ip", "server"}
StartClears == {"failed", "clearWatch", "clearIp", "clearServer"}

\* Start r has yet to find that its session was ended.
Late(r) ==
    /\ startPc[r] \in OwnerPc \union {"stale"}
    /\ startMark[r] # sessionGen
    /\ ~SupersedesStrictly(startEngine[r], startMark[r])

\* What a loop may live on for: the current session, or one who will end it.
Guarded(stopAt, startAt) ==
    \/ Current
    \/ \E p \in Stop : stopPc[p] \in stopAt
    \/ \E r \in Start : startPc[r] \in startAt
    \/ \E r \in Start : Late(r)

LoopsGuarded ==
    /\ selWatch # NoGen => Guarded({"watch"}, {"failed", "clearWatch"})
    /\ ipResolve # NoGen => Guarded({"watch", "ip"}, {"failed", "clearWatch", "clearIp"})
    /\ serverSel # NoGen => Guarded(StopClears, StartClears)

\* The stats loop runs, will be started, or its session is about to end.
StatsComing ==
    \/ stats
    \/ \E r \in Start : /\ startPc[r] \in OwnerPc \union {"stale", "stats"}
                        /\ startMark[r] = sessionGen
    \/ \E p \in Stop : stopPc[p] \in {"liveness", "bump"}
    \/ \E c \in Client : replayPc[c] \in {"attach", "connected", "stats"}

SessionEnds == LoopsGuarded /\ (Current => StatsComing)

\* A start whose instance runs after the step guards whatever is armed.
LEMMA OwnerEnds ==
  ASSUME IInv', NEW r \in Start, startPc'[r] \in OwnerPc \union {"stale"},
         runsSession(startEngine[r], startMark[r])'
  PROVE  SessionEnds'
<1>1. startEngine'[r] \in Engine
  BY DEF IInv, Bounded, OwnerPc
<1>2. CASE startMark'[r] = sessionGen'
  <2>1. Current' /\ StatsComing'
    BY <1>1, <1>2 DEF Current, StatsComing
  <2> QED
    BY <2>1 DEF SessionEnds, LoopsGuarded, Guarded
<1>3. CASE startMark'[r] # sessionGen'
  <2>1. ~SupersedesStrictly(startEngine[r], startMark[r])'
    BY <1>1 DEF runsSession, SupersedesStrictly, IInv, TypeOK
  <2>2. Late(r)'
    BY <1>3, <2>1 DEF Late
  <2>3. ~Current'
    BY <1>1, <1>3 DEF IInv, OneEngine, Current, runsSession
  <2> QED
    BY <2>2, <2>3 DEF SessionEnds, LoopsGuarded, Guarded
<1> QED
  BY <1>2, <1>3

\* What a session's end waits on stays when nobody it waits on leaves.
LEMMA GuardKept ==
  ASSUME NEW A, NEW B, Guarded(A, B),
         Current => Current',
         \A p \in Stop : stopPc[p] \in A => stopPc'[p] \in A,
         \A r \in Start : startPc[r] \in B => startPc'[r] \in B,
         \A r \in Start : Late(r) => Late(r)'
  PROVE  Guarded(A, B)'
  BY ZenonT(60) DEF Guarded

\* Start r takes a step that no loop and no report depends on.
StartGoesOn(r) ==
    /\ UNCHANGED <<sessionGen, running, instanceGen, selWatch, serverSel, ipResolve,
                   stopPc, replayPc>>
    /\ stats => stats'
    /\ \A q \in Start \ {r} : /\ startPc'[q] = startPc[q]
                              /\ startMark'[q] = startMark[q]
                              /\ startEngine'[q] = startEngine[q]
    /\ startPc[r] \notin StartClears \union OwnerPc \union {"stale", "stats"}

\* Stop p takes such a step.
StopGoesOn(p) ==
    /\ UNCHANGED <<sessionGen, running, instanceGen, selWatch, serverSel, ipResolve,
                   startPc, startMark, startEngine, replayPc, stats>>
    /\ \A q \in Stop \ {p} : stopPc'[q] = stopPc[q]
    /\ stopPc[p] \notin StopClears \union {"liveness", "bump"}

\* A start that only goes on leaves the session's end to whoever had it,
LEMMA StartGoesOnEnds ==
  ASSUME SessionEnds, NEW r \in Start, StartGoesOn(r)
  PROVE  SessionEnds'
<1>1. (Current <=> Current') /\ \A q \in Start : Late(q) => Late(q)'
  BY DEF StartGoesOn, Current, runsSession, Late, SupersedesStrictly
<1>2. \A q \in Start : startPc[q] \in StartClears => startPc'[q] = startPc[q]
  BY DEF StartGoesOn
<1>3. LoopsGuarded'
  <2>1. UNCHANGED <<selWatch, serverSel, ipResolve, stopPc>>
    BY DEF StartGoesOn
  <2>2. selWatch' # NoGen => Guarded({"watch"}, {"failed", "clearWatch"})'
    BY <1>1, <1>2, <2>1, GuardKept DEF SessionEnds, LoopsGuarded, StartClears
  <2>3. ipResolve' # NoGen =>
            Guarded({"watch", "ip"}, {"failed", "clearWatch", "clearIp"})'
    BY <1>1, <1>2, <2>1, GuardKept DEF SessionEnds, LoopsGuarded, StartClears
  <2>4. serverSel' # NoGen => Guarded(StopClears, StartClears)'
    BY ZenonT(60), <1>1, <1>2, <2>1, GuardKept DEF SessionEnds, LoopsGuarded
  <2> QED
    BY <2>2, <2>3, <2>4 DEF LoopsGuarded, StopClears, StartClears
<1>4. StatsComing => StatsComing'
  BY DEF StatsComing, StartGoesOn
<1> QED
  BY <1>1, <1>3, <1>4 DEF SessionEnds

\* and so does a stop that only goes on.
LEMMA StopGoesOnEnds ==
  ASSUME SessionEnds, NEW p \in Stop, StopGoesOn(p)
  PROVE  SessionEnds'
<1>1. (Current <=> Current') /\ \A q \in Start : Late(q) => Late(q)'
  BY DEF StopGoesOn, Current, runsSession, Late, SupersedesStrictly
<1>2. \A q \in Stop : stopPc[q] \in StopClears => stopPc'[q] = stopPc[q]
  BY DEF StopGoesOn
<1>3. LoopsGuarded'
  <2>1. UNCHANGED <<selWatch, serverSel, ipResolve, startPc>>
    BY DEF StopGoesOn
  <2>2. selWatch' # NoGen => Guarded({"watch"}, {"failed", "clearWatch"})'
    BY <1>1, <1>2, <2>1, GuardKept DEF SessionEnds, LoopsGuarded, StopClears
  <2>3. ipResolve' # NoGen =>
            Guarded({"watch", "ip"}, {"failed", "clearWatch", "clearIp"})'
    BY <1>1, <1>2, <2>1, GuardKept DEF SessionEnds, LoopsGuarded, StopClears
  <2>4. serverSel' # NoGen => Guarded(StopClears, StartClears)'
    BY <1>1, <1>2, <2>1, GuardKept DEF SessionEnds, LoopsGuarded
  <2> QED
    BY <2>2, <2>3, <2>4 DEF LoopsGuarded, StopClears, StartClears
<1>4. StatsComing => StatsComing'
  BY DEF StatsComing, StopGoesOn
<1> QED
  BY <1>1, <1>3, <1>4 DEF SessionEnds

\* The steps of a start that end nothing and arm nothing.
LEMMA PlainStartEnds ==
  ASSUME IInv, SessionEnds, NEW r \in Start,
         \/ ReplyAlreadyRunning(r) \/ ReplyStats(r) \/ ReplyConnected(r)
         \/ StartInvalid(r) \/ StartConnecting(r) \/ BeginStartFails(r)
         \/ beginStart(r) \/ CountStart(r) \/ ChooseAwgLink(r) \/ LockCore(r)
         \/ PrepareEnded(r) \/ PrepareAlready(r) \/ BuildFails(r)
         \/ EmitConnected(r) \/ EmitStartError(r) \/ StartDone(r)
  PROVE  SessionEnds'
<1> USE DEF StartAt, instance, loops, stops, StartClears, OwnerPc, StartGoesOn
<1>0. /\ startPc \in [Start -> StartPc] /\ startMark \in [Start -> Gen]
  BY DEF IInv, TypeOK
<1>1. CASE ReplyAlreadyRunning(r)
  <2>1. StartGoesOn(r)
    BY <1>0, <1>1 DEF ReplyAlreadyRunning
  <2> QED
    BY ZenonT(60), <2>1, StartGoesOnEnds
<1>2. CASE ReplyStats(r)
  <2>1. StartGoesOn(r)
    BY <1>0, <1>2 DEF ReplyStats
  <2> QED
    BY ZenonT(60), <2>1, StartGoesOnEnds
<1>3. CASE ReplyConnected(r)
  <2>1. StartGoesOn(r)
    BY <1>0, <1>3 DEF ReplyConnected
  <2> QED
    BY ZenonT(60), <2>1, StartGoesOnEnds
<1>4. CASE StartInvalid(r)
  <2>1. StartGoesOn(r)
    BY <1>0, <1>4 DEF StartInvalid
  <2> QED
    BY ZenonT(60), <2>1, StartGoesOnEnds
<1>5. CASE StartConnecting(r)
  <2>1. StartGoesOn(r)
    BY <1>0, <1>5 DEF StartConnecting
  <2> QED
    BY ZenonT(60), <2>1, StartGoesOnEnds
<1>6. CASE BeginStartFails(r)
  <2>1. StartGoesOn(r)
    BY <1>0, <1>6 DEF BeginStartFails
  <2> QED
    BY ZenonT(60), <2>1, StartGoesOnEnds
<1>7. CASE beginStart(r)
  <2>1. StartGoesOn(r)
    BY <1>0, <1>7 DEF beginStart
  <2> QED
    BY ZenonT(60), <2>1, StartGoesOnEnds
<1>8. CASE CountStart(r)
  <2>1. StartGoesOn(r)
    BY <1>0, <1>8 DEF CountStart
  <2> QED
    BY ZenonT(60), <2>1, StartGoesOnEnds
<1>9. CASE ChooseAwgLink(r)
  <2>1. StartGoesOn(r)
    BY <1>0, <1>9 DEF ChooseAwgLink
  <2> QED
    BY ZenonT(60), <2>1, StartGoesOnEnds
<1>10. CASE LockCore(r)
  <2>1. StartGoesOn(r)
    BY <1>0, <1>10 DEF LockCore
  <2> QED
    BY ZenonT(60), <2>1, StartGoesOnEnds
<1>11. CASE PrepareEnded(r)
  <2>1. StartGoesOn(r)
    BY <1>0, <1>11 DEF PrepareEnded
  <2> QED
    BY ZenonT(60), <2>1, StartGoesOnEnds
<1>12. CASE PrepareAlready(r)
  <2>1. StartGoesOn(r)
    BY <1>0, <1>12 DEF PrepareAlready
  <2> QED
    BY ZenonT(60), <2>1, StartGoesOnEnds
<1>13. CASE BuildFails(r)
  <2>1. StartGoesOn(r)
    BY <1>0, <1>13 DEF BuildFails
  <2> QED
    BY ZenonT(60), <2>1, StartGoesOnEnds
<1>14. CASE EmitConnected(r)
  <2>1. StartGoesOn(r)
    BY <1>0, <1>14 DEF EmitConnected
  <2> QED
    BY ZenonT(60), <2>1, StartGoesOnEnds
<1>15. CASE EmitStartError(r)
  <2>1. StartGoesOn(r)
    BY <1>0, <1>15 DEF EmitStartError
  <2> QED
    BY ZenonT(60), <2>1, StartGoesOnEnds
<1>16. CASE StartDone(r)
  <2>1. StartGoesOn(r)
    BY <1>0, <1>16 DEF StartDone
  <2> QED
    BY ZenonT(60), <2>1, StartGoesOnEnds
<1> HIDE DEF StartAt, instance, loops, stops, StartClears, OwnerPc, StartGoesOn
<1> QED
  BY ZenonT(60), <1>1, <1>2, <1>3, <1>4, <1>5, <1>6, <1>7, <1>8, <1>9, <1>10, <1>11, <1>12, <1>13, <1>14, <1>15, <1>16

\* The calls that open a request.
LEMMA OpenedStartEnds ==
  ASSUME IInv, SessionEnds, NEW r \in Start, NEW e \in Engine,
         StartRefused(r, e) \/ StartGuarded(r, e)
  PROVE  SessionEnds'
<1>0. startPc \in [Start -> StartPc] /\ startEngine \in [Start -> Engine \union {NoEngine}]
  BY DEF IInv, TypeOK
<1>1. StartGoesOn(r)
  <2>1. CASE StartRefused(r, e)
    BY <1>0, <2>1 DEF StartRefused, instance, loops, stops, StartClears, OwnerPc, StartGoesOn
  <2>2. CASE StartGuarded(r, e)
    BY <1>0, <2>2 DEF StartGuarded, instance, loops, stops, StartClears, OwnerPc, StartGoesOn
  <2> QED
    BY <2>1, <2>2
<1> QED
  BY <1>1, StartGoesOnEnds


\* The steps of a start from up to the end of its lock.
LEMMA OwnerStepEnds ==
  ASSUME IInv, IInv', NEW r \in Start,
         \/ BringUp(r) \/ XraySettles(r) \/ ArmLiveness(r) \/ ArmServerState(r)
         \/ ArmIpResolve(r) \/ UnlockCore(r)
  PROVE  SessionEnds'
<1>0. startPc \in [Start -> StartPc]
  BY DEF IInv, TypeOK
<1>1. CASE UnlockCore(r)
  <2>1. startPc[r] = "unlock" /\ startPc'[r] = "stale"
    BY <1>0, <1>1 DEF UnlockCore, StartAt
  <2>2. runsSession(startEngine[r], startMark[r])
    BY ZenonT(60), <2>1 DEF IInv, Owned, OwnerPc
  <2>3. UNCHANGED <<running, instanceGen, startEngine, startMark>>
    BY <1>1 DEF UnlockCore, instance
  <2> QED
    BY ZenonT(60), <2>1, <2>2, <2>3, OwnerEnds DEF runsSession
<1>2. CASE BringUp(r) \/ XraySettles(r) \/ ArmLiveness(r) \/ ArmServerState(r)
           \/ ArmIpResolve(r)
  <2>1. startPc'[r] \in OwnerPc
    BY ZenonT(60), <1>0, <1>2 DEF BringUp, XraySettles, ArmLiveness, ArmServerState, ArmIpResolve,
                      StartAt, OwnerPc
  <2>2. runsSession(startEngine[r], startMark[r])'
    BY ZenonT(60), <2>1 DEF IInv, Owned
  <2> QED
    BY ZenonT(60), <2>1, <2>2, OwnerEnds
<1> QED
  BY <1>1, <1>2

\* Nothing runs: nothing is current.
LEMMA NoneCurrent ==
  ASSUME IInv, NEW e \in Engine, running[e], ~running'[e],
         \A f \in Engine : running'[f] => running[f]
  PROVE  ~Current'
  BY DEF IInv, OneEngine, Current, runsSession

\* The steps that take an instance down to replace it or to give up.
LEMMA ReplaceEnds ==
  ASSUME IInv, SessionEnds, NEW r \in Start, PrepareFresh(r) \/ PrepareConflict(r)
  PROVE  SessionEnds'
<1>t. /\ startPc \in [Start -> StartPc] /\ TypeOK
  BY DEF IInv, TypeOK
<1>0. /\ startPc[r] = "prepare" /\ ReplaceInstance(startEngine[r])
      /\ \E to \in {"build", "failed"} : startPc' = [startPc EXCEPT ![r] = to]
      /\ UNCHANGED <<sessionGen, startMark, startEngine, stopPc, replayPc, stats>>
  BY ZenonT(60) DEF PrepareFresh, PrepareConflict, StartAt, stops
<1>1. startEngine[r] \in Engine
  BY ZenonT(60), <1>0 DEF IInv, Bounded
<1>2. CASE running[startEngine[r]]
  <2>1. selWatch' = NoGen /\ serverSel' = NoGen /\ ipResolve' = NoGen
    BY <1>0, <1>2 DEF ReplaceInstance, endSessionLoops
  <2>2. ~Current'
    BY <1>t, <1>0, <1>1, <1>2, ReplaceOnlyEnds, NoneCurrent
  <2> QED
    BY <2>1, <2>2 DEF SessionEnds, LoopsGuarded
<1>3. CASE ~running[startEngine[r]]
  <2>1. UNCHANGED <<running, instanceGen, selWatch, serverSel, ipResolve>>
    BY <1>0, <1>3 DEF ReplaceInstance, instance, loops
  <2>2. StartGoesOn(r)
    BY <1>t, <1>0, <2>1 DEF StartGoesOn, StartClears, OwnerPc
  <2> QED
    BY <2>2, StartGoesOnEnds
<1> QED
  BY <1>2, <1>3

\* xray's rollback stops the instance: no session is left to end.
LEMMA RollbackEnds ==
  ASSUME IInv, NEW r \in Start, xrayRollback(r)
  PROVE  SessionEnds'
<1>t. startPc \in [Start -> StartPc] /\ running \in [Engine -> BOOLEAN]
  BY DEF IInv, TypeOK
<1>0. startPc[r] = "settle" /\ startPc'[r] = "failed"
      /\ running' = [running EXCEPT ![startEngine[r]] = FALSE]
  BY <1>t DEF xrayRollback, StartAt, stopLocked
<1>1. startEngine[r] \in Engine /\ running[startEngine[r]]
  BY <1>0 DEF IInv, Bounded, Owned, OwnerPc, runsSession
<1>2. ~Current'
  <2>1. ~running'[startEngine[r]] /\ \A f \in Engine : running'[f] => running[f]
    BY <1>t, <1>0, <1>1
  <2> QED
    BY <1>1, <2>1, NoneCurrent
<1> QED
  BY <1>0, <1>2 DEF SessionEnds, LoopsGuarded, Guarded, StartClears

\* A higher generation is nobody's yet.
LEMMA BumpEnds ==
  ASSUME IInv, sessionGen' = sessionGen + 1, instanceGen' = instanceGen
  PROVE  ~Current'
  BY DEF IInv, TypeOK, Bounded, Current, runsSession

\* abortStaleEngineSession, and the stats of the start that goes on.
LEMMA StaleEnds ==
  ASSUME IInv, SessionEnds, NEW r \in Start, NotStale(r) \/ AbortStale(r) \/ StartStats(r)
  PROVE  SessionEnds'
<1>t. startPc \in [Start -> StartPc]
  BY DEF IInv, TypeOK
<1>0. UNCHANGED <<sessionGen, running, instanceGen, startMark, startEngine, stopPc, replayPc>>
  BY ZenonT(60) DEF NotStale, AbortStale, StartStats, instance, stops
<1>1. Current <=> Current'
  BY <1>0 DEF Current, runsSession
<1>2. /\ startPc[r] \in {"stale", "stats"}
      /\ startPc'[r] \in {"stats", "connected", "end"}
      /\ \A q \in Start \ {r} : startPc'[q] = startPc[q]
  BY <1>t DEF NotStale, AbortStale, StartStats, StartAt
<1>3. LoopsGuarded'
  <2>1. CASE selWatch' = NoGen /\ serverSel' = NoGen /\ ipResolve' = NoGen
    BY <2>1 DEF LoopsGuarded
  <2>2. CASE /\ UNCHANGED <<selWatch, serverSel, ipResolve>>
             /\ ~Late(r)
    <3>1. \A q \in Start : Late(q) => Late(q)'
      BY ZenonT(60), <1>0, <1>2, <2>2 DEF Late, SupersedesStrictly
    <3>2. \A q \in Start : startPc[q] \in StartClears => startPc'[q] = startPc[q]
      BY ZenonT(60), <1>2 DEF StartClears
    <3>3. selWatch' # NoGen => Guarded({"watch"}, {"failed", "clearWatch"})'
      BY ZenonT(60), <1>0, <1>1, <2>2, <3>1, <3>2, GuardKept DEF SessionEnds, LoopsGuarded, StartClears
    <3>4. ipResolve' # NoGen =>
              Guarded({"watch", "ip"}, {"failed", "clearWatch", "clearIp"})'
      BY ZenonT(60), <1>0, <1>1, <2>2, <3>1, <3>2, GuardKept DEF SessionEnds, LoopsGuarded, StartClears
    <3>5. serverSel' # NoGen => Guarded(StopClears, StartClears)'
      BY ZenonT(60), <1>0, <1>1, <2>2, <3>1, <3>2, GuardKept DEF SessionEnds, LoopsGuarded
    <3> QED
      BY <3>3, <3>4, <3>5 DEF LoopsGuarded, StopClears, StartClears
  <2>3. CASE NotStale(r)
    BY ZenonT(60), <2>2, <2>3 DEF NotStale, loops, Late
  <2>4. CASE StartStats(r)
    BY ZenonT(60), <2>2, <2>4 DEF StartStats, StartAt, loops, Late, OwnerPc
  <2>5. CASE AbortStale(r)
    BY ZenonT(60), <2>1, <2>2, <2>5 DEF AbortStale, endSessionLoops, loops, Late
  <2> QED
    BY <2>3, <2>4, <2>5
<1>4. StatsComing => StatsComing'
  <2>1. CASE StartStats(r)
    BY ZenonT(60), <2>1 DEF StartStats, StatsComing
  <2>2. CASE NotStale(r)
    <3>1. startPc'[r] = "stats" /\ startMark'[r] = sessionGen'
      BY <1>t, <1>0, <2>2 DEF NotStale, StartAt
    <3> QED
      BY ZenonT(60), <3>1 DEF StatsComing
  <2>3. CASE AbortStale(r)
    <3>1. startMark[r] # sessionGen /\ stats' = stats
      BY ZenonT(60), <2>3 DEF AbortStale
    <3> QED
      BY ZenonT(60), <1>0, <1>2, <3>1 DEF StatsComing
  <2> QED
    BY <2>1, <2>2, <2>3
<1> QED
  BY <1>1, <1>3, <1>4 DEF SessionEnds

\* clearSessionState of a failed start.
LEMMA FailedEnds ==
  ASSUME IInv, SessionEnds, NEW r \in Start,
         \/ FailedBump(r) \/ FailedClearWatch(r) \/ FailedClearIp(r)
         \/ FailedClearServer(r)
  PROVE  SessionEnds'
<1>t. startPc \in [Start -> StartPc]
  BY DEF IInv, TypeOK
<1>0. UNCHANGED <<running, instanceGen, startMark, startEngine, stopPc, replayPc, stats>>
  BY ZenonT(60) DEF FailedBump, FailedClearWatch, FailedClearIp, FailedClearServer,
                    instance, stops
<1>1. \A q \in Start \ {r} : startPc'[q] = startPc[q]
  BY <1>t DEF FailedBump, FailedClearWatch, FailedClearIp, FailedClearServer, StartAt
<1>2. CASE FailedBump(r)
  <2>1. startPc'[r] = "clearWatch" /\ ~Current'
    BY <1>t, <1>0, <1>2, BumpEnds DEF FailedBump, StartAt
  <2> QED
    BY ZenonT(60), <2>1 DEF SessionEnds, LoopsGuarded, Guarded, StartClears
<1>3. ASSUME sessionGen' = sessionGen, startPc[r] \in StartClears
      PROVE  /\ Current <=> Current'
             /\ StatsComing => StatsComing'
             /\ \A q \in Start : Late(q) => Late(q)'
  BY ZenonT(60), <1>0, <1>1, <1>3 DEF Current, runsSession, StatsComing, StartClears, OwnerPc, Late,
                          SupersedesStrictly
<1>4. CASE FailedClearWatch(r)
  <2>1. /\ startPc[r] = "clearWatch" /\ startPc'[r] = "clearIp" /\ selWatch' = NoGen
        /\ sessionGen' = sessionGen
    BY <1>t, <1>4 DEF FailedClearWatch, StartAt
  <2>2. LoopsGuarded'
    BY ZenonT(60), <2>1 DEF LoopsGuarded, Guarded, StartClears
  <2> QED
    BY ZenonT(60), <1>3, <2>1, <2>2 DEF SessionEnds, StartClears
<1>5. CASE FailedClearIp(r)
  <2>1. /\ startPc[r] = "clearIp" /\ startPc'[r] = "clearServer" /\ ipResolve' = NoGen
        /\ sessionGen' = sessionGen /\ selWatch' = selWatch
    BY <1>t, <1>5 DEF FailedClearIp, StartAt
  <2>2. \A q \in Start : startPc[q] \in {"failed", "clearWatch"} => startPc'[q] = startPc[q]
    BY <1>1, <2>1
  <2>3. selWatch' # NoGen => Guarded({"watch"}, {"failed", "clearWatch"})'
    BY ZenonT(60), <1>0, <1>3, <2>1, <2>2, GuardKept DEF SessionEnds, LoopsGuarded, StartClears
  <2>4. LoopsGuarded'
    <3>1. serverSel' # NoGen => Guarded(StopClears, StartClears)'
      BY <2>1 DEF Guarded, StartClears
    <3> QED
      BY <2>1, <2>3, <3>1 DEF LoopsGuarded
  <2> QED
    BY ZenonT(60), <1>3, <2>1, <2>4 DEF SessionEnds, StartClears
<1>6. CASE FailedClearServer(r)
  <2>1. /\ startPc[r] = "clearServer" /\ serverSel' = NoGen
        /\ sessionGen' = sessionGen /\ selWatch' = selWatch /\ ipResolve' = ipResolve
    BY <1>t, <1>6 DEF FailedClearServer, StartAt
  <2>2. \A q \in Start : startPc[q] \in {"failed", "clearWatch", "clearIp"} =>
            startPc'[q] = startPc[q]
    BY <1>1, <2>1
  <2>3. selWatch' # NoGen => Guarded({"watch"}, {"failed", "clearWatch"})'
    BY ZenonT(60), <1>0, <1>3, <2>1, <2>2, GuardKept DEF SessionEnds, LoopsGuarded, StartClears
  <2>4. ipResolve' # NoGen =>
            Guarded({"watch", "ip"}, {"failed", "clearWatch", "clearIp"})'
    BY ZenonT(60), <1>0, <1>3, <2>1, <2>2, GuardKept DEF SessionEnds, LoopsGuarded, StartClears
  <2>5. LoopsGuarded'
    BY <2>1, <2>3, <2>4 DEF LoopsGuarded
  <2> QED
    BY <1>3, <2>1, <2>5 DEF SessionEnds, StartClears
<1> QED
  BY <1>2, <1>4, <1>5, <1>6

\* The stop handler and the stop goroutine.
LEMMA PlainStopEnds ==
  ASSUME IInv, SessionEnds, NEW p \in Stop,
         \/ \E e \in Engine : StopCall(p, e)
         \/ StopEngaged(p) \/ StopRefused(p) \/ EmitDisconnecting(p)
         \/ StopSuperseded(p) \/ EmitDisconnected(p)
  PROVE  SessionEnds'
<1>t. stopPc \in [Stop -> StopPc]
  BY DEF IInv, TypeOK
<1>0. /\ UNCHANGED <<sessionGen, running, instanceGen, selWatch, serverSel, ipResolve,
                     startPc, startMark, startEngine, replayPc, stats>>
      /\ \E to : stopPc' = [stopPc EXCEPT ![p] = to]
      /\ stopPc[p] \in {"idle", "engaged", "disconnecting", "lock", "disconnected"}
  BY ZenonT(60) DEF StopCall, StopEngaged, StopRefused, EmitDisconnecting,
                    StopSuperseded, EmitDisconnected, StopAt, instance, loops, starts
<1>1. StopGoesOn(p)
  BY <1>t, <1>0 DEF StopGoesOn, StopClears
<1> QED
  BY <1>1, StopGoesOnEnds

\* A stop that stops the loops one after another does it in the order the
\* invariant counts on.
LEMMA ClearingStopEnds ==
  ASSUME IInv, SessionEnds, NEW p \in Stop,
         \/ StopStats(p) \/ StopLiveness(p) \/ StopBump(p) \/ StopWatch(p)
         \/ StopIp(p) \/ StopServer(p)
  PROVE  SessionEnds'
<1>t. stopPc \in [Stop -> StopPc]
  BY DEF IInv, TypeOK
<1>0. UNCHANGED <<running, instanceGen, startPc, startMark, startEngine, replayPc>>
  BY ZenonT(60) DEF StopStats, StopLiveness, StopBump, StopWatch, StopIp, StopServer,
                    instance, starts
<1>1. \A q \in Stop \ {p} : stopPc'[q] = stopPc[q]
  BY <1>t DEF StopStats, StopLiveness, StopBump, StopWatch, StopIp, StopServer, StopAt
<1>2. CASE StopBump(p)
  <2>1. stopPc'[p] = "watch" /\ ~Current'
    BY <1>t, <1>0, <1>2, BumpEnds DEF StopBump, StopAt
  <2> QED
    BY ZenonT(60), <2>1 DEF SessionEnds, LoopsGuarded, Guarded, StopClears
<1>3. ASSUME sessionGen' = sessionGen
      PROVE  /\ Current <=> Current'
             /\ \A q \in Start : Late(q) => Late(q)'
  BY ZenonT(60), <1>0, <1>3 DEF Current, runsSession, Late, SupersedesStrictly
<1>4. ASSUME sessionGen' = sessionGen, stats' = stats, stopPc[p] \notin {"liveness", "bump"}
      PROVE  StatsComing => StatsComing'
  BY ZenonT(60), <1>0, <1>1, <1>4 DEF StatsComing
<1>5. CASE StopStats(p) \/ StopLiveness(p)
  <2>1. /\ stopPc[p] \notin StopClears /\ stopPc'[p] \in {"liveness", "bump"}
        /\ sessionGen' = sessionGen
    BY <1>t, <1>5 DEF StopStats, StopLiveness, StopAt, StopClears
  <2>2. UNCHANGED <<selWatch, serverSel, ipResolve>>
    BY ZenonT(60), <1>5 DEF StopStats, StopLiveness, loops
  <2>3. \A q \in Stop : stopPc[q] \in StopClears => stopPc'[q] = stopPc[q]
    BY ZenonT(60), <1>1, <2>1
  <2>4. selWatch' # NoGen => Guarded({"watch"}, {"failed", "clearWatch"})'
    BY ZenonT(60), <1>0, <1>3, <2>1, <2>2, <2>3, GuardKept DEF SessionEnds, LoopsGuarded, StopClears
  <2>5. ipResolve' # NoGen =>
            Guarded({"watch", "ip"}, {"failed", "clearWatch", "clearIp"})'
    BY ZenonT(60), <1>0, <1>3, <2>1, <2>2, <2>3, GuardKept DEF SessionEnds, LoopsGuarded, StopClears
  <2>6. serverSel' # NoGen => Guarded(StopClears, StartClears)'
    BY ZenonT(60), <1>0, <1>3, <2>1, <2>2, <2>3, GuardKept DEF SessionEnds, LoopsGuarded
  <2>7. StatsComing'
    BY ZenonT(60), <2>1 DEF StatsComing
  <2> QED
    BY <2>4, <2>5, <2>6, <2>7 DEF SessionEnds, LoopsGuarded
<1>6. CASE StopWatch(p)
  <2>1. /\ stopPc[p] = "watch" /\ stopPc'[p] = "ip" /\ selWatch' = NoGen
        /\ sessionGen' = sessionGen /\ stats' = stats
    BY <1>t, <1>6 DEF StopWatch, StopAt
  <2>2. LoopsGuarded'
    BY ZenonT(60), <2>1 DEF LoopsGuarded, Guarded, StopClears
  <2> QED
    BY <1>3, <1>4, <2>1, <2>2 DEF SessionEnds
<1>7. CASE StopIp(p)
  <2>1. /\ stopPc[p] = "ip" /\ stopPc'[p] = "server" /\ ipResolve' = NoGen
        /\ sessionGen' = sessionGen /\ stats' = stats /\ selWatch' = selWatch
    BY <1>t, <1>7 DEF StopIp, StopAt
  <2>2. \A q \in Stop : stopPc[q] \in {"watch"} => stopPc'[q] = stopPc[q]
    BY ZenonT(60), <1>1, <2>1
  <2>3. selWatch' # NoGen => Guarded({"watch"}, {"failed", "clearWatch"})'
    BY ZenonT(60), <1>0, <1>3, <2>1, <2>2, GuardKept DEF SessionEnds, LoopsGuarded
  <2>4. LoopsGuarded'
    <3>1. serverSel' # NoGen => Guarded(StopClears, StartClears)'
      BY ZenonT(60), <2>1 DEF Guarded, StopClears
    <3> QED
      BY <2>1, <2>3, <3>1 DEF LoopsGuarded
  <2> QED
    BY ZenonT(60), <1>3, <1>4, <2>1, <2>4 DEF SessionEnds
<1>8. CASE StopServer(p)
  <2>1. /\ stopPc[p] = "server" /\ serverSel' = NoGen /\ sessionGen' = sessionGen
        /\ stats' = stats /\ selWatch' = selWatch /\ ipResolve' = ipResolve
    BY <1>t, <1>8 DEF StopServer, StopAt
  <2>2. \A q \in Stop : stopPc[q] \in {"watch", "ip"} => stopPc'[q] = stopPc[q]
    BY ZenonT(60), <1>1, <2>1
  <2>3. selWatch' # NoGen => Guarded({"watch"}, {"failed", "clearWatch"})'
    BY ZenonT(60), <1>0, <1>3, <2>1, <2>2, GuardKept DEF SessionEnds, LoopsGuarded
  <2>4. ipResolve' # NoGen =>
            Guarded({"watch", "ip"}, {"failed", "clearWatch", "clearIp"})'
    BY ZenonT(60), <1>0, <1>3, <2>1, <2>2, GuardKept DEF SessionEnds, LoopsGuarded
  <2>5. LoopsGuarded'
    BY <2>1, <2>3, <2>4 DEF LoopsGuarded
  <2> QED
    BY <1>3, <1>4, <2>1, <2>5 DEF SessionEnds
<1> QED
  BY <1>2, <1>5, <1>6, <1>7, <1>8

\* stopEngineInstance takes down an instance of an earlier session only.
LEMMA InstanceStopEnds ==
  ASSUME IInv, SessionEnds, NEW p \in Stop, StopInstance(p)
  PROVE  SessionEnds'
<1>t. /\ stopPc \in [Stop -> StopPc] /\ running \in [Engine -> BOOLEAN]
      /\ instanceGen \in [Engine -> Nat] /\ sessionGen \in Nat /\ stopGen \in [Stop -> Gen]
  BY DEF IInv, TypeOK
<1>0. /\ stopPc[p] = "lock" /\ stopPc'[p] = "disconnected"
      /\ \A q \in Stop \ {p} : stopPc'[q] = stopPc[q]
  BY <1>t DEF StopInstance, StopAt
<1>1. /\ UNCHANGED <<sessionGen, instanceGen, selWatch, serverSel, ipResolve, startPc,
                     startMark, startEngine, replayPc, stats>>
      /\ running' = [running EXCEPT ![stopEngine[p]] = FALSE]
  BY ZenonT(60) DEF StopInstance, stopLocked, loops, starts
<1>2. stopEngine[p] \in Engine /\ stopGen[p] <= sessionGen
  BY ZenonT(60), <1>0 DEF IInv, Bounded
<1>3. \A f \in Engine : running'[f] => running[f]
  BY <1>t, <1>1, <1>2
<1>4. ~runsSession(stopEngine[p], sessionGen)
  BY <1>t, <1>2 DEF StopInstance, supersedes, runsSession, Gen, NoGen
<1>5. Current <=> Current'
  <2>1. \A f \in Engine : f # stopEngine[p] => running'[f] = running[f]
    BY <1>t, <1>1
  <2>2. \A f \in Engine : runsSession(f, sessionGen) => runsSession(f, sessionGen)'
    BY <1>1, <1>4, <2>1 DEF runsSession
  <2>3. \A f \in Engine : runsSession(f, sessionGen)' => runsSession(f, sessionGen)
    BY <1>1, <1>3 DEF runsSession
  <2> QED
    BY ZenonT(60), <2>2, <2>3 DEF Current
<1>6. \A q \in Start : Late(q) => Late(q)'
  <2> SUFFICES ASSUME NEW q \in Start, Late(q) PROVE Late(q)'
    OBVIOUS
  <2>1. startEngine[q] \in Engine
    BY ZenonT(60) DEF Late, IInv, Bounded, OwnerPc
  <2> QED
    BY <1>1, <1>3, <2>1 DEF Late, SupersedesStrictly
<1>7. \A q \in Stop : stopPc[q] \in StopClears \union {"liveness", "bump"} =>
          stopPc'[q] = stopPc[q]
  BY <1>0 DEF StopClears
<1>8. selWatch' # NoGen => Guarded({"watch"}, {"failed", "clearWatch"})'
  BY ZenonT(60), <1>1, <1>5, <1>6, <1>7, GuardKept DEF SessionEnds, LoopsGuarded, StopClears
<1>9. ipResolve' # NoGen => Guarded({"watch", "ip"}, {"failed", "clearWatch", "clearIp"})'
  BY ZenonT(60), <1>1, <1>5, <1>6, <1>7, GuardKept DEF SessionEnds, LoopsGuarded, StopClears
<1>10. serverSel' # NoGen => Guarded(StopClears, StartClears)'
  BY ZenonT(60), <1>1, <1>5, <1>6, <1>7, GuardKept DEF SessionEnds, LoopsGuarded
<1>11. StatsComing => StatsComing'
  BY ZenonT(60), <1>1, <1>7 DEF StatsComing
<1> QED
  BY <1>5, <1>8, <1>9, <1>10, <1>11 DEF SessionEnds, LoopsGuarded

\* Nothing the loops depend on changes, and a client's replay is under way.
LEMMA ClientEnds ==
  ASSUME IInv, SessionEnds, NEW c \in Client,
         OnDartApiInit(c) \/ Replay(c) \/ ReplayStep(c)
  PROVE  SessionEnds'
<1>t. replayPc \in [Client -> {"idle", "attach", "connected", "stats", "done"}]
  BY DEF IInv, TypeOK
<1>0. UNCHANGED <<sessionGen, running, instanceGen, selWatch, serverSel, ipResolve,
                  startPc, startMark, startEngine, stopPc>>
  BY ZenonT(60) DEF OnDartApiInit, Replay, ReplayStep, ReplayConnected, ReplayStats,
                    instance, loops, starts, stops
<1>1. Current <=> Current'
  BY <1>0 DEF Current, runsSession
<1>2. LoopsGuarded'
  BY ZenonT(60), <1>0, <1>1 DEF SessionEnds, LoopsGuarded, Guarded, Late, SupersedesStrictly
<1>3. ASSUME Current, StatsComing PROVE StatsComing'
  <2>1. CASE OnDartApiInit(c)
    <3>1. replayPc'[c] = "attach"
      BY <1>t, <2>1 DEF OnDartApiInit
    <3> QED
      BY ZenonT(60), <3>1 DEF StatsComing
  <2>2. CASE Replay(c)
    <3>1. \E e \in Engine : engaged(e)
      BY ZenonT(60), <1>3 DEF Current, runsSession, engaged
    <3>2. replayPc'[c] = "connected"
      BY <1>t, <2>2, <3>1 DEF Replay
    <3> QED
      BY ZenonT(60), <3>2 DEF StatsComing
  <2>3. CASE ReplayConnected(c)
    <3>1. replayPc'[c] = "stats"
      BY <1>t, <2>3 DEF ReplayConnected
    <3> QED
      BY ZenonT(60), <3>1 DEF StatsComing
  <2>4. CASE ReplayStats(c)
    BY <2>4 DEF ReplayStats, StatsComing
  <2> QED
    BY <2>1, <2>2, <2>3, <2>4 DEF ReplayStep
<1> QED
  BY <1>1, <1>2, <1>3 DEF SessionEnds

\* Every step keeps what a session's end has left to do with somebody.
LEMMA NextEnds ==
  ASSUME IInv, IInv', SessionEnds, [Next]_vars
  PROVE  SessionEnds'
<1>1. ASSUME NEW r \in Start, StartStep(r) PROVE SessionEnds'
  BY ZenonT(60), <1>1, PlainStartEnds, OwnerStepEnds, ReplaceEnds, RollbackEnds, StaleEnds,
     FailedEnds
     DEF StartStep, HandlerStep, CriticalStep, TailStep
<1>2. ASSUME NEW p \in Stop, StopStep(p) PROVE SessionEnds'
  BY ZenonT(60), <1>2, PlainStopEnds, ClearingStopEnds, InstanceStopEnds DEF StopStep
<1>3. CASE UNCHANGED vars
  <2>1. UNCHANGED <<sessionGen, running, instanceGen, selWatch, serverSel, ipResolve,
                    startPc, startMark, startEngine, stopPc, replayPc, stats>>
    BY ZenonT(60), <1>3 DEF vars, instance, loops, starts, stops
  <2> QED
    BY ZenonT(60), <2>1 DEF SessionEnds, LoopsGuarded, Guarded, Late, SupersedesStrictly, Current,
                runsSession, StatsComing
<1> QED
  BY ZenonT(60), <1>1, <1>2, <1>3, OpenedStartEnds, PlainStopEnds, ClientEnds DEF Next, Rest

\* What a session armed is guarded by it or by one who will end it, and a current
\* session has its stats loop or is getting it.
THEOREM SessionEndsAlways == Spec => []SessionEnds
<1>1. Init => SessionEnds
  BY DEF Init, SessionEnds, LoopsGuarded, Current, runsSession
<1>2. IInv /\ IInv' /\ SessionEnds /\ [Next]_vars => SessionEnds'
  BY NextEnds
<1> QED
  BY <1>1, <1>2, SessionInvariant, PTL DEF Spec

\* Once the calls have ended, nothing a session armed is left without it, for any
\* number of starts, stops and engines (clearSessionState, endSessionLoops and
\* abortStaleEngineSession together).
THEOREM NothingLeftBehind == Spec => []NothingOutlivesSession
<1>1. SessionEnds => NothingOutlivesSession
  BY ZenonT(60) DEF SessionEnds, LoopsGuarded, Guarded, NothingOutlivesSession, Settled, StopEndPc,
         StopClears, StartClears, Late, OwnerPc
<1> QED
  BY <1>1, SessionEndsAlways, PTL

\* Once the calls have ended, the session that is up reports its statistics,
\* whatever stops and replays raced its start.
THEOREM LiveSessionsReport == Spec => []StatsOfLiveSession
<1>1. SessionEnds => StatsOfLiveSession
  BY DEF SessionEnds, StatsComing, StatsOfLiveSession, Settled, StopEndPc, OwnerPc
<1> QED
  BY <1>1, SessionEndsAlways, PTL
=============================================================================
