------------------------------ MODULE IpResolve ------------------------------
(***************************************************************************)
(* The external-IP resolver (internal/core/ipresolve.go): a session arms   *)
(* it, a stop disarms it, the session's loops trigger it, and one worker   *)
(* goroutine fetches, stores and publishes the address.                    *)
(*                                                                         *)
(* An answer is abstracted to the session whose tunnel gave it and to      *)
(* whether it names an address.                                            *)
(***************************************************************************)
EXTENDS Integers

CONSTANTS
    Trigger,        \* goroutines that trigger a fetch: liveness loop, watch
    MaxSessions,    \* bound: sessions that arm the resolver
    MaxStops,       \* bound: stops
    MaxTriggers     \* bound: triggers that find the resolver armed

ASSUME BoundAssumption ==
    MaxSessions \in Nat /\ MaxStops \in Nat /\ MaxTriggers \in Nat

VARIABLES
    ipGen,      \* CoreController.ipGen
    ipResolve,  \* the armed configuration
    ipState,    \* ipStateJSON: the answer and the generation it was stored under
    busy,       \* ipFetchBusy
    again,      \* ipFetchAgain
    workerPc, workerCfg, workerGen, answer,
    armPc, armGen,          \* configureIPResolve's own report
    triggerPc,
    sessions, stops, triggers,
    owed        \* history: a trigger was accepted and no fetch has begun since

worker == <<workerPc, workerCfg, workerGen, answer>>
arming == <<armPc, armGen>>
counts == <<sessions, stops, triggers>>
vars == <<ipGen, ipResolve, ipState, busy, again, worker, arming, triggerPc,
          counts, owed>>

Session == 1..MaxSessions
Mode == {"fetch", "disabled", "unsupported"}
Off == [session |-> 0, mode |-> "disabled"]
Config == [session : Session, mode : Mode] \union {Off}

NoAnswer == [session |-> 0, says |-> "nothing"]
Answer == [session : Session, says : {"address", "error", "unsupported"}]
NoState == [answer |-> NoAnswer, gen |-> 0]

\* cfg.enabled && cfg.dial != nil
Fetches(cfg) == cfg.mode = "fetch"

Init ==
    /\ ipGen = 0 /\ ipResolve = Off /\ ipState = NoState
    /\ busy = FALSE /\ again = FALSE
    /\ workerPc = "off" /\ workerCfg = Off /\ workerGen = 0 /\ answer = NoAnswer
    /\ armPc = "idle" /\ armGen = 0
    /\ triggerPc = [t \in Trigger |-> "idle"]
    /\ sessions = 0 /\ stops = 0 /\ triggers = 0
    /\ owed = FALSE

-----------------------------------------------------------------------------
(* Arming and disarming. *)

\* One start at a time arms, as it holds coreMutex.
configureIPResolve(mode) ==
    /\ armPc = "idle" /\ sessions < MaxSessions
    /\ sessions' = sessions + 1
    /\ ipGen' = ipGen + 1
    /\ ipState' = NoState
    /\ ipResolve' = [session |-> sessions', mode |-> mode]
    /\ armPc' = IF mode = "unsupported" THEN "report" ELSE "idle"
    /\ armGen' = IF mode = "unsupported" THEN ipGen' ELSE armGen
    /\ UNCHANGED <<busy, again, worker, triggerPc, stops, triggers, owed>>

stopIPResolve ==
    /\ stops < MaxStops
    /\ stops' = stops + 1
    /\ ipGen' = ipGen + 1
    /\ ipResolve' = Off
    /\ ipState' = NoState
    /\ UNCHANGED <<busy, again, worker, arming, triggerPc, sessions, triggers,
                   owed>>

-----------------------------------------------------------------------------
(* setExternalIPState: the store, under ipFetchMu; the event, after it. *)

Stale(gen) == ipGen # gen

NewsUnchecked(gen, ans) == ans # ipState.answer
\* The answer is of the current generation and not the one already stored.
News(gen, ans) == ~Stale(gen) /\ ans # ipState.answer

setExternalIPState(gen, ans) ==
    ipState' = IF News(gen, ans) THEN [answer |-> ans, gen |-> gen] ELSE ipState

ReportUnsupported ==
    LET ans == [session |-> sessions, says |-> "unsupported"] IN
    /\ armPc = "report"
    /\ setExternalIPState(armGen, ans)
    /\ armPc' = IF News(armGen, ans) THEN "emit" ELSE "idle"
    /\ UNCHANGED <<ipGen, ipResolve, busy, again, worker, armGen, triggerPc,
                   counts, owed>>

EmitUnsupported ==
    /\ armPc = "emit"
    /\ armPc' = "idle"
    /\ UNCHANGED <<ipGen, ipResolve, ipState, busy, again, worker, armGen,
                   triggerPc, counts, owed>>

-----------------------------------------------------------------------------
(* triggerIPResolve. *)

TriggerLoads(t) ==
    /\ triggerPc[t] = "idle" /\ triggers < MaxTriggers
    /\ Fetches(ipResolve)
    /\ triggers' = triggers + 1
    /\ triggerPc' = [triggerPc EXCEPT ![t] = "lock"]
    /\ UNCHANGED <<ipGen, ipResolve, ipState, busy, again, worker, arming,
                   sessions, stops, owed>>

\* The worker is fetching: it is asked for one more round.
TriggerQueues(t) ==
    /\ triggerPc[t] = "lock" /\ busy
    /\ again' = TRUE
    /\ triggerPc' = [triggerPc EXCEPT ![t] = "idle"]
    /\ owed' = TRUE
    /\ UNCHANGED <<ipGen, ipResolve, ipState, busy, worker, arming, counts>>

TriggerStarts(t) ==
    /\ triggerPc[t] = "lock" /\ ~busy
    /\ busy' = TRUE
    /\ workerPc' = "config"
    /\ triggerPc' = [triggerPc EXCEPT ![t] = "idle"]
    /\ owed' = TRUE
    /\ UNCHANGED <<ipGen, ipResolve, ipState, again, workerCfg, workerGen,
                   answer, arming, counts>>

-----------------------------------------------------------------------------
(* The worker.  Configuration and generation are two loads. *)

LoadConfig ==
    /\ workerPc = "config"
    /\ workerPc' = "gen"
    /\ workerCfg' = ipResolve
    /\ owed' = FALSE
    /\ UNCHANGED <<ipGen, ipResolve, ipState, busy, again, workerGen, answer,
                   arming, triggerPc, counts>>

LoadGen ==
    /\ workerPc = "gen"
    /\ workerPc' = IF Fetches(workerCfg) THEN "fetch" ELSE "next"
    /\ workerGen' = ipGen
    /\ UNCHANGED <<ipGen, ipResolve, ipState, busy, again, workerCfg, answer,
                   arming, triggerPc, counts, owed>>

\* fetchExternalIPs through the configured session's dial, retries included.
Fetch ==
    /\ workerPc = "fetch"
    /\ workerPc' = "store"
    /\ \E says \in {"address", "error"} :
           answer' = [session |-> workerCfg.session, says |-> says]
    /\ UNCHANGED <<ipGen, ipResolve, ipState, busy, again, workerCfg, workerGen,
                   arming, triggerPc, counts, owed>>

StoreAnswer ==
    /\ workerPc = "store"
    /\ setExternalIPState(workerGen, answer)
    /\ workerPc' = IF News(workerGen, answer) THEN "emit" ELSE "next"
    /\ UNCHANGED <<ipGen, ipResolve, busy, again, workerCfg, workerGen, answer,
                   arming, triggerPc, counts, owed>>

EmitAnswer ==
    /\ workerPc = "emit"
    /\ workerPc' = "next"
    /\ UNCHANGED <<ipGen, ipResolve, ipState, busy, again, workerCfg, workerGen,
                   answer, arming, triggerPc, counts, owed>>

\* What a finished round leaves behind is of no use to the next one.
ForgetRound == workerCfg' = Off /\ workerGen' = 0 /\ answer' = NoAnswer

AnotherRound ==
    /\ workerPc = "next" /\ again
    /\ again' = FALSE
    /\ workerPc' = "config"
    /\ ForgetRound
    /\ UNCHANGED <<ipGen, ipResolve, ipState, busy, arming, triggerPc, counts,
                   owed>>

WorkerEndsAnyway ==
    /\ workerPc = "next"
    /\ busy' = FALSE
    /\ workerPc' = "off"
    /\ ForgetRound
    /\ UNCHANGED <<ipGen, ipResolve, ipState, again, arming, triggerPc, counts,
                   owed>>
WorkerEnds ==
    /\ workerPc = "next" /\ ~again
    /\ busy' = FALSE
    /\ workerPc' = "off"
    /\ ForgetRound
    /\ UNCHANGED <<ipGen, ipResolve, ipState, again, arming, triggerPc, counts,
                   owed>>

-----------------------------------------------------------------------------
(* The specification. *)

WorkerStep ==
    \/ LoadConfig \/ LoadGen \/ Fetch \/ StoreAnswer \/ EmitAnswer
    \/ AnotherRound \/ WorkerEnds

ArmStep == ReportUnsupported \/ EmitUnsupported

TriggerStep(t) == TriggerQueues(t) \/ TriggerStarts(t)

Quiet ==
    workerPc = "off" /\ armPc = "idle" /\ \A t \in Trigger : triggerPc[t] = "idle"

Rest == Quiet /\ UNCHANGED vars

Next ==
    \/ \E mode \in Mode : configureIPResolve(mode)
    \/ stopIPResolve
    \/ ArmStep
    \/ \E t \in Trigger : TriggerLoads(t) \/ TriggerStep(t)
    \/ WorkerStep
    \/ Rest

Spec == Init /\ [][Next]_vars

\* The worker runs on, its fetches bounded by their timeouts and retries, and a
\* trigger gets ipFetchMu, which nobody holds across a wait.
Fairness ==
    /\ WF_vars(WorkerStep) /\ WF_vars(ArmStep)
    /\ \A t \in Trigger : WF_vars(TriggerStep(t))

FairSpec == Spec /\ Fairness

-----------------------------------------------------------------------------
(* Properties. *)

\* Types.
TypeOK ==
    /\ ipGen \in Nat /\ ipResolve \in Config
    /\ ipState \in [answer : Answer \union {NoAnswer}, gen : Nat]
    /\ busy \in BOOLEAN /\ again \in BOOLEAN
    /\ workerPc \in {"off", "config", "gen", "fetch", "store", "emit", "next"}
    /\ workerCfg \in Config /\ workerGen \in Nat
    /\ answer \in Answer \union {NoAnswer}
    /\ armPc \in {"idle", "report", "emit"} /\ armGen \in Nat
    /\ triggerPc \in [Trigger -> {"idle", "lock"}]
    /\ sessions \in 0..MaxSessions /\ stops \in 0..MaxStops
    /\ triggers \in 0..MaxTriggers
    /\ owed \in BOOLEAN

\* A stored answer is of the current generation: arming and disarming clear it
\* under the lock they move the generation with, and a late answer is refused.
StateOfGeneration == ipState # NoState => ipState.gen = ipGen

\* A trigger that was accepted has a round of its own before it: the busy/again
\* handshake loses none, whatever moment of a round it falls in.
NoLostTrigger == owed => workerPc = "config" \/ (again /\ workerPc # "off")

\* Every accepted trigger is followed by a round that reads the configuration
\* afresh.
TriggersServed == owed ~> ~owed

=============================================================================
