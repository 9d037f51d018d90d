------------------------------ MODULE LinkProbe ------------------------------
(***************************************************************************)
(* pinger.Measure: a batch of links, each measured on the engine chosen    *)
(* for it by a goroutine of its own, at most Concurrency at once, and moved*)
(* to the fallback engine when xray says it only lacks a capability.  And  *)
(* its one consumer inside the core, the AmneziaWG pool: PickAwg probes the*)
(* pool for a caller that builds the tunnel first, and the start that      *)
(* follows takes the link the caller names or probes the pool itself.      *)
(***************************************************************************)
EXTENDS ShareLinks, Integers, Sequences, FiniteSets

CONSTANTS Batches,      \* the batches of links a caller may ping
          Pools,        \* the pools of awg links a caller may start
          Concurrency,  \* Request.Concurrency
          MaxDelay      \* the longest delay a probe measures

ASSUME ProbeAssumption ==
  Concurrency \in Nat \ {0} /\ MaxDelay \in Nat \ {0}

ASSUME BatchAssumption ==
  \A b \in Batches \cup Pools : Len(b) \in Nat /\ DOMAIN b = 1..Len(b)

VARIABLES
  phase,     \* whose batch runs: "ping", "pick" or "start"; or what came of it
  batch,     \* Request.Links
  pinned,    \* Request.Engine, NoEngine for the per-link choice
  next,      \* the link the loop has reached
  going,     \* per link, where its goroutine is
  result,    \* Measure's results
  strategy,  \* the start's strategy option
  tunnel,    \* the link whose addresses PickAwg handed the caller, 0 for none
  chosen     \* the link the start uses, 0 for none

probeVars == <<phase, batch, pinned, next, going, result, strategy, tunnel, chosen>>

Strategies == {"leastping", "fallback", "random"}

NoEngine == ""

Blank == [engine |-> NoEngine, alive |-> FALSE, delay |-> 0, error |-> FALSE]

------------------------------------------------------------------------------
(* The choice of engine.                                                   *)

xrayMatches(l) == l.scheme \in {"vless", "vmess", "ss", "trojan"}

matchAwgLink(l) == l.scheme = "awg"

\* The fallback engine takes every scheme of the model.
classify(l) ==
  IF xrayMatches(l) THEN "xray" ELSE IF matchAwgLink(l) THEN "awg" ELSE "mihomo"

\* Whether the pinned engine is offered the link: never another engine.
classifyOn(engine, l) ==
  CASE engine = "xray"   -> xrayMatches(l)
    [] engine = "awg"    -> matchAwgLink(l)
    [] engine = "mihomo" -> ~matchAwgLink(l)
    [] OTHER -> FALSE

\* The builder behind an engine's measurer; awg links are measured on
\* mihomo's WireGuard outbound.
built(engine, l) ==
  IF engine = "xray" THEN outboundFromLink(l) ELSE proxyFromLink(l)

------------------------------------------------------------------------------
(* Measure.                                                                *)

Running == {i \in DOMAIN going : going[i] \in {"first", "second"}}

Open(ph, links, engine) ==
  /\ phase' = ph
  /\ batch' = links
  /\ pinned' = engine
  /\ next' = 1
  /\ going' = [i \in DOMAIN links |-> "idle"]
  /\ result' = [i \in DOMAIN links |-> Blank]

\* The loop: a link no engine takes gets its error at once; any other waits
\* for a slot and gets a goroutine.
Launch ==
  /\ phase \in {"ping", "pick", "start"}
  /\ next <= Len(batch)
  /\ phase = "ping" \/ Len(batch) > 1   \* a pool of one is not probed
  /\ LET l == batch[next]
         engine == IF pinned = NoEngine THEN classify(l) ELSE pinned
     IN  IF pinned # NoEngine /\ ~classifyOn(pinned, l)
         THEN /\ result' = [result EXCEPT ![next] =
                              [Blank EXCEPT !.engine = engine, !.error = TRUE]]
              /\ going' = [going EXCEPT ![next] = "done"]
         ELSE /\ Cardinality(Running) < Concurrency
              /\ result' = [result EXCEPT ![next].engine = engine]
              /\ going' = [going EXCEPT ![next] = "first"]
  /\ next' = next + 1
  /\ UNCHANGED <<phase, batch, pinned, strategy, tunnel, chosen>>

\* The probe through a built outbound: an answer within the timeout, or none.
Answered(i) ==
  /\ \/ \E d \in 1..MaxDelay :
          result' = [result EXCEPT ![i].alive = TRUE, ![i].delay = d]
     \/ result' = [result EXCEPT ![i].error = TRUE]
  /\ going' = [going EXCEPT ![i] = "done"]

\* MUTANT of Fail: the goroutine that fails does not release its slot.
FailKeepsSlot(i) ==
  /\ result' = [result EXCEPT ![i].error = TRUE]
  /\ UNCHANGED going

Fail(i) ==
  /\ result' = [result EXCEPT ![i].error = TRUE]
  /\ going' = [going EXCEPT ![i] = "done"]

FallBack(i) ==
  /\ going' = [going EXCEPT ![i] = "second"]
  /\ result' = [result EXCEPT ![i].engine = "mihomo"]

\* The measurer of the engine the loop chose.
First(i) ==
  /\ going[i] = "first"
  /\ LET b == built(result[i].engine, batch[i])
     IN  \/ b = "gap" /\ pinned = NoEngine /\ FallBack(i)
         \/ (b = "refused" \/ (b = "gap" /\ pinned # NoEngine)) /\ Fail(i)
         \/ b \in Layers /\ Answered(i)
  /\ UNCHANGED <<phase, batch, pinned, next, strategy, tunnel, chosen>>

\* The fallback engine's, within what is left of the same timeout.
Second(i) ==
  /\ going[i] = "second"
  /\ IF proxyFromLink(batch[i]) = "refused" THEN Fail(i) ELSE Answered(i)
  /\ UNCHANGED <<phase, batch, pinned, next, strategy, tunnel, chosen>>

\* wg.Wait has returned.
Measured == next > Len(batch) /\ Running = {}

PingReturns ==
  /\ phase = "ping" /\ Measured
  /\ phase' = "measured"
  /\ UNCHANGED <<batch, pinned, next, going, result, strategy, tunnel, chosen>>

------------------------------------------------------------------------------
(* The AmneziaWG pool.                                                     *)

Alive == {i \in DOMAIN result : result[i].alive}

\* The links the pick may return: the first when none is alive.
pickAwgWinner ==
  IF Alive = {} THEN {1}
  ELSE CASE strategy = "random"   -> Alive
         [] strategy = "fallback" -> {i \in Alive : \A j \in Alive : i <= j}
         [] OTHER -> {i \in Alive : \A j \in Alive :
                        \/ result[i].delay < result[j].delay
                        \/ result[i].delay = result[j].delay /\ i <= j}

\* A pool of one is not probed.
Ready == Len(batch) = 1 \/ Measured

pickAwgConfig == IF Len(batch) = 1 THEN {1} ELSE pickAwgWinner

\* PickAwg: the probe's winner, and its own tunnel addresses if it has any.
PickAwg ==
  /\ phase = "pick" /\ Ready
  /\ \E i \in pickAwgConfig :
       IF batch[i].addresses
       THEN tunnel' = i /\ phase' = "picked"
       ELSE tunnel' = 0 /\ phase' = "refused"
  /\ UNCHANGED <<batch, pinned, next, going, result, strategy, chosen>>

\* MUTANT of chooseAwgLink: the pool is probed again whatever the start names.
chooseAwgLinkAgain(named) ==
  /\ Open("start", batch, NoEngine)
  /\ UNCHANGED chosen

\* chooseAwgLink, with the index the start names (0 for none): the caller's
\* pick, a refusal of an index outside the pool, or a probe of its own.
chooseAwgLink(named) ==
  \/ /\ named = 0
     /\ Open("start", batch, NoEngine)
     /\ UNCHANGED chosen
  \/ /\ named # 0
     /\ chosen' = IF named \in DOMAIN batch THEN named ELSE 0
     /\ phase' = IF named \in DOMAIN batch THEN "started" ELSE "refused"
     /\ UNCHANGED <<batch, pinned, next, going, result>>

\* The start of a caller that built the tunnel names its pick; one that did
\* not may name any index or none.
HandleAwgStart ==
  /\ \/ phase = "picked" /\ chooseAwgLink(tunnel)
     \/ phase = "pool" /\ \E named \in 0..(Len(batch) + 1) : chooseAwgLink(named)
  /\ UNCHANGED <<strategy, tunnel>>

StartPicks ==
  /\ phase = "start" /\ Ready
  /\ chosen' \in pickAwgConfig
  /\ phase' = "started"
  /\ UNCHANGED <<batch, pinned, next, going, result, strategy, tunnel>>

PickRequested ==
  /\ phase = "pool"
  /\ Open("pick", batch, NoEngine)
  /\ UNCHANGED <<strategy, tunnel, chosen>>

------------------------------------------------------------------------------
ProbeInit ==
  /\ \/ /\ phase = "ping" /\ strategy = "leastping"
        /\ batch \in Batches
        /\ pinned \in {NoEngine, "xray", "mihomo", "awg"}
     \/ phase = "pool" /\ strategy \in Strategies /\ batch \in Pools /\ pinned = NoEngine
  /\ next = 1
  /\ going = [i \in DOMAIN batch |-> "idle"]
  /\ result = [i \in DOMAIN batch |-> Blank]
  /\ tunnel = 0 /\ chosen = 0

Probes == Launch \/ \E i \in DOMAIN batch : First(i) \/ Second(i)

ProbeNext ==
  Probes \/ PingReturns \/ PickRequested \/ PickAwg \/ HandleAwgStart \/ StartPicks

------------------------------------------------------------------------------
(* Properties.                                                             *)

\* notcarried.go: a link is measured on the fallback engine after xray only
\* if nothing about its safety made xray refuse it, whatever else xray lacks
\* for it and in whatever order its builder meets the two.  A link an engine
\* answers for was carried under the security layer the link names, on the
\* engine the result names, which is the pinned one when one is pinned.
FallbackNeverWeakens ==
  /\ \A i \in DOMAIN going : going[i] = "second" => ~Unsafe(batch[i])
  /\ \A i \in DOMAIN result :
       result[i].alive =>
         /\ built(result[i].engine, batch[i]) = Named(batch[i])
         /\ pinned # NoEngine => result[i].engine = pinned

\* awg_pick.go: the start after a pick runs the link whose addresses the
\* caller built the tunnel with.  The link picked, then or by the start, is
\* alive when its probe found one alive and, under leastping, the fastest.
PickedTunnel ==
  /\ phase = "started" /\ tunnel # 0 => chosen = tunnel
  /\ \A i \in DOMAIN batch :
       (phase = "picked" /\ i = tunnel) \/ (phase = "started" /\ i = chosen) =>
         /\ Alive # {} => i \in Alive
         /\ strategy = "leastping" =>
              \A j \in Alive : result[i].delay <= result[j].delay

\* Every batch is answered: a measure, a pick and a start that probes all
\* come to an end, though links wait for each other's slots.
ProbeReturns ==
  phase \in {"ping", "pick", "start"} ~>
    phase \in {"measured", "picked", "started", "refused"}
==============================================================================
