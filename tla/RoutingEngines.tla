--------------------------- MODULE RoutingEngines ---------------------------
(***************************************************************************)
(* The rules each engine is given for a profile, and what they make of a   *)
(* flow: xrayconfig.applyRouting, mihomoconfig.buildRules, the desktop     *)
(* dialer in front of either (core/bridge_proxy.go), and the DNS servers   *)
(* of an xray session (xrayconfig/dns.go).                                 *)
(*                                                                         *)
(* A rule is the inbounds it applies to, the sets of entries of which the  *)
(* flow must match one each, whether it takes only UDP outside port 53,    *)
(* the outcome, and the tier whose own direct outbound carries it (0: the  *)
(* plain one).  Both engines take the first rule that matches.             *)
(***************************************************************************)
EXTENDS Routing

Inbound == {"app", "force", "echo"}

Rule(inbounds, conditions, out) ==
    [inbounds |-> inbounds, conditions |-> conditions, udpNot53 |-> FALSE,
     out |-> out, tier |-> 0]

Cidrs(prefixes) == {[kind |-> "cidr", value |-> p, target |-> "none"] : p \in prefixes}
anyDomain == {[kind |-> "regexp", value |-> <<".">>, target |-> "none"]}
anyIP == Cidrs({<<"0">>, <<"1">>})
LAN == Cidrs(LocalNetworkCIDRs)

\* One rule of a step; the fields of an xray rule, and the operands of a
\* mihomo AND line, must all match.
StepRule(step, inbounds, out) ==
    Rule(inbounds,
         {Range(step.entries)} \union (IF step.also = <<>> THEN {} ELSE {Range(step.also)}),
         out)

stepRules(steps, inbounds) ==
    [k \in DOMAIN steps |-> StepRule(steps[k], inbounds, steps[k].target)]

blockSteps(steps) == SelectSeq(steps, LAMBDA s : s.target = "block" /\ s.also = <<>>)

AllTiers(Of(_)) == FlattenSeq([i \in DOMAIN tiers |-> Of(i)])

When(condition, rules) == IF condition THEN rules ELSE <<>>

KillSwitches ==
    When(config.disableIPv6, <<Rule(Inbound, {Cidrs({<<"1">>})}, "block")>>)
      \o When(config.disableUDP, <<[Rule(Inbound, {}, "block") EXCEPT !.udpNot53 = TRUE]>>)

\* What both engines give the per-app VPN flows: every tier's block, the local
\* networks for a flow without a name, then the proxy.
ForceRules ==
    AllTiers(LAMBDA i : stepRules(blockSteps(Steps(tiers[i])), {"force"}))
      \o When(config.localNetworks,
              <<Rule({"force"}, {anyDomain}, "proxy"), Rule({"force"}, {LAN}, "direct")>>)
      \o <<Rule({"force"}, {}, "proxy")>>

-----------------------------------------------------------------------------
(* xray. *)

tiersHoldIPs ==
    \E i \in DOMAIN tiers : \E j \in DOMAIN Entries(tiers[i]) : ByAddress(Entries(tiers[i])[j])

WaitsForIP == config.strategy = "IPIfNonMatch" /\ tiersHoldIPs

isDirectAddress(e) == e.target = "direct" /\ ByAddress(e)

\* The tier whose outbound an address entry's direct takes: in proxy-all its
\* own, which refuses every address the entries do not allow.
directByIP(i, step) ==
    IF config.mode = "proxy-all" /\ step.target = "direct" /\ ByAddress(step.entries[1])
    THEN i ELSE 0

XrayTier(i) ==
    LET steps == Steps(tiers[i])
        rules == stepRules(steps, Inbound)
    IN [k \in DOMAIN steps |-> [rules[k] EXCEPT !.tier = directByIP(i, steps[k])]]

\* Mutant: the local networks ahead of the rule that keeps names off them.
XrayLocalFirst ==
    <<Rule(Inbound, {LAN}, "direct"),
      Rule({"app"}, {anyDomain} \union (IF WaitsForIP THEN {LAN} ELSE {}), ModeOutcome)>>

XrayLocal ==
    <<Rule({"app"}, {anyDomain} \union (IF WaitsForIP THEN {LAN} ELSE {}), ModeOutcome),
      Rule(Inbound, {LAN}, "direct")>>

applyRouting ==
    KillSwitches
      \o <<Rule({"echo"}, {}, "proxy")>>
      \o When(routingHasForceProxy, ForceRules)
      \o AllTiers(XrayTier)
      \o When(config.localNetworks, XrayLocal)
      \o <<Rule({"app"}, IF WaitsForIP THEN {anyIP} ELSE {}, ModeOutcome)>>

\* Mutant: only the entries that allow, so one ahead of them is forgotten.
directFinalRulesAllowOnly(entries) ==
    LET directs == SelectSeq(entries, isDirectAddress)
    IN [k \in DOMAIN directs |-> [allow |-> TRUE, entry |-> directs[k]]]

\* The tier's address entries up to its last direct one, then nothing passes.
directFinalRules(entries) ==
    LET addresses == SelectSeq(entries, ByAddress)
        directs == {k \in DOMAIN addresses : isDirectAddress(addresses[k])}
        end == IF directs = {} THEN 0 ELSE CHOOSE k \in directs : \A j \in directs : k >= j
    IN [k \in 1..end |-> [allow |-> isDirectAddress(addresses[k]), entry |-> addresses[k]]]

\* tierDirectOutbound: whether the freedom outbound of a tier dials an address.
Dials(rules, ip) ==
    LET hits == {k \in DOMAIN rules : Matches(rules[k].entry, [name |-> <<>>, ips |-> {ip}, app |-> <<>>])}
    IN hits # {} /\ rules[CHOOSE k \in hits : \A j \in hits : k <= j].allow

-----------------------------------------------------------------------------
(* mihomo. *)

\* Mutant: a profile without blocks sends the per-app flows straight to the
\* proxy, its local networks forgotten.
forceFlowsNeedSubRuleBlocks == HasBlock

forceFlowsNeedSubRule == HasBlock \/ config.localNetworks

buildRules(forceProxy) ==
    KillSwitches
      \o When(forceProxy,
              When(forceFlowsNeedSubRule, ForceRules)
                \o When(~forceFlowsNeedSubRule, <<Rule({"force"}, {}, "proxy")>>)
                \o <<Rule({"force"}, {}, "block")>>)
      \o AllTiers(LAMBDA i : stepRules(Steps(tiers[i]), Inbound))
      \o When(config.localNetworks,
              <<Rule(Inbound, {anyDomain}, ModeOutcome), Rule(Inbound, {LAN}, "direct")>>)
      \o <<Rule(Inbound, {}, ModeOutcome)>>

-----------------------------------------------------------------------------
(* External: how the engines evaluate their rules. *)

RuleMatches(r, f, inbound) ==
    /\ inbound \in r.inbounds
    /\ r.udpNot53 => f.udp /\ ~f.port53
    /\ \A c \in r.conditions : \E e \in c :
            IF e.value = <<".">> THEN f.name # <<>> ELSE Matches(e, f)

\* The outcome and the tier of the first rule that matches.
FirstMatch(rules, f, inbound, none) ==
    LET hits == {k \in DOMAIN rules : RuleMatches(rules[k], f, inbound)}
        first == CHOOSE k \in hits : \A j \in hits : k <= j
    IN IF hits = {} THEN [out |-> none, tier |-> 0]
       ELSE [out |-> rules[first].out, tier |-> rules[first].tier]

\* With IPv6 off the resolvers answer no AAAA (queryStrategy UseIPv4).
Resolved(f) ==
    IF f.name = <<>> THEN {}
    ELSE {ip \in Resolve[f.name] : config.disableIPv6 => ip[1] = "0"}

WithIPs(f, ips) == [f EXCEPT !.ips = ips]

\* xray's router resolves a name never, when no rule took it, or at its first
\* IP rule; a flow with an address of its own keeps that one.
XrayVerdict(rules, f, inbound) ==
    LET strategy == IF f.ips # {} THEN "AsIs" ELSE config.strategy
        resolved == WithIPs(f, Resolved(f))
    IN CASE strategy = "AsIs" -> FirstMatch(rules, f, inbound, "proxy")
         [] strategy = "IPOnDemand" -> FirstMatch(rules, resolved, inbound, "proxy")
         [] OTHER -> LET first == FirstMatch(rules, f, inbound, "none")
                     IN IF first.out # "none" THEN first
                        ELSE FirstMatch(rules, resolved, inbound, "proxy")

MihomoVerdict(rules, f, inbound) == FirstMatch(rules, f, inbound, "direct")

-----------------------------------------------------------------------------
(* The desktop dialer: the flow's app decides before the engine sees it.   *)

\* processSplitProxy: "direct" and "block" never reach the engine, "proxy"
\* enters it as a per-app VPN flow.
decide(f) == IF f.app = <<>> THEN "none" ELSE ProcessRules(f.app)

BridgedInbound(f) ==
    IF decide(f) = "proxy" /\ routingHasForceProxy THEN "force" ELSE "app"

Dialed(f, verdict) ==
    IF decide(f) \in {"direct", "block"} THEN [out |-> decide(f), tier |-> 0] ELSE verdict

XrayBridged(rules, f) == Dialed(f, XrayVerdict(rules, f, BridgedInbound(f)))
MihomoBridged(rules, f) == Dialed(f, MihomoVerdict(rules, f, BridgedInbound(f)))

-----------------------------------------------------------------------------
(* The DNS servers of an xray session.  d: mode, the schemes of the servers *)
(* and direct servers ("" for a plain one), and the fake-ip filter.         *)

NameServer(role) == [role |-> role, domains |-> {}, skipFallback |-> FALSE]

\* xray has no DoT; such a server is dropped.
plainNameServers(schemes, role) ==
    LET kept == SelectSeq(schemes, LAMBDA s : s # "tls")
    IN [k \in DOMAIN kept |-> NameServer(role)]

\* Mutant: the copies also take part in the fallback.
scopedCopiesInFallback(list, domains) ==
    IF domains = {} THEN <<>>
    ELSE [k \in DOMAIN list |-> [list[k] EXCEPT !.domains = domains]]

scopedCopies(list, domains) ==
    IF domains = {} THEN <<>>
    ELSE [k \in DOMAIN list |-> [list[k] EXCEPT !.domains = domains, !.skipFallback = TRUE]]

domainMatchers(matchers) ==
    {e \in Range(Listed(matchers, "none")) : plane(e) = "name"}

tierDomains(target) ==
    UNION {domainMatchers(tiers[i][target]) : i \in DOMAIN tiers}

applyPlainDNS(d) ==
    LET general == plainNameServers(d.servers, "general")
        direct == plainNameServers(d.directServers, "direct")
        proxyScoped == scopedCopies(general, tierDomains("proxy"))
    IN CASE direct = <<>> -> general
         [] direct # <<>> /\ config.mode = "direct-all" -> proxyScoped \o direct \o general
         [] direct # <<>> /\ config.mode # "direct-all" ->
                IF tierDomains("direct") = {} THEN general
                ELSE proxyScoped \o scopedCopies(direct, tierDomains("direct")) \o general

applyFakeDNS(d) ==
    LET real == plainNameServers(IF d.servers = <<>> THEN <<"">> ELSE d.servers, "general")
        exclude == domainMatchers(d.filter)
    IN When(real # <<>>, scopedCopies(SubSeq(real, 1, 1), exclude))
         \o <<NameServer("fakedns")>>
         \o plainNameServers(d.directServers, "direct")
         \o real

ApplyDNS(d) == IF d.mode = "fake-ip" THEN applyFakeDNS(d) ELSE applyPlainDNS(d)

\* External: xray asks the servers whose domains hold the name, then the ones
\* that are not kept out of the fallback.
Asked(servers, name) ==
    LET Holds(s) == \E e \in s.domains : Matches(e, [name |-> name, ips |-> {}, app |-> <<>>])
    IN SelectSeq(servers, Holds)
         \o SelectSeq(servers, LAMBDA s : ~Holds(s) /\ ~s.skipFallback)

\* Only an app's query may be answered by fakedns; the engine's own skip it.
InternalAsked(servers, name) == SelectSeq(Asked(servers, name), LAMBDA s : s.role # "fakedns")

-----------------------------------------------------------------------------
(* What the documentation of Profile promises, as a reference decision.    *)

Killed(f) ==
    \/ config.disableIPv6 /\ \E ip \in f.ips : ip[1] = "1"
    \/ config.disableUDP /\ f.udp /\ ~f.port53

\* all: the entries of each tier.
TiersVerdict(all, f) ==
    LET verdicts == [i \in DOMAIN all |-> TierVerdict(all[i], f)]
        decided == {i \in DOMAIN all : verdicts[i] # "none"}
    IN IF decided = {} THEN "none"
       ELSE verdicts[CHOOSE i \in decided : \A j \in decided : i <= j]

OnLan(f) == config.localNetworks /\ f.name = <<>> /\ \E e \in LAN : Matches(e, f)

Documented(all, f) ==
    LET verdict == TiersVerdict(all, f)
    IN IF Killed(f) THEN "block"
       ELSE IF verdict # "none" THEN verdict
       ELSE IF OnLan(f) THEN "direct" ELSE ModeOutcome

\* A per-app VPN flow: every other outcome than a block becomes proxy.
ForceDocumented(all, f) ==
    LET blocked == \E i \in DOMAIN all : \E e \in Range(all[i]) :
                        e.target = "block" /\ Matches(e, f)
    IN IF Killed(f) \/ blocked THEN "block"
       ELSE IF OnLan(f) THEN "direct" ELSE "proxy"

BridgeDocumented(f, app, force) ==
    CASE decide(f) \in {"direct", "block"} -> decide(f)
      [] decide(f) = "proxy" -> force
      [] OTHER -> app

\* A name under a resolving strategy: at once, or only when no tier took it;
\* one that does not resolve then takes the first outbound.
XrayDocumented(all, f) ==
    LET resolved == WithIPs(f, Resolved(f))
        waits == f.ips = {} /\ config.strategy = "IPIfNonMatch"
                   /\ ~Killed(f) /\ TiersVerdict(all, f) = "none"
    IN IF f.ips = {} /\ config.strategy = "IPOnDemand" THEN Documented(all, resolved)
       ELSE IF ~waits THEN Documented(all, f)
       ELSE IF tiersHoldIPs /\ Resolved(f) = {} THEN "proxy"
       ELSE Documented(all, resolved)

XrayForceDocumented(all, f) ==
    ForceDocumented(all, IF f.ips = {} /\ config.strategy = "IPOnDemand"
                         THEN WithIPs(f, Resolved(f)) ELSE f)

Address == UNION {Resolve[name] : name \in DOMAIN Resolve} \union UNION {f.ips : f \in Flow}

TierEntries == [i \in DOMAIN tiers |-> Entries(tiers[i])]

-----------------------------------------------------------------------------
(* Properties. *)

\* Tier.Steps with its guard steps is first-match evaluation of the tier as
\* Tier.Entries orders it, with a block yielding only inside its own plane.
StepsMeanTier ==
    \A i \in DOMAIN tiers :
        LET steps == Steps(tiers[i])
            entries == Entries(tiers[i])
        IN \A f \in Flow : StepVerdict(steps, f) = TierVerdict(entries, f)

\* The rules applyRouting writes, behind the desktop dialer, send every flow
\* where the documented priority sends it, under each domain strategy, and no
\* profile keeps the exit-address echo, a TCP dial by name under its own
\* inbound, from the proxy.
XrayRoutesAsDocumented ==
    \A rules \in {applyRouting}, all \in {TierEntries}, f \in Flow :
        \A documented \in {XrayDocumented(all, f)} :
            /\ XrayVerdict(rules, f, "app").out = documented
            /\ XrayBridged(rules, f).out
                 = BridgeDocumented(f, documented, XrayForceDocumented(all, f))
            /\ f.name # <<>> /\ f.ips = {} /\ ~f.udp =>
                 XrayVerdict(rules, f, "echo").out = "proxy"

\* The rule lines buildRules writes, alone and behind the desktop dialer, send
\* every flow where the documented priority sends it.
MihomoRoutesAsDocumented ==
    \A native \in {buildRules(FALSE)}, bridge \in {buildRules(routingHasForceProxy)},
       all \in {TierEntries}, f \in Flow :
        \A documented \in {Documented(all, f)} :
            /\ MihomoVerdict(native, f, "app").out = documented
            /\ MihomoBridged(bridge, f).out
                 = BridgeDocumented(f, documented, ForceDocumented(all, f))

\* In proxy-all a flow xray sends to a tier's own direct outbound is dialed
\* only at an address whose first address entry in that tier is direct, though
\* the router chose by any address of the name and the outbound resolves it
\* again, to whatever addresses it then has.
DirectDialsHeld ==
    \A rules \in {applyRouting}, all \in {TierEntries}, f \in Flow :
        \A tier \in {XrayVerdict(rules, f, "app").tier} \ {0} :
        \A ip \in IF f.ips # {} THEN f.ips ELSE Address :
            Dials(directFinalRules(all[tier]), ip) =>
               TierVerdict(all[tier],
                           [f EXCEPT !.name = <<>>, !.ips = {ip}, !.app = <<>>]) = "direct"

\* A direct resolver is asked first only for a name no tier lists as proxied,
\* and in proxy-all only for one some tier lists as direct (with a general
\* resolver configured, fake-ip off).
DirectResolverScope(DnsConfig, Names) ==
    \A d \in DnsConfig, name \in Names :
        d.mode # "fake-ip" /\ plainNameServers(d.servers, "general") # <<>> =>
            LET asked == Asked(ApplyDNS(d), name)
                Lists(target) == \E e \in tierDomains(target) :
                                    Matches(e, [name |-> name, ips |-> {}, app |-> <<>>])
            IN asked[1].role = "direct" =>
                    ~Lists("proxy") /\ (config.mode = "direct-all" \/ Lists("direct"))

\* Under fake-ip every name the filter does not hold is answered from the fake
\* pool, every name it holds by a real resolver when one is usable, and the
\* engine's own lookups reach the direct resolvers first.
FakeIpAnswers(DnsConfig, Names) ==
    \A d \in DnsConfig, name \in Names :
        d.mode = "fake-ip" =>
            LET servers == ApplyDNS(d)
                held == \E e \in domainMatchers(d.filter) :
                            Matches(e, [name |-> name, ips |-> {}, app |-> <<>>])
                usable == \E s \in Range(servers) : s.role = "general"
                direct == \E s \in Range(servers) : s.role = "direct"
                own == InternalAsked(servers, name)
            IN /\ (Asked(servers, name)[1].role = "fakedns") <=> ~(held /\ usable)
               /\ direct /\ ~held => own[1].role = "direct"
=============================================================================
