------------------------------ MODULE Routing ------------------------------
(***************************************************************************)
(* The routing profile and its evaluation order (internal/routing): how an *)
(* entry is classified, how a tier's entries are ordered, and the          *)
(* first-match steps a tier becomes.  The profile is the state: a caller   *)
(* grows it one matcher at a time, and the properties are about every      *)
(* profile met on the way.                                                 *)
(*                                                                         *)
(* Text is a sequence of parts.  A name is the sequence of its labels; an  *)
(* address is the sequence of its bits, the first one being its family, so *)
(* that a CIDR is a prefix, "::/0" is <<"1">> and "0.0.0.0/0" is <<"0">>.  *)
(* A matcher is its text before the colon ("" when there is none) and the  *)
(* parts after it.                                                         *)
(***************************************************************************)
EXTENDS Integers, Sequences, FiniteSets, SequencesExt

CONSTANTS
    Matcher,        \* the matchers a caller may list
    Config,         \* the settings beside the tiers: mode, strategy, switches
    Flow,           \* the flows the properties are about
    Category,       \* external: what a geosite:, geoip:, keyword: or regexp: value holds
    Resolve,        \* external: the addresses a name resolves to
    LocalNetworkCIDRs,
    MaxTiers,       \* bound: tiers of a profile
    MaxEntries      \* bound: matchers of a profile

VARIABLES tiers, config
vars == <<tiers, config>>

Bits == {"0", "1"}
\* Bits of an address after its family bit; IPv4 is the shorter.
AddressBits(family) == IF family = "0" THEN 2 ELSE 3

-----------------------------------------------------------------------------
(* Classification. *)

isIPOrCIDR(text) == text # <<>> /\ Range(text) \subseteq Bits

PrefixKind == [geoip |-> "geoip", geosite |-> "geosite", domain |-> "suffix",
               full |-> "full", keyword |-> "keyword", regexp |-> "regexp",
               regex |-> "regexp", process |-> "process"]

\* strings.Trim(val, "."): a dot at either end is an empty label there.
TrimDots(labels) ==
    LET kept == {i \in DOMAIN labels : labels[i] # ""}
    IN IF kept = {} THEN <<>>
       ELSE SubSeq(labels, CHOOSE i \in kept : \A j \in kept : i <= j,
                           CHOOSE i \in kept : \A j \in kept : i >= j)

domainEntry(kind, labels) ==
    IF TrimDots(labels) = <<>> THEN <<>>
    ELSE <<[kind |-> kind, value |-> TrimDots(labels)]>>

\* The kind and value of a matcher, as a sequence of one, or of none when the
\* matcher is refused.
Classify(m) ==
    CASE m.prefix = "" /\ isIPOrCIDR(m.value) -> <<[kind |-> "cidr", value |-> m.value]>>
      [] m.prefix \in DOMAIN PrefixKind ->
            LET kind == PrefixKind[m.prefix]
            IN IF m.value = <<>> THEN <<>>
               ELSE IF kind \in {"suffix", "full"} THEN domainEntry(kind, m.value)
               ELSE <<[kind |-> kind, value |-> m.value]>>
      [] m.prefix = "" /\ ~isIPOrCIDR(m.value) -> domainEntry("suffix", m.value)
      [] OTHER -> domainEntry("suffix", <<m.prefix>> \o m.value)

-----------------------------------------------------------------------------
(* The order of a tier's entries. *)

ByAddress(e) == e.kind \in {"cidr", "geoip"}

plane(e) ==
    CASE e.kind = "process" -> "app"
      [] ByAddress(e) -> "address"
      [] OTHER -> "name"

\* net.ParseCIDR keeps the network's prefix; a bare IP has every bit.
hostBits(cidr) == AddressBits(cidr[1]) - (Len(cidr) - 1)

evaluationKey(e) ==
    LET outcome == CASE e.target = "block" -> 0 [] e.target = "direct" -> 1 [] OTHER -> 2
    IN CASE e.kind = "process" -> <<IF e.target = "block" THEN 0 ELSE 2, 0, 0, outcome>>
         [] e.kind = "full" -> <<1, 0, 0, outcome>>
         [] e.kind = "suffix" -> <<1, 1, 1 - Len(e.value), outcome>>
         [] e.kind = "cidr" -> <<1, 2, hostBits(e.value), outcome>>
         [] e.kind \in {"keyword", "regexp"} -> <<1, 3, 0, outcome>>
         [] OTHER -> <<1, 4, 0, outcome>>

LexLess(a, b) ==
    \E i \in DOMAIN a : a[i] < b[i] /\ \A j \in 1..(i - 1) : a[j] = b[j]

SortStable(entries) ==
    LET Before(i, j) == LexLess(Append(evaluationKey(entries[i]), i),
                                Append(evaluationKey(entries[j]), j))
        order == SortSeq([i \in DOMAIN entries |-> i], Before)
    IN [i \in DOMAIN entries |-> entries[order[i]]]

Listed(matchers, target) ==
    FlattenSeq([i \in DOMAIN matchers |->
        LET c == Classify(matchers[i])
        IN IF c = <<>> THEN <<>>
           ELSE <<[kind |-> c[1].kind, value |-> c[1].value, target |-> target]>>])

\* Block, direct and proxy list in this order, then the stable sort.
Entries(tier) ==
    SortStable(Listed(tier.block, "block") \o Listed(tier.direct, "direct")
                 \o Listed(tier.proxy, "proxy"))

-----------------------------------------------------------------------------
(* The steps of a tier. *)

\* The maximal runs of neighbours with the same key.
Runs(s, Key(_)) ==
    LET starts == SelectSeq([i \in DOMAIN s |-> i],
                            LAMBDA i : i = 1 \/ Key(s[i]) # Key(s[i - 1]))
        End(k) == IF k = Len(starts) THEN Len(s) ELSE starts[k + 1] - 1
    IN [k \in DOMAIN starts |-> SubSeq(s, starts[k], End(k))]

\* Mutant: the run is paired with the blocks alone, so an exception to a block
\* inside the other plane is lost.
guardStepsBlocksOnly(run, target, otherPlane) ==
    LET blocks == SelectSeq(otherPlane, LAMBDA e : e.target = "block")
    IN [k \in DOMAIN blocks |-> [entries |-> run, also |-> <<blocks[k]>>, target |-> "block"]]

\* The run paired with the other plane's entries up to that plane's last block.
guardSteps(run, target, otherPlane) ==
    LET blocks == {k \in DOMAIN otherPlane : otherPlane[k].target = "block"}
        last == IF blocks = {} THEN 0 ELSE CHOOSE k \in blocks : \A j \in blocks : k >= j
        Outcome(e) == IF e.target = "block" THEN "block" ELSE target
        groups == Runs(SubSeq(otherPlane, 1, last), Outcome)
    IN [k \in DOMAIN groups |->
            [entries |-> run, also |-> groups[k], target |-> Outcome(groups[k][1])]]

Steps(tier) ==
    LET entries == Entries(tier)
        Of(p) == SelectSeq(entries, LAMBDA e : plane(e) = p)
        PlaneAndTarget(e) == <<plane(e), e.target>>
        runs == Runs(entries, PlaneAndTarget)
        Guards(run) ==
            IF plane(run[1]) = "app" \/ run[1].target = "block" THEN <<>>
            ELSE guardSteps(run, run[1].target,
                            Of(IF plane(run[1]) = "name" THEN "address" ELSE "name"))
    IN FlattenSeq([k \in DOMAIN runs |->
            Append(Guards(runs[k]),
                   [entries |-> runs[k], also |-> <<>>, target |-> runs[k][1].target])])

-----------------------------------------------------------------------------
(* Per-app rules and the profile's other readings. *)

Apps == {m.value : m \in {x \in Matcher : x.prefix = "process"}}

\* Later writes win: every tier's block over every direct over every proxy.
ProcessRules(app) ==
    LET Lists(target) == \E i \in DOMAIN tiers : \E j \in DOMAIN tiers[i][target] :
                            Classify(tiers[i][target][j])
                                = <<[kind |-> "process", value |-> app]>>
    IN CASE Lists("block") -> "block"
         [] Lists("direct") -> "direct"
         [] Lists("proxy") -> "proxy"
         [] OTHER -> "none"

routingHasForceProxy == \E app \in Apps : ProcessRules(app) = "proxy"

HasBlock == \E i \in DOMAIN tiers : tiers[i].block # <<>>
ModeOutcome == IF config.mode = "direct-all" THEN "direct" ELSE "proxy"

-----------------------------------------------------------------------------
(* Growing a profile. *)

NoTier == [block |-> <<>>, direct |-> <<>>, proxy |-> <<>>]
Size == FoldSeq(LAMBDA t, n : n + Len(t.block) + Len(t.direct) + Len(t.proxy), 0, tiers)

Init == tiers = <<>> /\ config \in Config

AddTier ==
    /\ Len(tiers) < MaxTiers
    /\ tiers' = Append(tiers, NoTier)
    /\ UNCHANGED config

AddMatcher(target, m) ==
    /\ tiers # <<>> /\ Size < MaxEntries
    /\ tiers' = [tiers EXCEPT ![Len(tiers)][target] = Append(@, m)]
    /\ UNCHANGED config

Next ==
    \/ AddTier
    \/ \E target \in {"block", "direct", "proxy"}, m \in Matcher : AddMatcher(target, m)

Spec == Init /\ [][Next]_vars

-----------------------------------------------------------------------------
(* What an entry, a step and a tier say of a flow.  A flow carries a name  *)
(* (or <<>>), the addresses a rule may see, and the app it comes from (or  *)
(* <<>>, when its owner is not known).                                     *)

Matches(e, f) ==
    CASE e.kind = "suffix" -> IsSuffix(e.value, f.name)
      [] e.kind = "full" -> e.value = f.name
      [] e.kind \in {"keyword", "regexp", "geosite"} -> f.name \in Category[e.value]
      [] e.kind = "cidr" -> \E ip \in f.ips : IsPrefix(e.value, ip)
      [] e.kind = "geoip" -> f.ips \intersect Category[e.value] # {}
      [] e.kind = "process" -> e.value = f.app

MatchesSome(entries, f) == \E i \in DOMAIN entries : Matches(entries[i], f)

\* The reference for Steps, from the words of Tier.Steps and Tier.Entries: an
\* app block leads; a block that is the first match of its own plane beats the
\* other plane; otherwise the first match in entry order decides.
TierVerdict(entries, f) ==
    LET First(P(_)) == {i \in DOMAIN entries :
                            /\ P(entries[i]) /\ Matches(entries[i], f)
                            /\ \A j \in 1..(i - 1) :
                                  ~(P(entries[j]) /\ Matches(entries[j], f))}
        leading == First(LAMBDA e : plane(e) = "name")
                     \union First(LAMBDA e : plane(e) = "address")
                     \union First(LAMBDA e : plane(e) = "app")
    IN CASE \E i \in leading : entries[i].target = "block" -> "block"
         [] leading # {} -> entries[CHOOSE i \in leading : \A j \in leading : i <= j].target
         [] OTHER -> "none"

\* What the steps make of the flow: the first step that matches.
StepVerdict(steps, f) ==
    LET hits == {i \in DOMAIN steps :
                    /\ MatchesSome(steps[i].entries, f)
                    /\ steps[i].also = <<>> \/ MatchesSome(steps[i].also, f)}
    IN IF hits = {} THEN "none"
       ELSE steps[CHOOSE i \in hits : \A j \in hits : i <= j].target
=============================================================================
