-------------------------------- MODULE Links --------------------------------
(***************************************************************************)
(* What the core makes of the links of a request, one part per behaviour:  *)
(* the probe of a batch or an awg pool, the lists of servers and outbounds,*)
(* the sniffing exclusions, the two readers of an AmneziaWG configuration. *)
(***************************************************************************)
EXTENDS LinkProbe, ServerNames, LocalPrefixes, AwgConfig

VARIABLE part   \* the part this behaviour follows

vars == <<part, probeVars, namesVars, local, hole, awgVars>>

------------------------------------------------------------------------------
(* The links of the instance.                                              *)

Plain ==
  [scheme |-> "vless", lacks |-> "nothing", type |-> "tcp", header |-> "none",
   security |-> "tls", skips |-> FALSE, pins |-> 0, ech |-> "", enc |-> "none",
   public |-> TRUE, legacy |-> FALSE, cipher |-> "aead", pbk |-> TRUE,
   spx |-> FALSE, knob |-> TRUE, addresses |-> TRUE]

Types == {"tcp", "ws", "grpc", "httpupgrade", "xhttp", "h2", "kcp"}
Securities == {NoSecurity, "tls", "reality", "xtls"}

\* Per protocol, every combination of the fields its two builders read.
VlessLinks ==
  {[Plain EXCEPT !.type = t, !.header = h, !.security = s, !.skips = k,
                 !.enc = e, !.public = b, !.pins = p, !.lacks = m] :
     t \in Types, h \in {"none", "http"}, s \in Securities, k \in BOOLEAN,
     e \in {"none", "good", "bad"}, b \in BOOLEAN, p \in {0, 2},
     m \in {"nothing", "user"}}

VmessLinks ==
  {[Plain EXCEPT !.scheme = "vmess", !.type = t, !.header = h, !.security = s,
                 !.skips = k, !.legacy = a, !.cipher = c, !.ech = e] :
     t \in Types, h \in {"none", "http", "srtp"}, s \in Securities, k \in BOOLEAN,
     a \in BOOLEAN, c \in {"aead", "none", "weak"}, e \in {"", "switch", "query"}}

TrojanLinks ==
  {[Plain EXCEPT !.scheme = "trojan", !.type = t, !.header = h, !.security = s,
                 !.skips = k, !.pbk = b, !.spx = x] :
     t \in Types, h \in {"none", "http"}, s \in Securities, k \in BOOLEAN,
     b \in BOOLEAN, x \in BOOLEAN}

OtherLinks ==
  {[Plain EXCEPT !.scheme = c, !.lacks = m, !.security = s, !.cipher = y, !.knob = k] :
     c \in {"ss", "hysteria2", "tuic", "anytls", "awg"},
     m \in {"nothing", "user", "port"}, s \in Securities, y \in {"aead", "weak"},
     k \in BOOLEAN}

\* A link of each fate: carried by xray, moved, refused, mihomo's own, awg.
Fates ==
  {Plain, [Plain EXCEPT !.type = "h2"],
   [Plain EXCEPT !.type = "h2", !.skips = TRUE],
   [Plain EXCEPT !.scheme = "tuic"],
   [Plain EXCEPT !.scheme = "awg"]}

LinkBatches ==
  {<<l>> : l \in VlessLinks \cup VmessLinks \cup TrojanLinks \cup OtherLinks}
    \cup {<<a, b, c>> : a \in Fates, b \in Fates, c \in Fates}

AwgLinks == {[Plain EXCEPT !.scheme = "awg", !.addresses = a] : a \in BOOLEAN}

LinkPools == {<<l>> : l \in AwgLinks} \cup (AwgLinks \X AwgLinks)
               \cup (AwgLinks \X AwgLinks \X AwgLinks)

LinkRemarks == {<<>>, <<"a">>, <<"a", 2>>, <<"DIRECT">>, <<"proxy-", 1>>}

------------------------------------------------------------------------------
NoProbe ==
  /\ phase = "none" /\ batch = <<>> /\ pinned = NoEngine /\ next = 1 /\ going = <<>>
  /\ result = <<>> /\ strategy = "leastping" /\ tunnel = 0 /\ chosen = 0

Init ==
  \/ part = "probe" /\ ProbeInit /\ NamesInit /\ local = {} /\ hole = <<>> /\ AwgInit
  \/ part = "names" /\ NoProbe /\ NamesInit /\ local = {} /\ hole = <<>> /\ AwgInit
  \/ part = "prefixes" /\ NoProbe /\ NamesInit /\ PrefixInit /\ AwgInit
  \/ part = "awg" /\ NoProbe /\ NamesInit /\ local = {} /\ hole = <<>> /\ AwgInit

ProbePart ==
  part = "probe" /\ ProbeNext /\ UNCHANGED <<part, namesVars, local, hole, awgVars>>

NamesPart ==
  part = "names" /\ NamesNext /\ UNCHANGED <<part, probeVars, local, hole, awgVars>>

AwgPart ==
  part = "awg" /\ AwgNext /\ UNCHANGED <<part, probeVars, namesVars, local, hole>>

Next == ProbePart \/ NamesPart \/ AwgPart

Spec == Init /\ [][Next]_vars

\* The loop, the goroutines and the code after them run on; a caller need
\* not come back.
FairSpec ==
  Spec /\ WF_vars(/\ part = "probe"
                  /\ Probes \/ PingReturns \/ PickAwg \/ StartPicks
                  /\ UNCHANGED <<part, namesVars, local, hole, awgVars>>)
==============================================================================
