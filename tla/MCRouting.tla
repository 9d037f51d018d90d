----------------------------- MODULE MCRouting -----------------------------
(***************************************************************************)
(* Instance of RoutingEngines: every profile of up to MaxEntries matchers  *)
(* from a pool that overlaps in every way the order tells apart.           *)
(***************************************************************************)
EXTENDS RoutingEngines

M(prefix, value) == [prefix |-> prefix, value |-> value]

\* x.a.r is under a.r and r; shop is another name under r.
XAR == <<"x", "a", "r">>
AR == <<"a", "r">>
SR == <<"s", "r">>
Names == {XAR, AR, SR}

V4Near == <<"0", "1", "1">>
V4Far == <<"0", "1", "0">>
V4Lan == <<"0", "0", "0">>
V6 == <<"1", "0", "0", "0">>

MCMatcher == {
    M("", <<"", "r">>), M("keyword", <<"k">>),
    M("", <<"0", "1">>), M("geoip", <<"g">>), M("process", <<"p">>)}

MCCategory == <<"k">> :> {XAR, SR} @@ <<"g">> :> {V4Near, V4Lan, V6} @@ <<".">> :> Names
MCResolve == XAR :> {V4Near, V4Far} @@ AR :> {V4Lan, V6} @@ SR :> {}
MCLocal == {<<"0", "0">>}

F(name, ips, app, udp, port53) ==
    [name |-> name, ips |-> ips, app |-> app, udp |-> udp, port53 |-> port53]
NoApp == <<>>
App == <<"p">>

MCFlow == {
    F(XAR, {}, NoApp, FALSE, FALSE), F(AR, {}, NoApp, FALSE, FALSE), F(SR, {}, App, FALSE, FALSE),
    F(XAR, {}, App, FALSE, FALSE), F(AR, {V4Lan}, NoApp, TRUE, FALSE), F(XAR, {V4Near}, App, TRUE, FALSE),
    F(<<>>, {V4Near}, NoApp, FALSE, FALSE), F(<<>>, {V4Far}, App, FALSE, FALSE),
    F(<<>>, {V4Lan}, App, TRUE, TRUE), F(<<>>, {V6}, NoApp, TRUE, FALSE)}

C(mode, strategy, local, v6, udp) ==
    [mode |-> mode, strategy |-> strategy, localNetworks |-> local,
     disableIPv6 |-> v6, disableUDP |-> udp]
MCConfig == {
    C("direct-all", "IPIfNonMatch", TRUE, FALSE, TRUE), C("proxy-all", "AsIs", FALSE, TRUE, TRUE),
    C("proxy-all", "IPOnDemand", TRUE, TRUE, FALSE)}

MCDns == [mode : {"fake-ip", "normal"}, servers : {<<"tls", "https">>, <<"tls">>},
          directServers : {<<"">>}, filter : {<<M("domain", AR)>>}]

\* A name is answered by the resolver meant for it (dns.go): in plain DNS a
\* direct resolver is asked first only for names that go direct, under fake-ip
\* the pool answers every name outside the filter and no other.
ResolversKeepToTheirNames ==
    DirectResolverScope(MCDns, Names) /\ FakeIpAnswers(MCDns, Names)
=============================================================================
