------------------------------ MODULE MCBringUp ------------------------------
(***************************************************************************)
(* BringUp for TLC: every engine in TUN mode, xray and mihomo as a proxy,  *)
(* with a geo folder of their own or none.                                 *)
(***************************************************************************)
EXTENDS BringUp

Tun(e, dir, servers) ==
    [engine |-> e, proxy |-> FALSE, fd |-> TRUE, dir |-> dir, servers |-> servers]
Proxy(e, dir, named) ==
    [engine |-> e, proxy |-> TRUE, fd |-> named, dir |-> dir, servers |-> {}]

\* awg and xray pin their servers; mihomo's bridge pins none.
MCRequest ==
    {Tun("xray", d, {"s1"}) : d \in {"", "d1"}}
    \union {Tun("mihomo", d, {}) : d \in {"", "d1"}}
    \union {Proxy(e, "", FALSE) : e \in {"xray", "mihomo"}}
    \union {Tun("awg", "", {"s2"})}

=============================================================================
