----------------------------- MODULE ShareLinks -----------------------------
(***************************************************************************)
(* What each engine does with a share link: whether it builds an outbound  *)
(* for it and under which security layer, or refuses it.  xray tells two   *)
(* refusals apart.  A "gap" (NotCarriedError) is a capability xray lacks   *)
(* and another engine may have; a "refused" link is one no engine should   *)
(* be asked to run instead.                                                *)
(*                                                                         *)
(* A link is a record of the choices the builders tell apart:              *)
(*   scheme, lacks ("nothing", "user" or "port": the part that is missing  *)
(*   or unreadable), type and header (the transport), security, skips (asks*)
(*   to skip certificate verification), pins (pinned certificates), ech,   *)
(*   enc (VLESS encryption), public (the dial address is a public one),    *)
(*   legacy (alterId > 0), cipher, pbk and spx (REALITY's public key and   *)
(*   spider path), knob (a TUIC option value the engine knows).            *)
(* Names, paths, keys and passwords never decide anything here.            *)
(***************************************************************************)
EXTENDS Naturals

Layers == {"bare", "encrypted", "tls", "reality"}
NoSecurity == ""   \* a link without security=

layer(security, enc) ==
  IF security \in {"tls", "reality"} THEN security
  ELSE IF enc = "good" THEN "encrypted" ELSE "bare"

------------------------------------------------------------------------------
(* xray's builders (xrayconfig).                                           *)

\* A transport or TCP header xray dropped: the gap of buildStreamSettings.
streamGap(l) ==
  \/ l.type = "tcp" /\ l.header # "none"
  \/ l.type \notin {"tcp", "ws", "grpc", "httpupgrade", "xhttp"}

\* The errors of buildStreamSettings, for the security= it is handed.
streamRefused(l, security) ==
  \/ security = "tls" /\ l.skips
  \/ security \notin {NoSecurity, "tls", "reality"}

requireTransportSecurity(l, secured) == ~secured /\ l.public

\* MUTANT of outboundFromVLESS: the gap is returned as soon as it is found.
outboundFromVLESSGapFirst(l) ==
  IF l.lacks # "nothing" \/ streamRefused(l, l.security) \/ l.enc = "bad"
  THEN "refused"
  ELSE IF streamGap(l) THEN "gap"
  ELSE IF requireTransportSecurity(l, l.security # NoSecurity \/ l.enc = "good")
  THEN "refused" ELSE layer(l.security, l.enc)

\* Every safety check runs before the gap is returned.
outboundFromVLESS(l) ==
  IF \/ l.lacks # "nothing"
     \/ streamRefused(l, l.security)
     \/ l.enc = "bad"
     \/ requireTransportSecurity(l, l.security # NoSecurity \/ l.enc = "good")
  THEN "refused"
  ELSE IF streamGap(l) THEN "gap" ELSE layer(l.security, l.enc)

\* Trojan runs over TLS or REALITY; any other security= still means TLS.
outboundFromTrojan(l) ==
  LET s == IF l.security \in {"tls", "reality"} THEN l.security ELSE "tls"
  IN  IF l.lacks # "nothing" \/ streamRefused(l, s) THEN "refused"
      ELSE IF streamGap(l) THEN "gap" ELSE layer(s, "none")

outboundFromSS(l) ==
  IF l.lacks # "nothing" \/ l.cipher # "aead" THEN "refused" ELSE "bare"

outboundFromVMess(l) ==
  IF \/ l.lacks # "nothing"
     \/ l.cipher # "aead"
     \/ l.security = "reality"
     \/ streamRefused(l, l.security)
     \/ l.security = "tls" /\ l.ech = "switch"
  THEN "refused"
  ELSE IF l.legacy \/ streamGap(l) THEN "gap" ELSE layer(l.security, "none")

outboundFromLink(l) ==
  CASE l.scheme = "vless"  -> outboundFromVLESS(l)
    [] l.scheme = "vmess"  -> outboundFromVMess(l)
    [] l.scheme = "ss"     -> outboundFromSS(l)
    [] l.scheme = "trojan" -> outboundFromTrojan(l)
    [] OTHER -> "refused"

------------------------------------------------------------------------------
(* mihomo's builders (mihomoconfig).                                       *)

\* The layer mihomo's outbound dials a proxy map under.  REALITY options
\* are read on the transports "carriers" names; elsewhere it dials TLS.
dialledUnder(l, security, enc, carriers) ==
  IF security = "reality" /\ l.type \notin carriers THEN "tls"
  ELSE layer(security, enc)

\* More than one pinned certificate, or an ech that is not a config list.
applyCertChecks(l) == l.pins > 1 \/ l.ech = "query"

vlessCarriers == {"tcp", "grpc", "xhttp", "h2"}

vlessProxy(l) ==
  IF \/ l.lacks = "port"
     \/ l.enc = "bad"
     \/ l.security = "tls" /\ applyCertChecks(l)
     \/ l.security = "reality" /\ l.type \notin {"tcp", "grpc", "xhttp", "h2"}
     \/ l.security \notin {NoSecurity, "tls", "reality"}
  THEN "refused"
  ELSE dialledUnder(l, l.security, l.enc, vlessCarriers)

applyTrojanReality(l) ==
  /\ l.security = "reality"
  /\ ~l.pbk \/ l.type \notin {"tcp", "grpc"} \/ l.spx

applyTrojanTransport(l) ==
  \/ l.type = "tcp" /\ l.header # "none"
  \/ l.type \notin {"tcp", "ws", "httpupgrade", "grpc"}

trojanProxy(l) ==
  IF \/ l.lacks = "port"
     \/ applyCertChecks(l)
     \/ applyTrojanReality(l)
     \/ applyTrojanTransport(l)
  THEN "refused"
  ELSE dialledUnder(l, IF l.security = "reality" THEN "reality" ELSE "tls",
                    "none", {"tcp", "grpc"})

applyVmessTransport(l) ==
  \/ l.type = "tcp" /\ l.header \notin {"none", "http"}
  \/ l.type \notin {"tcp", "h2", "ws", "httpupgrade", "grpc"}

vmessProxy(l) ==
  IF \/ l.lacks # "nothing"
     \/ l.cipher \notin {"aead", "none"}
     \/ applyVmessTransport(l)
     \/ l.security \notin {NoSecurity, "tls"}
     \/ l.security = "tls" /\ applyCertChecks(l)
  THEN "refused"
  ELSE layer(l.security, "none")

ssProxy(l) == IF l.lacks # "nothing" THEN "refused" ELSE "bare"

hysteria2Proxy(l) == IF l.lacks = "port" THEN "refused" ELSE "tls"

\* Only plain TLS: the protocol's outbound has no other layer.
requireTLSSecurity(l) == l.security \notin {NoSecurity, "tls"}

tuicProxy(l) ==
  IF l.lacks # "nothing" \/ requireTLSSecurity(l) \/ ~l.knob \/ applyCertChecks(l)
  THEN "refused" ELSE "tls"

anytlsProxy(l) ==
  IF \/ l.lacks # "nothing" \/ requireTLSSecurity(l)
     \/ l.type # "tcp" \/ applyCertChecks(l)
  THEN "refused" ELSE "tls"

wireguardProxy(l) == IF l.lacks # "nothing" THEN "refused" ELSE "encrypted"

proxyFromLink(l) ==
  CASE l.scheme = "vless"     -> vlessProxy(l)
    [] l.scheme = "ss"        -> ssProxy(l)
    [] l.scheme = "trojan"    -> trojanProxy(l)
    [] l.scheme = "hysteria2" -> hysteria2Proxy(l)
    [] l.scheme = "tuic"      -> tuicProxy(l)
    [] l.scheme = "anytls"    -> anytlsProxy(l)
    [] l.scheme = "vmess"     -> vmessProxy(l)
    [] l.scheme = "awg"       -> wireguardProxy(l)
    [] OTHER -> "refused"

------------------------------------------------------------------------------
(* What a link itself says, read without regard to any builder.            *)

\* The layer the link names.
Named(l) ==
  CASE l.scheme \in {"hysteria2", "tuic", "anytls"} -> "tls"
    [] l.scheme = "trojan" -> IF l.security = "reality" THEN "reality" ELSE "tls"
    [] l.scheme = "awg"    -> "encrypted"
    [] l.scheme = "ss"     -> "bare"
    [] l.scheme = "vmess"  -> layer(l.security, "none")
    [] l.scheme = "vless"  -> layer(l.security, l.enc)

\* The refusals notcarried.go calls the link's safety: no TLS to a public
\* server, skipped verification, a security layer nobody knows, a weak or
\* absent cipher.
Unsafe(l) ==
  \/ l.scheme \in {"vless", "vmess", "trojan"} /\ Named(l) = "tls" /\ l.skips
  \/ l.scheme = "vless" /\ l.public /\ Named(l) = "bare"
  \/ l.scheme \in {"vless", "vmess"} /\ l.security \notin {NoSecurity, "tls", "reality"}
  \/ l.scheme \in {"vmess", "ss"} /\ l.cipher # "aead"
==============================================================================
