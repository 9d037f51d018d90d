------------------------------ MODULE AwgConfig ------------------------------
(***************************************************************************)
(* An AmneziaWG configuration is read twice from the same INI text: by     *)
(* ParseToUAPI for the awg engine's own device, and by parseINI with       *)
(* wireguardProxy for mihomo's WireGuard outbound, which the pinger also   *)
(* measures every awg link on.  The model feeds one line at a time to both.*)
(*                                                                         *)
(* The keys stand for their kinds: a private and a public key, an endpoint,*)
(* "jc" for the whole-number obfuscation options, "j1" for AWG 1.5's extra *)
(* junk packets, "awg3" for the options only AWG 3.x reads.  The value     *)
(* "bad" is one the key's own check refuses.                               *)
(***************************************************************************)
EXTENDS Naturals, Sequences, FiniteSets

CONSTANT MaxPeers   \* the most [Peer] sections of a configuration

ASSUME PeersAssumption == MaxPeers \in Nat \ {0}

VARIABLES section,  \* the section the lines are in
          uapi,     \* ParseToUAPI: private key, device options, peers, error
          ini       \* parseINI: the two sections, one value per key

awgVars == <<section, uapi, ini>>

Unset == "unset"
Outside == ""   \* before the first section, or in one neither reader knows

DeviceKeys == {"jc", "awg3"}
InterfaceKeys == {"privatekey", "j1"} \cup DeviceKeys
PeerKeys == {"publickey", "endpoint"}
Values(key) ==
  CASE key \in {"privatekey", "jc"} -> {"x", "y", "bad"}
    [] key = "j1" -> {"x"}
    [] OTHER -> {"x", "bad"}

NoPeer == [k \in PeerKeys |-> Unset]

NoDevice ==
  [priv |-> Unset, extras |-> [k \in DeviceKeys |-> Unset], peers |-> <<>>, err |-> FALSE]

\* ParseToUAPI has returned an error: it reads no further line.
Failed == [NoDevice EXCEPT !.err = TRUE]

AwgInit ==
  /\ section = Outside
  /\ uapi = NoDevice
  /\ ini = [interface |-> [k \in InterfaceKeys |-> Unset], peer |-> NoPeer]

\* A section header.  ParseToUAPI opens a new peer at each [Peer]; parseINI
\* goes on filling the one it has.
Header(s) ==
  /\ s = "peer" => Len(uapi.peers) < MaxPeers
  /\ section' = s
  /\ uapi' = IF s = "peer" /\ ~uapi.err THEN [uapi EXCEPT !.peers = Append(@, NoPeer)] ELSE uapi
  /\ UNCHANGED ini

\* MUTANT of interfaceKey: the first of several lines of one option stands.
interfaceKeyFirst(key, val) ==
  CASE key = "privatekey" ->
         IF val = "bad" THEN Failed ELSE [uapi EXCEPT !.priv = val]
    [] key = "j1" -> Failed
    [] key = "awg3" /\ val = "bad" -> Failed
    [] OTHER -> IF uapi.extras[key] # Unset THEN uapi ELSE [uapi EXCEPT !.extras[key] = val]

\* ParseToUAPI, a key of [Interface].  The device takes the last of several
\* lines of one option; amneziawg-go itself checks "jc".
interfaceKey(key, val) ==
  CASE key = "privatekey" ->
         IF val = "bad" THEN Failed ELSE [uapi EXCEPT !.priv = val]
    [] key = "j1" -> Failed
    [] key = "awg3" /\ val = "bad" -> Failed
    [] OTHER -> [uapi EXCEPT !.extras[key] = val]

\* ParseToUAPI, a key of [Peer]: it belongs to the peer opened last.
peerKey(key, val) ==
  IF key = "publickey" /\ val = "bad" THEN Failed
  ELSE [uapi EXCEPT !.peers[Len(uapi.peers)][key] = val]

KeyLine(key, val) ==
  /\ uapi' = CASE uapi.err -> uapi
               [] ~uapi.err /\ section = "interface" /\ key \in InterfaceKeys ->
                    interfaceKey(key, val)
               [] ~uapi.err /\ section = "peer" /\ key \in PeerKeys -> peerKey(key, val)
               [] OTHER -> uapi
  /\ ini' = CASE section = "interface" /\ key \in InterfaceKeys ->
                   [ini EXCEPT !.interface[key] = val]
              [] section = "peer" /\ key \in PeerKeys -> [ini EXCEPT !.peer[key] = val]
              [] OTHER -> ini
  /\ UNCHANGED section

AwgNext ==
  \/ \E s \in {"interface", "peer", Outside} : Header(s)
  \/ \E key \in InterfaceKeys \cup PeerKeys, val \in {"x", "y", "bad"} :
       val \in Values(key) /\ KeyLine(key, val)

------------------------------------------------------------------------------
(* What each reader makes of the lines so far.                             *)

\* ParseToUAPI's last part: the errors of a configuration that ended.
ParseToUAPI ==
  /\ ~uapi.err
  /\ uapi.priv # Unset
  /\ uapi.peers # <<>>
  /\ \A i \in DOMAIN uapi.peers : uapi.peers[i].publickey # Unset

\* amneziaOption: a configuration with an AWG 3.x key runs on mihomo's 3.x
\* device, which refuses AWG 1.5's keys; every other one on the legacy device.
amneziaOption ==
  [ok |-> /\ ini.interface["jc"] # "bad"
          /\ ini.interface["awg3"] # "bad"
          /\ ~(ini.interface["awg3"] # Unset /\ ini.interface["j1"] # Unset),
   opt |-> [k \in InterfaceKeys \ {"privatekey"} |-> ini.interface[k]]]

\* wireguardProxy keeps the keys as written; mihomo decodes them.
wireguardBuilt ==
  /\ ini.peer["endpoint"] \notin {Unset, "bad"}
  /\ ini.interface["privatekey"] # Unset /\ ini.peer["publickey"] # Unset
  /\ amneziaOption.ok

------------------------------------------------------------------------------
\* A configuration of one peer that both readers accept means the same to
\* both: the keys and the endpoint, and every obfuscation option, so the
\* tunnel the pinger measured is the one the awg engine brings up.  An
\* obfuscation option the configuration names is carried or refused, never
\* dropped, by either.
ReadersAgree ==
  /\ ParseToUAPI /\ wireguardBuilt /\ Len(uapi.peers) = 1 =>
       /\ uapi.priv = ini.interface["privatekey"]
       /\ uapi.peers[1] = ini.peer
       /\ \A k \in DeviceKeys : uapi.extras[k] = amneziaOption.opt[k]
  /\ ParseToUAPI => ini.interface["j1"] = Unset
  /\ wireguardBuilt =>
       \A k \in {"jc", "j1", "awg3"} : amneziaOption.opt[k] = ini.interface[k]

==============================================================================
