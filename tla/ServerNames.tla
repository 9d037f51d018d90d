----------------------------- MODULE ServerNames -----------------------------
(***************************************************************************)
(* The three lists one start makes of its links, which must agree on       *)
(* positions: the servers of the ServerEvent payload (serverinfo), the     *)
(* outbounds of the engine (xray's tags, mihomo's proxies) and the names   *)
(* through which the running balancer's choice is read back.  Blank lines  *)
(* count for none of them.                                                 *)
(*                                                                         *)
(* Each list is made by a loop over the links that only appends.  A step   *)
(* takes every loop past one more link, so after it the variables hold     *)
(* what the functions return for the links so far.                         *)
(*                                                                         *)
(* A name is a sequence: a remark, then the numbers uniqueName appended,   *)
(* so <<"a", 2>> is the remark "a (2)", which a link may carry itself.     *)
(***************************************************************************)
EXTENDS Naturals, Sequences, FiniteSets

CONSTANTS Remarks,   \* remarks links carry, as names; <<>> for none
          MaxLinks   \* the longest list of links

ASSUME NamesAssumption ==
  /\ MaxLinks \in Nat \ {0}
  /\ \A r \in Remarks : Len(r) \in Nat /\ r = [i \in 1..Len(r) |-> r[i]]

VARIABLES links,        \* the request's links in order: a remark, or BlankLink
          names,        \* ProxyNames' result
          used,         \* the names it may not hand out again
          proxies,      \* mihomo's proxies: the name, and the link's position
          outboundTags, \* xray's outbounds: the tag's number, and the position
          servers       \* FromLinks' result: the index, and the position

namesVars == <<links, names, used, proxies, outboundTags, servers>>

BlankLink == <<"blank">>

\* Two of the seven names mihomo defines itself, which nothing tells apart, and
\* the balancer group's.
reservedNames == {<<"DIRECT">>, <<"GLOBAL">>, <<"GROUP">>}

defaultName(idx) == <<"proxy-", idx>>

linkName(link, idx) == IF link = <<>> THEN defaultName(idx) ELSE link

\* The first of "name", "name (2)", "name (3)" ... that is not used; one of
\* the first Cardinality(used) + 1 candidates is free.
uniqueName(name, taken) ==
  IF name \notin taken THEN name
  ELSE Append(name, CHOOSE n \in 2..(MaxLinks + 4) :
                      /\ Append(name, n) \notin taken
                      /\ \A k \in 2..(n - 1) : Append(name, k) \in taken)

\* MUTANT of nameUsed: the name handed out is not marked as used.
nameUsedRemark(taken, name, remark) == taken \cup {remark}

nameUsed(taken, name, remark) == taken \cup {name}

\* A turn of each loop, for a link that is not blank.
ProxyNames(link, idx) ==
  LET remark == linkName(link, idx)
      name == uniqueName(remark, used)
  IN  /\ names' = Append(names, name)
      /\ used' = nameUsed(used, name, remark)

\* mihomoconfig.BuildConfig: proxy ni is built under the ni-th of the names.
mihomoProxy(idx) ==
  proxies' = Append(proxies, [name |-> names'[Len(proxies) + 1], link |-> idx])

\* xrayconfig.BuildConfig: the tag of an outbound counts the links kept.
xrayOutbound(idx) ==
  outboundTags' = Append(outboundTags, [tag |-> Len(outboundTags), link |-> idx])

FromLinks(idx) ==
  servers' = Append(servers, [index |-> Len(servers), link |-> idx])

NamesInit ==
  /\ links = <<>> /\ names = <<>> /\ used = reservedNames
  /\ proxies = <<>> /\ outboundTags = <<>> /\ servers = <<>>

AddLink(link) ==
  /\ Len(links) < MaxLinks
  /\ links' = Append(links, link)
  /\ IF link = BlankLink
     THEN UNCHANGED <<names, used, proxies, outboundTags, servers>>
     ELSE LET idx == Len(links)
          IN  ProxyNames(link, idx) /\ mihomoProxy(idx) /\ xrayOutbound(idx) /\ FromLinks(idx)

NamesNext == \E link \in Remarks \cup {BlankLink} : AddLink(link)

\* initMihomoServerState: the last position of a name in ProxyNames.
nameIdx(name) ==
  CHOOSE k \in DOMAIN names :
    /\ names[k] = name
    /\ \A j \in DOMAIN names : names[j] = name => j <= k

------------------------------------------------------------------------------
\* The name mihomo's group reports leads back to the server of the very link
\* whose proxy carries the traffic, xray's tag k is the tag of server k, and
\* no proxy takes a name mihomo defines itself, whatever remarks the links
\* carry and wherever the request has blank lines.
PositionsAgree ==
  /\ Len(servers) = Len(proxies)
  /\ \A k \in DOMAIN proxies :
       /\ servers[nameIdx(proxies[k].name)].link = proxies[k].link
       /\ proxies[k].name \notin reservedNames
       /\ outboundTags[k] = [tag |-> servers[k].index, link |-> servers[k].link]
==============================================================================
