----------------------------- MODULE LinksProofs -----------------------------
(***************************************************************************)
(* Proofs about what the core makes of the links of a request: the names   *)
(* and positions of a list, the sniffing exclusions, the two readers of an *)
(* AmneziaWG configuration, the probe of a batch and the pick from a pool. *)
(***************************************************************************)
EXTENDS LinkProbe, ServerNames, LocalPrefixes, AwgConfig,
        FiniteSetTheorems, SequenceTheorems, WellFoundedInduction, TLAPS

\* Every leaf is small; the limits leave room for a loaded machine.
USE SMTT(60), ZenonT(60)

-----------------------------------------------------------------------------
(* ServerNames. *)

\* Every set of naturals has a least element: what the inductions below use.
LEMMA LeastNatural ==
  ASSUME NEW T \in SUBSET Nat, T # {}
  PROVE  \E n \in T : \A m \in T : n <= m
<1> DEFINE R == {ss \in Nat \X Nat : ss[1] < ss[2]}
<1>1. IsWellFoundedOn(R, Nat)
  BY NatLessThanWellFounded DEF OpToRel
<1> HIDE DEF R
<1>2. PICK n \in T : \A m \in T : ~(<<m, n>> \in R)
  BY ZenonT(60), <1>1, WFMin
<1>3. ASSUME NEW m \in T PROVE n <= m
  <2>1. m \in Nat /\ n \in Nat /\ ~(<<m, n>> \in R)
    BY <1>2
  <2>2. ~(m < n)
    BY <2>1 DEF R
  <2> QED
    BY <2>1, <2>2
<1> QED
  BY <1>3

\* At most three names are reserved.
LEMMA ReservedFinite == IsFiniteSet(reservedNames) /\ Cardinality(reservedNames) \in Nat
                          /\ Cardinality(reservedNames) <= 3
<1> DEFINE A == {<<"DIRECT">>}
           B == A \cup {<<"GLOBAL">>}
           C == B \cup {<<"GROUP">>}
<1>1. IsFiniteSet(A) /\ Cardinality(A) = 1
  BY ZenonT(60), FS_Singleton
<1>2. IsFiniteSet(B) /\ Cardinality(B) <= 2 /\ Cardinality(B) \in Nat
  <2> HIDE DEF A
  <2> QED
    BY <1>1, FS_AddElement
<1>3. IsFiniteSet(C) /\ Cardinality(C) <= 3 /\ Cardinality(C) \in Nat
  <2> HIDE DEF B
  <2> QED
    BY <1>2, FS_AddElement
<1>4. reservedNames = C
  BY DEF reservedNames
<1> HIDE DEF C
<1> QED
  BY <1>3, <1>4

\* The remark of a link is a sequence of some parts.
LEMMA RemarkIsSequence ==
  ASSUME NEW link \in Remarks, NEW idx \in Nat
  PROVE  \E S : Nat \subseteq S /\ linkName(link, idx) \in Seq(S)
<1> DEFINE r == linkName(link, idx)
           S == Nat \cup {"proxy-"} \cup {link[i] : i \in 1..Len(link)}
<1>1. CASE link = <<>>
  <2>1. r = <<"proxy-", idx>>
    BY <1>1 DEF linkName, defaultName
  <2>2. <<"proxy-", idx>> \in Seq(S)
    OBVIOUS
  <2> QED
    BY ZenonT(60), <2>1, <2>2
<1>2. CASE link # <<>>
  <2>1. r = link
    BY <1>2 DEF linkName
  <2>2. Len(link) \in Nat /\ link = [i \in 1..Len(link) |-> link[i]]
    BY NamesAssumption
  <2>3. link \in [1..Len(link) -> S]
    BY <2>2
  <2> HIDE DEF S
  <2>4. link \in Seq(S)
    BY <2>2, <2>3
  <2> QED
    BY <2>1, <2>4 DEF S
<1> QED
  BY <1>1, <1>2

\* uniqueName finds a free name: there are more candidates than names taken.
LEMMA UniqueIsFree ==
  ASSUME NEW link \in Remarks, NEW idx \in Nat, NEW taken,
         IsFiniteSet(taken), Cardinality(taken) <= MaxLinks + 2
  PROVE  uniqueName(linkName(link, idx), taken) \notin taken
<1> DEFINE r == linkName(link, idx)
           U == MaxLinks + 4
<1> HIDE DEF r
<1>1. SUFFICES ASSUME r \in taken PROVE uniqueName(r, taken) \notin taken
  BY DEF uniqueName, r
<1>2. PICK S : Nat \subseteq S /\ r \in Seq(S)
  BY RemarkIsSequence DEF r
<1>3. MaxLinks \in Nat /\ U \in Nat /\ Cardinality(taken) \in Nat
  BY NamesAssumption, FS_CardinalityType
<1>4. \A m, n \in 2..U : Append(r, m) = Append(r, n) => m = n
  <2> SUFFICES ASSUME NEW m \in 2..U, NEW n \in 2..U, Append(r, m) = Append(r, n)
               PROVE  m = n
    OBVIOUS
  <2>1. m \in S /\ n \in S
    BY <1>2, <1>3
  <2>2. Append(r, m)[Len(r) + 1] = m /\ Append(r, n)[Len(r) + 1] = n
    BY <1>2, <2>1
  <2> QED
    BY <2>2
<1>5. \E n \in 2..U : Append(r, n) \notin taken
  <2> SUFFICES ASSUME \A n \in 2..U : Append(r, n) \in taken PROVE FALSE
    OBVIOUS
  <2> DEFINE f == [n \in 2..U |-> Append(r, n)]
  <2>1. IsFiniteSet(2..U) /\ Cardinality(2..U) = MaxLinks + 3
    <3>1. IsFiniteSet(2..U) /\ Cardinality(2..U) = IF 2 > U THEN 0 ELSE U - 2 + 1
      BY <1>3, FS_Interval
    <3> QED
      BY <1>3, <3>1
  <2>2. f \in [2..U -> taken]
    OBVIOUS
  <2>3. Cardinality(taken) < Cardinality(2..U)
    BY <1>3, <2>1
  <2>4. \E m, n \in 2..U : m # n /\ f[m] = f[n]
    <3> HIDE DEF f, U
    <3> QED
      BY ZenonT(60), <2>1, <2>2, <2>3, FS_PigeonHole
  <2> QED
    BY <1>4, <2>4
<1> DEFINE T == {n \in Nat : n \in 2..U /\ Append(r, n) \notin taken}
<1>6. PICK n \in T : \A m \in T : n <= m
  <2>1. T # {}
    BY <1>3, <1>5
  <2> QED
    BY ZenonT(60), <2>1, LeastNatural
<1>7. n \in 2..U /\ Append(r, n) \notin taken /\ \A k \in 2..(n - 1) : Append(r, k) \in taken
  BY <1>3, <1>6
<1> DEFINE P(c) == Append(r, c) \notin taken /\ \A k \in 2..(c - 1) : Append(r, k) \in taken
           c == CHOOSE c \in 2..U : P(c)
<1>8. P(c)
  BY <1>7
<1>9. uniqueName(r, taken) = Append(r, c)
  BY <1>1 DEF uniqueName
<1> QED
  BY <1>8, <1>9

\* The names handed out are used, apart from one another and from the
\* reserved ones, and no more than the links read.
NamesApart ==
  /\ Len(links) \in Nat /\ links \in Seq(Remarks \cup {BlankLink})
  /\ Len(links) <= MaxLinks
  /\ names \in Seq(used) /\ Len(names) <= Len(links)
  /\ IsFiniteSet(used) /\ Cardinality(used) <= Len(names) + 3
  /\ reservedNames \subseteq used
  /\ \A j, k \in 1..Len(names) : names[j] = names[k] => j = k
  /\ \A k \in 1..Len(names) : names[k] \notin reservedNames

\* The lists grow together.
ListsTogether ==
  /\ proxies \in Seq([name : used, link : Nat]) /\ Len(proxies) = Len(names)
  /\ servers \in Seq([index : Nat, link : Nat]) /\ Len(servers) = Len(names)
  /\ outboundTags \in Seq([tag : Nat, link : Nat]) /\ Len(outboundTags) = Len(names)
  /\ \A k \in 1..Len(names) :
       /\ proxies[k].name = names[k]
       /\ servers[k].link = proxies[k].link
       /\ outboundTags[k] = [tag |-> servers[k].index, link |-> servers[k].link]

NamesInv == NamesApart /\ ListsTogether

NamesSpec == NamesInit /\ [][NamesNext]_namesVars

\* Before the first link the lists are empty, and agree.
LEMMA NamesInitInv == NamesInit => NamesInv
<1> SUFFICES ASSUME NamesInit PROVE NamesInv
  OBVIOUS
<1>1. \A S : <<>> \in Seq(S) /\ Len(<<>>) = 0
  BY EmptySeq
<1>2. NamesApart
  BY <1>1, ReservedFinite, NamesAssumption DEF NamesInit, NamesApart
<1>3. ListsTogether
  BY <1>1 DEF NamesInit, ListsTogether
<1> QED
  BY <1>2, <1>3 DEF NamesInv

\* What appending does, for a list whose elements need not be told apart.
LEMMA Appended ==
  ASSUME NEW S, NEW s \in Seq(S), NEW e \in S
  PROVE  /\ Append(s, e) \in Seq(S)
         /\ Len(s) \in Nat /\ Len(Append(s, e)) = Len(s) + 1
         /\ \A k \in 1..(Len(s) + 1) :
              Append(s, e)[k] = IF k = Len(s) + 1 THEN e ELSE s[k]
OBVIOUS

\* A sequence over a set is one over any larger set.
LEMMA WiderSeq ==
  ASSUME NEW S, NEW T, S \subseteq T, NEW s \in Seq(S)
  PROVE  s \in Seq(T)
<1>1. Len(s) \in Nat /\ s \in [1..Len(s) -> S]
  BY LenProperties
<1>2. s \in [1..Len(s) -> T]
  BY <1>1
<1> QED
  BY <1>1, <1>2

\* A turn of the four loops for a link that is not blank keeps the lists
\* together and the names apart.
LEMMA LinkKeeps ==
  ASSUME NamesInv, NEW link \in Remarks, link # BlankLink, AddLink(link)
  PROVE  NamesInv'
<1> DEFINE idx == Len(links)
           remark == linkName(link, idx)
           name == uniqueName(remark, used)
           n == Len(names)
<1>1. /\ idx \in Nat /\ idx < MaxLinks /\ MaxLinks \in Nat /\ n \in Nat /\ n <= idx
      /\ IsFiniteSet(used) /\ Cardinality(used) <= n + 3 /\ Cardinality(used) \in Nat
      /\ names \in Seq(used)
  BY NamesAssumption, FS_CardinalityType, LenProperties DEF NamesInv, NamesApart, AddLink
<1>2. /\ links' = Append(links, link)
      /\ names' = Append(names, name)
      /\ used' = used \cup {name}
      /\ proxies' = Append(proxies, [name |-> names'[Len(proxies) + 1], link |-> idx])
      /\ outboundTags' = Append(outboundTags, [tag |-> Len(outboundTags), link |-> idx])
      /\ servers' = Append(servers, [index |-> Len(servers), link |-> idx])
  BY DEF AddLink, ProxyNames, mihomoProxy, xrayOutbound, FromLinks, nameUsed
<1>3. name \notin used
  BY <1>1, UniqueIsFree
<1> HIDE DEF name
<1>4. /\ names' \in Seq(used') /\ Len(names') = n + 1
      /\ \A k \in 1..(n + 1) : names'[k] = IF k = n + 1 THEN name ELSE names[k]
  <2>1. names \in Seq(used') /\ name \in used'
    BY <1>1, <1>2, WiderSeq
  <2> QED
    BY <1>2, <2>1, Appended
<1>5. NamesApart'
  <2>1. links' \in Seq(Remarks \cup {BlankLink}) /\ Len(links') = idx + 1
    BY <1>2, Appended DEF NamesInv, NamesApart
  <2>2. IsFiniteSet(used') /\ Cardinality(used') <= n + 4
    <3>1. IsFiniteSet(used \cup {name}) /\ Cardinality(used \cup {name}) = Cardinality(used) + 1
      BY <1>1, <1>3, FS_AddElement
    <3> QED
      BY <1>1, <1>2, <3>1
  <2>3. \A k \in 1..n : names[k] \in used
    BY <1>1, ElementOfSeq
  <2>4. reservedNames \subseteq used /\ name \notin reservedNames
    BY <1>3 DEF NamesInv, NamesApart
  <2>5. \A j, k \in 1..(n + 1) : names'[j] = names'[k] => j = k
    BY <1>1, <1>3, <1>4, <2>3 DEF NamesInv, NamesApart
  <2>6. \A k \in 1..(n + 1) : names'[k] \notin reservedNames
    BY <1>1, <1>4, <2>4 DEF NamesInv, NamesApart
  <2>7. /\ Len(links') \in Nat /\ Len(links') <= MaxLinks /\ Len(names') <= Len(links')
        /\ Cardinality(used') <= Len(names') + 3 /\ reservedNames \subseteq used'
    BY <1>1, <1>2, <1>4, <2>1, <2>2, <2>4
  <2> QED
    BY <1>4, <2>1, <2>2, <2>5, <2>6, <2>7 DEF NamesApart
<1>6. ListsTogether'
  <2>1. names'[n + 1] = name /\ name \in used'
    BY <1>1, <1>2, <1>4
  <2> DEFINE p == [name |-> name, link |-> idx]
             o == [tag |-> n, link |-> idx]
             s == [index |-> n, link |-> idx]
  <2>2. /\ proxies \in Seq([name : used, link : Nat]) /\ Len(proxies) = n
        /\ servers \in Seq([index : Nat, link : Nat]) /\ Len(servers) = n
        /\ outboundTags \in Seq([tag : Nat, link : Nat]) /\ Len(outboundTags) = n
    BY DEF NamesInv, ListsTogether
  <2>3. /\ proxies' = Append(proxies, p)
        /\ outboundTags' = Append(outboundTags, o)
        /\ servers' = Append(servers, s)
    BY <1>2, <2>1, <2>2
  <2>4. /\ p \in [name : used', link : Nat] /\ o \in [tag : Nat, link : Nat]
        /\ s \in [index : Nat, link : Nat]
    BY <1>1, <2>1
  <2>5. proxies \in Seq([name : used', link : Nat])
    <3>1. [name : used, link : Nat] \subseteq [name : used', link : Nat]
      BY <1>2
    <3> QED
      BY ZenonT(60), <2>2, <3>1, WiderSeq
  <2>6. p.name = name /\ p.link = idx /\ o = [tag |-> s.index, link |-> s.link] /\ s.link = idx
    OBVIOUS
  <2> HIDE DEF p, o, s
  <2>7. /\ proxies' \in Seq([name : used', link : Nat]) /\ Len(proxies') = n + 1
        /\ \A k \in 1..(n + 1) : proxies'[k] = IF k = n + 1 THEN p ELSE proxies[k]
    BY <2>2, <2>3, <2>4, <2>5, Appended
  <2>8. /\ servers' \in Seq([index : Nat, link : Nat]) /\ Len(servers') = n + 1
        /\ \A k \in 1..(n + 1) : servers'[k] = IF k = n + 1 THEN s ELSE servers[k]
    BY <2>2, <2>3, <2>4, Appended
  <2>9. /\ outboundTags' \in Seq([tag : Nat, link : Nat]) /\ Len(outboundTags') = n + 1
        /\ \A k \in 1..(n + 1) : outboundTags'[k] = IF k = n + 1 THEN o ELSE outboundTags[k]
    BY <2>2, <2>3, <2>4, Appended
  <2>10. ASSUME NEW k \in 1..(n + 1)
         PROVE  /\ proxies'[k].name = names'[k]
                /\ servers'[k].link = proxies'[k].link
                /\ outboundTags'[k] = [tag |-> servers'[k].index, link |-> servers'[k].link]
    <3>1. CASE k = n + 1
      <4>1. /\ proxies'[k] = p /\ servers'[k] = s /\ outboundTags'[k] = o
            /\ names'[k] = name
        BY <1>4, <2>7, <2>8, <2>9, <3>1
      <4> QED
        BY <2>6, <4>1
    <3>2. CASE k # n + 1
      <4>1. k \in 1..n
        BY <1>1, <3>2
      <4> QED
        BY ZenonT(60), <1>4, <2>7, <2>8, <2>9, <3>2, <4>1 DEF NamesInv, ListsTogether
    <3> QED
      BY <3>1, <3>2
  <2> QED
    BY <1>4, <2>7, <2>8, <2>9, <2>10 DEF ListsTogether
<1> QED
  BY <1>5, <1>6 DEF NamesInv

\* Every turn keeps the invariant: a blank line is skipped by all the loops.
LEMMA NamesStep == NamesInv /\ [NamesNext]_namesVars => NamesInv'
<1> SUFFICES ASSUME NamesInv, [NamesNext]_namesVars PROVE NamesInv'
  OBVIOUS
<1>1. CASE AddLink(BlankLink)
  <2>1. /\ links' = Append(links, BlankLink) /\ Len(links) < MaxLinks
        /\ UNCHANGED <<names, used, proxies, outboundTags, servers>>
    BY <1>1 DEF AddLink
  <2>2. /\ links' \in Seq(Remarks \cup {BlankLink}) /\ Len(links') = Len(links) + 1
        /\ Len(links) \in Nat /\ Len(names) \in Nat
    BY <2>1, Appended, LenProperties DEF NamesInv, NamesApart
  <2>3. NamesApart'
    BY <2>1, <2>2, NamesAssumption DEF NamesInv, NamesApart
  <2>4. ListsTogether'
    BY <2>1 DEF NamesInv, ListsTogether
  <2> QED
    BY <2>3, <2>4 DEF NamesInv
<1>2. ASSUME NEW link \in Remarks, link # BlankLink, AddLink(link) PROVE NamesInv'
  BY <1>2, LinkKeeps
<1>3. CASE UNCHANGED namesVars
  BY ZenonT(60), <1>3 DEF namesVars, NamesInv, NamesApart, ListsTogether
<1> QED
  BY <1>1, <1>2, <1>3 DEF NamesNext

\* Lists that are together, under names that are apart, agree on positions.
LEMMA TogetherAgree == NamesInv => PositionsAgree
<1> SUFFICES ASSUME NamesInv, NEW k \in DOMAIN proxies
             PROVE  /\ servers[nameIdx(proxies[k].name)].link = proxies[k].link
                    /\ proxies[k].name \notin reservedNames
                    /\ outboundTags[k] = [tag |-> servers[k].index, link |-> servers[k].link]
  BY DEF PositionsAgree, NamesInv, ListsTogether
<1>1. /\ DOMAIN names = 1..Len(names) /\ DOMAIN proxies = 1..Len(names)
      /\ Len(names) \in Nat
  BY LenProperties DEF NamesInv, NamesApart, ListsTogether
<1>2. k \in 1..Len(names) /\ proxies[k].name = names[k]
  BY ZenonT(60), <1>1 DEF NamesInv, ListsTogether
<1> DEFINE P(c) == names[c] = names[k] /\ \A j \in DOMAIN names : names[j] = names[k] => j <= c
<1>3. \A c \in DOMAIN names : P(c) <=> c = k
  BY <1>1, <1>2 DEF NamesInv, NamesApart
<1>4. nameIdx(names[k]) = CHOOSE c \in DOMAIN names : P(c)
  BY DEF nameIdx
<1>5. nameIdx(names[k]) = k
  BY <1>1, <1>2, <1>3, <1>4
<1> QED
  BY <1>2, <1>5 DEF NamesInv, NamesApart, ListsTogether

\* For any list of links, any remarks and blank lines anywhere, the name mihomo
\* reports leads back through ProxyNames to the server of the link it proxies,
\* xray's tags are the servers' indices, and no proxy takes a reserved name.
THEOREM NamesLeadBack == NamesSpec => []PositionsAgree
  BY NamesInitInv, NamesStep, TogetherAgree, PTL DEF NamesSpec

-----------------------------------------------------------------------------
(* LocalPrefixes. *)

Bits == {0, 1}

\* Prefixes and addresses are sequences of bits, no longer than an address.
LEMMA PrefixBits ==
  ASSUME NEW p \in CIDRs \cup Addresses
  PROVE  /\ p \in Seq(Bits) /\ Len(p) \in Nat /\ Len(p) <= Width
         /\ \A i \in 1..Len(p) : p[i] \in Bits
<1>1. PICK n \in 0..Width : p \in [1..n -> Bits]
  BY WidthAssumption DEF CIDRs, Addresses, Bits
<1>2. n \in Nat /\ DOMAIN p = 1..n /\ p = [i \in 1..n |-> p[i]]
  BY <1>1, WidthAssumption
<1>3. p \in Seq(Bits)
  BY <1>1, <1>2
<1>4. Len(p) = n
  BY <1>2, <1>3
<1> QED
  BY <1>1, <1>3, <1>4, WidthAssumption

\* A prefix holds an address when their bits agree.
LEMMA HoldsBits ==
  ASSUME NEW p \in Seq(Bits), NEW a \in Seq(Bits)
  PROVE  Holds(p, a) <=> Len(p) <= Len(a) /\ \A i \in 1..Len(p) : a[i] = p[i]
<1> SUFFICES ASSUME Len(p) <= Len(a)
             PROVE  SubSeq(a, 1, Len(p)) = p <=> \A i \in 1..Len(p) : a[i] = p[i]
  BY DEF Holds
<1>1. Len(p) \in Nat /\ Len(a) \in Nat
  BY LenProperties
<1>2. \A i \in 1..Len(p) : a[i] \in Bits
  BY <1>1, ElementOfSeq
<1>3. /\ SubSeq(a, 1, Len(p)) \in Seq(Bits)
      /\ Len(SubSeq(a, 1, Len(p))) = Len(p)
      /\ \A i \in 1..Len(p) : SubSeq(a, 1, Len(p))[i] = a[i]
  BY <1>1, <1>2, SubSeqProperties
<1> QED
  BY <1>3, SeqEqual

\* The sibling of a prefix of h agrees with h up to its last bit.
LEMMA SiblingBits ==
  ASSUME NEW h \in Seq(Bits), NEW n \in 1..Len(h)
  PROVE  LET s == siblingOf(SubSeq(h, 1, n)) IN
         /\ s \in Seq(Bits) /\ Len(s) = n /\ s[n] # h[n] /\ s[n] \in Bits
         /\ \A i \in 1..n : i # n => s[i] = h[i]
<1> DEFINE q == SubSeq(h, 1, n)
<1>1. Len(h) \in Nat /\ \A i \in 1..n : h[i] \in Bits
  BY LenProperties, ElementOfSeq
<1>2. q \in Seq(Bits) /\ Len(q) = n /\ \A i \in 1..n : q[i] = h[i]
  BY <1>1, SubSeqProperties
<1> HIDE DEF q
<1>3. n \in 1..n /\ n \in 1..Len(q) /\ q[n] = h[n] /\ h[n] \in Bits /\ 1 - q[n] \in Bits /\ 1 - q[n] # h[n]
  BY <1>1, <1>2 DEF Bits
<1>4. siblingOf(q) = [q EXCEPT ![n] = 1 - q[n]]
  BY <1>2 DEF siblingOf
<1>5. /\ siblingOf(q) \in Seq(Bits)
      /\ Len(siblingOf(q)) = n
      /\ \A j \in 1..n : siblingOf(q)[j] = IF j = n THEN 1 - q[n] ELSE q[j]
  BY <1>2, <1>3, <1>4, ExceptSeq
<1>6. /\ siblingOf(q) \in Seq(Bits) /\ Len(siblingOf(q)) = n
      /\ siblingOf(q)[n] # h[n] /\ siblingOf(q)[n] \in Bits
      /\ \A i \in 1..n : i # n => siblingOf(q)[i] = h[i]
  BY <1>2, <1>3, <1>5
<1> QED
  BY <1>6 DEF q

\* What prefixesWithout covers: what base holds and the hole does not.
LEMMA Covered ==
  ASSUME NEW base \in CIDRs, NEW h \in CIDRs, Overlaps(base, h), NEW a \in Addresses
  PROVE  (\E p \in prefixesWithout(base, h) : Holds(p, a)) <=> Holds(base, a) /\ ~Holds(h, a)
<1>0. /\ base \in Seq(Bits) /\ Len(base) \in Nat /\ Len(base) <= Width
      /\ h \in Seq(Bits) /\ Len(h) \in Nat /\ Len(h) <= Width
      /\ a \in Seq(Bits) /\ Len(a) = Width
      /\ \A i \in 1..Width : a[i] \in Bits
      /\ \A i \in 1..Len(h) : h[i] \in Bits
      /\ Width \in Nat
  <2>1. a \in Seq(Bits) /\ Len(a) = Width
    BY PrefixBits, WidthAssumption DEF Addresses, Bits
  <2> QED
    BY <2>1, PrefixBits, WidthAssumption
<1>1. /\ Holds(base, a) <=> \A i \in 1..Len(base) : a[i] = base[i]
      /\ Holds(h, a) <=> \A i \in 1..Len(h) : a[i] = h[i]
      /\ Holds(base, h) <=> Len(base) <= Len(h) /\ \A i \in 1..Len(base) : h[i] = base[i]
      /\ Holds(h, base) <=> Len(h) <= Len(base) /\ \A i \in 1..Len(h) : base[i] = h[i]
  BY <1>0, HoldsBits
<1>2. ASSUME NEW n \in (Len(base) + 1)..Len(h), Holds(siblingOf(SubSeq(h, 1, n)), a)
      PROVE  Holds(base, a) /\ ~Holds(h, a)
  <2> DEFINE s == siblingOf(SubSeq(h, 1, n))
  <2>1. n \in 1..Len(h)
    BY <1>0
  <2>2. /\ s \in Seq(Bits) /\ Len(s) = n /\ s[n] # h[n]
        /\ \A i \in 1..n : i # n => s[i] = h[i]
    BY <1>0, <2>1, SiblingBits
  <2>3. Holds(s, a)
    BY <1>2
  <2> HIDE DEF s
  <2>4. \A i \in 1..n : a[i] = s[i]
    BY <1>0, <2>2, <2>3, HoldsBits
  <2>5. a[n] # h[n]
    BY <2>1, <2>2, <2>4
  <2>6. \A i \in 1..Len(base) : a[i] = h[i]
    BY <1>0, <2>2, <2>4
  <2>7. \A i \in 1..Len(base) : h[i] = base[i]
    BY <1>0, <1>1 DEF Overlaps
  <2> QED
    BY <1>0, <1>1, <2>1, <2>5, <2>6, <2>7
<1>3. ASSUME Holds(base, a), ~Holds(h, a)
      PROVE  \E n \in (Len(base) + 1)..Len(h) : Holds(siblingOf(SubSeq(h, 1, n)), a)
  <2> DEFINE T == {i \in Nat : i \in 1..Len(h) /\ a[i] # h[i]}
  <2>1. T # {}
    BY <1>0, <1>1, <1>3
  <2>2. PICK n \in T : \A m \in T : n <= m
    BY ZenonT(60), <2>1, LeastNatural
  <2>3. n \in 1..Len(h) /\ a[n] # h[n] /\ \A i \in 1..n : i # n => a[i] = h[i]
    BY <1>0, <2>2
  <2>4. \A i \in 1..Len(base) : i <= Len(h) => a[i] = h[i]
    BY <1>0, <1>1, <1>3 DEF Overlaps
  <2>5. n \in (Len(base) + 1)..Len(h)
    BY <1>0, <2>3, <2>4
  <2> DEFINE s == siblingOf(SubSeq(h, 1, n))
  <2>6. /\ s \in Seq(Bits) /\ Len(s) = n /\ s[n] # h[n] /\ s[n] \in Bits
        /\ \A i \in 1..n : i # n => s[i] = h[i]
    BY <1>0, <2>3, SiblingBits
  <2> HIDE DEF s
  <2>7. a[n] = s[n]
    BY <1>0, <2>3, <2>6 DEF Bits
  <2>8. \A i \in 1..n : a[i] = s[i]
    BY <2>3, <2>6, <2>7
  <2>9. Holds(s, a)
    BY <1>0, <2>3, <2>6, <2>8, HoldsBits
  <2> QED
    BY <2>5, <2>9 DEF s
<1> QED
  BY <1>2, <1>3 DEF prefixesWithout

\* Two prefixes that hold one address overlap.
LEMMA Sharing ==
  ASSUME NEW p \in CIDRs, NEW q \in CIDRs, NEW a \in Addresses, Holds(p, a), Holds(q, a)
  PROVE  Overlaps(p, q)
<1>1. /\ p \in Seq(Bits) /\ Len(p) \in Nat
      /\ q \in Seq(Bits) /\ Len(q) \in Nat
      /\ a \in Seq(Bits)
  BY PrefixBits
<1>2. (\A i \in 1..Len(p) : a[i] = p[i]) /\ (\A i \in 1..Len(q) : a[i] = q[i])
  BY <1>1, HoldsBits
<1>3. CASE Len(p) <= Len(q)
  <2>1. Holds(p, q)
    BY <1>1, <1>2, <1>3, HoldsBits
  <2> QED
    BY <2>1 DEF Overlaps
<1>4. CASE Len(q) <= Len(p)
  <2>1. Holds(q, p)
    BY <1>1, <1>2, <1>4, HoldsBits
  <2> QED
    BY <2>1 DEF Overlaps
<1> QED
  BY <1>1, <1>3, <1>4

\* For addresses of any width, any set of local networks and any fake-IP pool,
\* localSniffExclusions covers the local addresses outside the pool and no other.
THEOREM PoolStaysSniffed == local \subseteq CIDRs /\ hole \in CIDRs => SniffsPoolOnly
<1> SUFFICES ASSUME local \subseteq CIDRs, hole \in CIDRs, NEW a \in Addresses
             PROVE  (\E p \in localSniffExclusions : Holds(p, a)) <=>
                      (\E p \in local : Holds(p, a)) /\ ~Holds(hole, a)
  BY DEF SniffsPoolOnly
<1>1. ASSUME NEW p \in localSniffExclusions, Holds(p, a)
      PROVE  (\E q \in local : Holds(q, a)) /\ ~Holds(hole, a)
  <2>1. CASE p \in local /\ ~Overlaps(p, hole)
    BY <1>1, <2>1, Sharing
  <2>2. CASE \E q \in local : Overlaps(q, hole) /\ p \in prefixesWithout(q, hole)
    BY <1>1, <2>2, Covered
  <2> QED
    BY <1>1, <2>1, <2>2 DEF localSniffExclusions
<1>2. ASSUME NEW q \in local, Holds(q, a), ~Holds(hole, a)
      PROVE  \E p \in localSniffExclusions : Holds(p, a)
  <2>1. CASE ~Overlaps(q, hole)
    BY <1>2, <2>1 DEF localSniffExclusions
  <2>2. CASE Overlaps(q, hole)
    <3>1. PICK p \in prefixesWithout(q, hole) : Holds(p, a)
      BY <1>2, <2>2, Covered
    <3> QED
      BY <2>2, <3>1 DEF localSniffExclusions
  <2> QED
    BY <2>1, <2>2
<1> QED
  BY <1>1, <1>2

-----------------------------------------------------------------------------
(* AwgConfig. *)

Value == {"x", "y", "bad", Unset}

AwgTypes ==
  /\ uapi \in [priv : Value, extras : [DeviceKeys -> Value],
               peers : Seq([PeerKeys -> Value]), err : BOOLEAN]
  /\ ini \in [interface : [InterfaceKeys -> Value], peer : [PeerKeys -> Value]]

\* As long as ParseToUAPI has refused nothing, the two readers hold the same.
SameSoFar ==
  ~uapi.err =>
    /\ uapi.priv = ini.interface["privatekey"]
    /\ \A k \in DeviceKeys : uapi.extras[k] = ini.interface[k]
    /\ ini.interface["j1"] = Unset
    /\ Len(uapi.peers) = 0 => ini.peer = NoPeer
    /\ Len(uapi.peers) = 1 => uapi.peers[1] = ini.peer
    /\ section = "peer" => Len(uapi.peers) # 0

AwgInv == AwgTypes /\ SameSoFar

AwgSpec == AwgInit /\ [][AwgNext]_awgVars

\* A peer nothing was read of is a peer.
LEMMA NoPeerType == NoPeer \in [PeerKeys -> Value]
  BY DEF NoPeer, PeerKeys, Value

\* The interface's keys: those of the device, the private key and j1.
LEMMA KeysApart ==
  /\ "privatekey" \in InterfaceKeys /\ "j1" \in InterfaceKeys
  /\ DeviceKeys \subseteq InterfaceKeys
  /\ "privatekey" \notin DeviceKeys /\ "j1" \notin DeviceKeys
  /\ InterfaceKeys = DeviceKeys \cup {"privatekey", "j1"}
  /\ Unset \in Value
  BY DEF InterfaceKeys, DeviceKeys, Value

\* Before the first line neither reader holds anything.
LEMMA AwgInitInv == AwgInit => AwgInv
<1> SUFFICES ASSUME AwgInit PROVE AwgInv
  OBVIOUS
<1>1. <<>> \in Seq([PeerKeys -> Value]) /\ Len(<<>>) = 0
  BY EmptySeq
<1>2. /\ uapi = NoDevice
      /\ ini = [interface |-> [k \in InterfaceKeys |-> Unset], peer |-> NoPeer]
  BY DEF AwgInit
<1>3. AwgTypes
  BY <1>1, <1>2, NoPeerType, KeysApart DEF AwgTypes, NoDevice
<1>4. section # "peer"
  BY ZenonT(60) DEF AwgInit, Outside
<1>5. SameSoFar
  BY <1>1, <1>2, <1>4, KeysApart DEF SameSoFar, NoDevice
<1> QED
  BY <1>3, <1>5 DEF AwgInv

\* What ParseToUAPI returns for a file it refuses.
LEMMA FailedType ==
  /\ Failed \in [priv : Value, extras : [DeviceKeys -> Value],
                 peers : Seq([PeerKeys -> Value]), err : BOOLEAN]
  /\ Failed.err
<1>1. <<>> \in Seq([PeerKeys -> Value])
  BY EmptySeq
<1> QED
  BY ZenonT(60), <1>1, KeysApart DEF Failed, NoDevice

\* A section header keeps the readers together, or ParseToUAPI refuses it.
LEMMA HeaderKeeps ==
  ASSUME AwgInv, NEW s, Header(s)
  PROVE  AwgInv'
<1> USE DEF AwgInv
<1>1. CASE s = "peer" /\ ~uapi.err
  <2> DEFINE ps == Append(uapi.peers, NoPeer)
  <2>1. /\ uapi.peers \in Seq([PeerKeys -> Value]) /\ Len(uapi.peers) \in Nat
        /\ ps \in Seq([PeerKeys -> Value]) /\ Len(ps) = Len(uapi.peers) + 1
        /\ ps[Len(ps)] = NoPeer
    BY NoPeerType DEF AwgTypes
  <2>2. uapi' = [uapi EXCEPT !.peers = ps] /\ ini' = ini /\ section' = s
    BY <1>1 DEF Header
  <2> HIDE DEF ps
  <2>3. /\ uapi'.priv = uapi.priv /\ uapi'.extras = uapi.extras /\ uapi'.err = uapi.err
        /\ uapi'.peers = ps
    BY <2>2 DEF AwgTypes
  <2>4. AwgTypes'
    BY <2>1, <2>2 DEF AwgTypes
  <2>5. SameSoFar'
    BY <1>1, <2>1, <2>2, <2>3 DEF SameSoFar
  <2> QED
    BY <2>4, <2>5
<1>2. CASE ~(s = "peer" /\ ~uapi.err)
  <2>1. uapi' = uapi /\ ini' = ini /\ section' = s
    BY <1>2 DEF Header
  <2> QED
    BY <1>2, <2>1 DEF AwgTypes, SameSoFar
<1> QED
  BY <1>1, <1>2

\* So does a line of the interface section,
LEMMA InterfaceLineKeeps ==
  ASSUME AwgInv, NEW key \in InterfaceKeys, NEW val \in Value, ~uapi.err,
         section = "interface", uapi' = interfaceKey(key, val),
         ini' = [ini EXCEPT !.interface[key] = val], section' = section
  PROVE  AwgInv'
<1> USE DEF AwgInv
<1>1. /\ ini' \in [interface : [InterfaceKeys -> Value], peer : [PeerKeys -> Value]]
      /\ ini'.peer = ini.peer
      /\ \A k \in InterfaceKeys :
           ini'.interface[k] = IF k = key THEN val ELSE ini.interface[k]
  BY DEF AwgTypes
<1>2. CASE uapi' = Failed
  BY ZenonT(60), <1>1, <1>2, FailedType DEF AwgTypes, SameSoFar
<1>3. CASE uapi' # Failed /\ key = "privatekey"
  <2>1. uapi' = [uapi EXCEPT !.priv = val]
    BY <1>3 DEF interfaceKey
  <2>2. AwgTypes'
    BY <1>1, <2>1 DEF AwgTypes
  <2>3. /\ uapi'.priv = val /\ uapi'.extras = uapi.extras
        /\ uapi'.peers = uapi.peers /\ uapi'.err = uapi.err
    BY <2>1 DEF AwgTypes
  <2>4. SameSoFar'
    BY <1>1, <1>3, <2>3, KeysApart DEF SameSoFar
  <2> QED
    BY <2>2, <2>4
<1>4. CASE uapi' # Failed /\ key # "privatekey"
  <2>1. key \in DeviceKeys /\ uapi' = [uapi EXCEPT !.extras[key] = val]
    BY <1>4, KeysApart DEF interfaceKey
  <2>2. AwgTypes'
    <3> DEFINE es == [uapi.extras EXCEPT ![key] = val]
    <3>1. uapi' = [uapi EXCEPT !.extras = es]
      BY <2>1
    <3>2. es \in [DeviceKeys -> Value]
      BY ZenonT(60) DEF AwgTypes
    <3> HIDE DEF es
    <3> QED
      BY ZenonT(60), <1>1, <3>1, <3>2 DEF AwgTypes
  <2>3. /\ uapi'.priv = uapi.priv
        /\ \A k \in DeviceKeys : uapi'.extras[k] = IF k = key THEN val ELSE uapi.extras[k]
        /\ uapi'.peers = uapi.peers /\ uapi'.err = uapi.err
    BY <2>1 DEF AwgTypes
  <2>4. SameSoFar'
    BY <1>1, <2>1, <2>3, KeysApart DEF SameSoFar
  <2> QED
    BY <2>2, <2>4
<1> QED
  BY <1>2, <1>3, <1>4

\* a line of a peer section,
LEMMA PeerLineKeeps ==
  ASSUME AwgInv, NEW key \in PeerKeys, NEW val \in Value, ~uapi.err,
         section = "peer", uapi' = peerKey(key, val),
         ini' = [ini EXCEPT !.peer[key] = val], section' = section
  PROVE  AwgInv'
<1> USE DEF AwgInv
<1>1. /\ ini' \in [interface : [InterfaceKeys -> Value], peer : [PeerKeys -> Value]]
      /\ ini'.interface = ini.interface
      /\ ini'.peer = [ini.peer EXCEPT ![key] = val]
  BY DEF AwgTypes
<1>2. CASE uapi' = Failed
  BY ZenonT(60), <1>1, <1>2, FailedType DEF AwgTypes, SameSoFar
<1>3. CASE uapi' # Failed
  <2> DEFINE n == Len(uapi.peers)
             p == [uapi.peers[n] EXCEPT ![key] = val]
             ps == [uapi.peers EXCEPT ![n] = p]
  <2>1. uapi' = [uapi EXCEPT !.peers[n][key] = val]
    BY <1>3 DEF peerKey
  <2>2. uapi.peers \in Seq([PeerKeys -> Value]) /\ n \in Nat /\ n # 0 /\ n \in 1..n
    BY LenProperties DEF AwgTypes, SameSoFar
  <2>3. uapi.peers[n] \in [PeerKeys -> Value] /\ p \in [PeerKeys -> Value]
    <3>1. uapi.peers[n] \in [PeerKeys -> Value]
      BY <2>2, ElementOfSeq
    <3> QED
      BY <3>1
  <2>4. uapi' = [uapi EXCEPT !.peers = ps]
    BY <2>1
  <2> HIDE DEF p
  <2>5. ps \in Seq([PeerKeys -> Value]) /\ Len(ps) = n /\ ps[n] = p
    BY <2>2, <2>3, ExceptSeq
  <2> HIDE DEF ps
  <2>6. /\ uapi'.priv = uapi.priv /\ uapi'.extras = uapi.extras
        /\ uapi'.peers = ps /\ uapi'.err = uapi.err
    BY <2>4 DEF AwgTypes
  <2>7. AwgTypes'
    BY ZenonT(60), <1>1, <2>4, <2>5 DEF AwgTypes
  <2>8. n = 1 => ps[1] = ini'.peer
    BY <1>1, <2>5 DEF SameSoFar, p
  <2>9. SameSoFar'
    BY <1>1, <2>2, <2>5, <2>6, <2>8 DEF SameSoFar
  <2> QED
    BY <2>7, <2>9
<1> QED
  BY <1>2, <1>3

\* and a line of any section, one no reader takes included.
LEMMA KeyLineKeeps ==
  ASSUME AwgInv, NEW key \in InterfaceKeys \cup PeerKeys, NEW val \in Value, KeyLine(key, val)
  PROVE  AwgInv'
<1>1. CASE section = "interface" /\ key \in InterfaceKeys
  <2>1. ini' = [ini EXCEPT !.interface[key] = val] /\ section' = section
    BY <1>1 DEF KeyLine
  <2>2. CASE ~uapi.err
    <3>1. uapi' = interfaceKey(key, val)
      BY <1>1, <2>2 DEF KeyLine
    <3> QED
      BY <1>1, <2>1, <2>2, <3>1, InterfaceLineKeeps
  <2>3. CASE uapi.err
    BY <2>1, <2>3 DEF KeyLine, AwgInv, AwgTypes, SameSoFar
  <2> QED
    BY <2>2, <2>3
<1>2. CASE section = "peer" /\ key \in PeerKeys
  <2>1. ini' = [ini EXCEPT !.peer[key] = val] /\ section' = section
    BY <1>2 DEF KeyLine
  <2>2. CASE ~uapi.err
    <3>1. uapi' = peerKey(key, val)
      BY <1>2, <2>2 DEF KeyLine
    <3> QED
      BY <1>2, <2>1, <2>2, <3>1, PeerLineKeeps
  <2>3. CASE uapi.err
    BY <2>1, <2>3 DEF KeyLine, AwgInv, AwgTypes, SameSoFar
  <2> QED
    BY <2>2, <2>3
<1>3. CASE /\ ~(section = "interface" /\ key \in InterfaceKeys)
           /\ ~(section = "peer" /\ key \in PeerKeys)
  <2>1. uapi' = uapi /\ ini' = ini /\ section' = section
    BY <1>3 DEF KeyLine
  <2> QED
    BY <2>1 DEF AwgInv, AwgTypes, SameSoFar
<1> QED
  BY <1>1, <1>2, <1>3

\* Every line of the file keeps the invariant.
LEMMA AwgStep == AwgInv /\ [AwgNext]_awgVars => AwgInv'
<1> SUFFICES ASSUME AwgInv, [AwgNext]_awgVars PROVE AwgInv'
  OBVIOUS
<1>1. CASE \E s \in {"interface", "peer", Outside} : Header(s)
  BY <1>1, HeaderKeeps
<1>2. CASE \E key \in InterfaceKeys \cup PeerKeys, val \in {"x", "y", "bad"} :
             val \in Values(key) /\ KeyLine(key, val)
  <2>1. PICK key \in InterfaceKeys \cup PeerKeys, val \in {"x", "y", "bad"} : KeyLine(key, val)
    BY <1>2
  <2>2. val \in Value
    BY DEF Value
  <2> QED
    BY <2>1, <2>2, KeyLineKeeps
<1>3. CASE UNCHANGED awgVars
  BY <1>3 DEF awgVars, AwgInv, AwgTypes, SameSoFar
<1> QED
  BY <1>1, <1>2, <1>3 DEF AwgNext

\* Readers that are together at the end of the file agree.
LEMMA SameMeansAgree == AwgInv => ReadersAgree
<1> SUFFICES ASSUME AwgInv PROVE ReadersAgree
  OBVIOUS
<1>1. \A k \in {"jc", "j1", "awg3"} : amneziaOption.opt[k] = ini.interface[k]
  BY DEF amneziaOption, InterfaceKeys, DeviceKeys
<1> QED
  BY <1>1 DEF ReadersAgree, ParseToUAPI, AwgInv, SameSoFar, DeviceKeys

\* For any number of sections and lines in any order, a configuration of one
\* peer that both ParseToUAPI and mihomo's builder accept has the same keys for
\* both, and an obfuscation option it names is carried or refused by either: the
\* tunnel the pinger measured is the one the awg engine brings up.
THEOREM AwgReadersAgree == AwgSpec => []ReadersAgree
  BY AwgInitInv, AwgStep, SameMeansAgree, PTL DEF AwgSpec

-----------------------------------------------------------------------------
(* ShareLinks and LinkProbe. *)

\* The layer of a link is one of the layers.
LEMMA LayerOfLink == \A s, e : layer(s, e) \in Layers
  BY DEF layer, Layers

\* What each engine builds of a link is the layer the link names.
LEMMA BuiltAsNamed ==
  ASSUME NEW l
  PROVE  /\ outboundFromLink(l) \in {"refused", "gap"} \/ outboundFromLink(l) = Named(l)
         /\ proxyFromLink(l) = "refused" \/ (proxyFromLink(l) = Named(l) /\ Named(l) \in Layers)
<1>1. outboundFromLink(l) \in {"refused", "gap"} \/ outboundFromLink(l) = Named(l)
  <2>1. CASE l.scheme = "vless"
    BY <2>1 DEF outboundFromLink, outboundFromVLESS, Named
  <2>2. CASE l.scheme = "vmess"
    BY <2>2 DEF outboundFromLink, outboundFromVMess, Named
  <2>3. CASE l.scheme = "ss"
    BY <2>3 DEF outboundFromLink, outboundFromSS, Named
  <2>4. CASE l.scheme = "trojan"
    BY <2>4 DEF outboundFromLink, outboundFromTrojan, Named, layer
  <2>5. CASE l.scheme \notin {"vless", "vmess", "ss", "trojan"}
    BY <2>5 DEF outboundFromLink
  <2> QED
    BY <2>1, <2>2, <2>3, <2>4, <2>5
<1>2. proxyFromLink(l) = "refused" \/ (proxyFromLink(l) = Named(l) /\ Named(l) \in Layers)
  <2>1. CASE l.scheme = "vless"
    <3>1. proxyFromLink(l) = vlessProxy(l) /\ Named(l) = layer(l.security, l.enc)
      BY <2>1 DEF proxyFromLink, Named
    <3>2. vlessProxy(l) = "refused" \/ vlessProxy(l) = layer(l.security, l.enc)
      BY DEF vlessProxy, dialledUnder, vlessCarriers
    <3> QED
      BY <3>1, <3>2, LayerOfLink
  <2>2. CASE l.scheme = "vmess"
    <3>1. proxyFromLink(l) = vmessProxy(l) /\ Named(l) = layer(l.security, "none")
      BY <2>2 DEF proxyFromLink, Named
    <3>2. vmessProxy(l) = "refused" \/ vmessProxy(l) = layer(l.security, "none")
      BY DEF vmessProxy
    <3> QED
      BY <3>1, <3>2, LayerOfLink
  <2>3. CASE l.scheme = "trojan"
    <3>1. /\ proxyFromLink(l) = trojanProxy(l)
          /\ Named(l) = IF l.security = "reality" THEN "reality" ELSE "tls"
      BY <2>3 DEF proxyFromLink, Named
    <3>2. trojanProxy(l) \in {"refused", Named(l)}
      BY <3>1 DEF trojanProxy, applyTrojanReality, dialledUnder, layer
    <3> QED
      BY <3>1, <3>2 DEF Layers
  <2>4. CASE l.scheme \in {"ss", "hysteria2", "tuic", "anytls", "awg"}
    BY <2>4 DEF proxyFromLink, Named, Layers, ssProxy, hysteria2Proxy, tuicProxy,
                anytlsProxy, wireguardProxy
  <2>5. CASE l.scheme \notin {"vless", "vmess", "trojan", "ss", "hysteria2", "tuic", "anytls", "awg"}
    BY <2>5 DEF proxyFromLink
  <2> QED
    BY <2>1, <2>2, <2>3, <2>4, <2>5
<1> QED
  BY <1>1, <1>2

\* A link xray only lacks a capability for passed every safety check.
LEMMA GapIsSafe ==
  ASSUME NEW l, outboundFromLink(l) = "gap"
  PROVE  ~Unsafe(l)
<1>1. CASE l.scheme = "vless"
  <2>1. outboundFromVLESS(l) = "gap" /\ Named(l) = layer(l.security, l.enc)
    BY <1>1 DEF outboundFromLink, Named
  <2>2. /\ ~streamRefused(l, l.security)
        /\ ~requireTransportSecurity(l, l.security # NoSecurity \/ l.enc = "good")
    BY <2>1 DEF outboundFromVLESS
  <2> QED
    BY <1>1, <2>1, <2>2 DEF Unsafe, streamRefused, requireTransportSecurity, layer
<1>2. CASE l.scheme = "vmess"
  <2>1. outboundFromVMess(l) = "gap" /\ Named(l) = layer(l.security, "none")
    BY <1>2 DEF outboundFromLink, Named
  <2>2. ~streamRefused(l, l.security) /\ l.cipher = "aead"
    BY <2>1 DEF outboundFromVMess
  <2> QED
    BY <1>2, <2>1, <2>2 DEF Unsafe, streamRefused, layer
<1>3. CASE l.scheme = "trojan"
  <2> DEFINE s == IF l.security \in {"tls", "reality"} THEN l.security ELSE "tls"
  <2>1. outboundFromTrojan(l) = "gap" /\ Named(l) = s
    BY <1>3 DEF outboundFromLink, Named
  <2>2. ~streamRefused(l, s)
    BY <2>1 DEF outboundFromTrojan
  <2> HIDE DEF s
  <2> QED
    BY <1>3, <2>1, <2>2 DEF Unsafe, streamRefused
<1>4. l.scheme # "ss"
  BY DEF outboundFromLink, outboundFromSS
<1>5. l.scheme \in {"vless", "vmess", "ss", "trojan"}
  BY DEF outboundFromLink
<1> QED
  BY <1>1, <1>2, <1>3, <1>4, <1>5

Engines == {NoEngine, "xray", "awg", "mihomo"}
Places == {"idle", "first", "second", "done"}
Probing == {"ping", "pick", "start"}

Outcome == [engine : Engines, alive : BOOLEAN, delay : Nat, error : BOOLEAN]

ProbeTypes ==
  /\ Len(batch) \in Nat /\ DOMAIN batch = 1..Len(batch)
  /\ pinned \in Engines
  /\ next \in Nat \ {0}
  /\ going \in [DOMAIN batch -> Places]
  /\ result \in [DOMAIN batch -> Outcome]

\* A goroutine measures on the pinned engine, or where the choice put it; one
\* that fell back was not pinned, and its link is safe.
GoingSafely ==
  \A i \in DOMAIN batch :
    /\ going[i] = "first" /\ pinned # NoEngine => result[i].engine = pinned
    /\ going[i] = "second" =>
         pinned = NoEngine /\ result[i].engine = "mihomo" /\ ~Unsafe(batch[i])
    /\ result[i].alive =>
         /\ going[i] = "done"
         /\ built(result[i].engine, batch[i]) = Named(batch[i])
         /\ pinned # NoEngine => result[i].engine = pinned

\* Goroutines only run while a probe of several links, or a ping, does.
Quiet ==
  phase \notin Probing \/ (phase # "ping" /\ Len(batch) = 1) => Running = {}

\* The loop has not touched the links it has not reached.
Unreached ==
  \A i \in DOMAIN batch : i >= next => going[i] = "idle"

\* Link i is what the probe's outcome calls for.
Best(i) ==
  /\ Alive # {} => i \in Alive
  /\ strategy = "leastping" => \A j \in Alive : result[i].delay <= result[j].delay

\* How far the pool has come.
PoolStage ==
  /\ phase \in {"pool", "pick", "start", "ping", "measured"} => tunnel = 0
  /\ phase = "pool" => Alive = {}
  /\ phase = "picked" => tunnel # 0 /\ (tunnel \in DOMAIN batch => Best(tunnel))
  /\ phase = "started" => (tunnel # 0 => chosen = tunnel)
  /\ phase = "started" /\ chosen \in DOMAIN batch => Best(chosen)

ProbeInv == ProbeTypes /\ GoingSafely /\ Quiet /\ Unreached /\ PoolStage

ProbeSpec == ProbeInit /\ [][ProbeNext]_probeVars

\* The entry a batch starts with says nothing.
LEMMA BlankType == Blank \in Outcome /\ ~Blank.alive /\ NoEngine \in Engines
  BY DEF Blank, Outcome, Engines

\* A request that comes in satisfies the invariant.
LEMMA ProbeInitInv == ProbeInit => ProbeInv
<1> SUFFICES ASSUME ProbeInit PROVE ProbeInv
  OBVIOUS
<1>1. Len(batch) \in Nat /\ DOMAIN batch = 1..Len(batch) /\ pinned \in Engines
  BY BatchAssumption DEF ProbeInit, Engines
<1>2. /\ going = [i \in DOMAIN batch |-> "idle"]
      /\ result = [i \in DOMAIN batch |-> Blank]
      /\ next = 1 /\ tunnel = 0 /\ phase \in {"ping", "pool"}
  BY DEF ProbeInit
<1>3. ProbeTypes
  BY <1>1, <1>2, BlankType DEF ProbeTypes, Places
<1>4. GoingSafely /\ Quiet /\ Unreached
  BY <1>2, BlankType DEF GoingSafely, Quiet, Running, Unreached
<1>5. PoolStage
  BY <1>2, BlankType DEF PoolStage, Alive
<1> QED
  BY <1>3, <1>4, <1>5 DEF ProbeInv

\* So does the probe of a pool as it opens.
LEMMA OpenKeeps ==
  ASSUME ProbeInv, NEW ph \in {"pick", "start"}, Open(ph, batch, NoEngine), tunnel' = 0
  PROVE  ProbeInv'
<1>1. /\ phase' = ph /\ batch' = batch /\ pinned' = NoEngine /\ next' = 1
      /\ going' = [i \in DOMAIN batch |-> "idle"]
      /\ result' = [i \in DOMAIN batch |-> Blank]
  BY DEF Open
<1>2. ProbeTypes'
  BY <1>1, BlankType DEF ProbeInv, ProbeTypes, Places
<1>3. GoingSafely' /\ Quiet' /\ Unreached'
  BY <1>1, BlankType DEF GoingSafely, Quiet, Running, Unreached
<1>4. PoolStage'
  BY <1>1, BlankType DEF PoolStage, Alive
<1> QED
  BY <1>2, <1>3, <1>4 DEF ProbeInv

\* The loop starts the next link's goroutine, on the engine pinned or chosen.
LEMMA LaunchKeeps ==
  ASSUME ProbeInv, Launch
  PROVE  ProbeInv'
<1> DEFINE l == batch[next]
           engine == IF pinned = NoEngine THEN classify(l) ELSE pinned
<1>1. /\ phase \in Probing /\ next <= Len(batch) /\ next \in DOMAIN batch
      /\ (phase = "ping" \/ Len(batch) > 1)
      /\ next' = next + 1
      /\ phase' = phase /\ batch' = batch /\ pinned' = pinned /\ tunnel' = tunnel
      /\ chosen' = chosen /\ strategy' = strategy
  BY DEF Launch, ProbeInv, ProbeTypes, Probing
<1>2. engine \in Engines /\ (pinned # NoEngine => engine = pinned)
  BY DEF classify, Engines, ProbeInv, ProbeTypes
<1>3. /\ result[next] \in Outcome /\ ~result[next].alive /\ going[next] = "idle"
      /\ going \in [DOMAIN batch -> Places] /\ result \in [DOMAIN batch -> Outcome]
  BY <1>1 DEF ProbeInv, ProbeTypes, Unreached, GoingSafely
<1> HIDE DEF engine
<1>4. PICK e \in Outcome, g \in {"first", "done"} :
        /\ result' = [result EXCEPT ![next] = e]
        /\ going' = [going EXCEPT ![next] = g]
        /\ e.engine = engine /\ ~e.alive
  <2>1. CASE pinned # NoEngine /\ ~classifyOn(pinned, l)
    <3> DEFINE e == [Blank EXCEPT !.engine = engine, !.error = TRUE]
    <3>1. e \in Outcome /\ e.engine = engine /\ ~e.alive
      BY ZenonT(60), <1>2, BlankType DEF Outcome, Blank
    <3>2. result' = [result EXCEPT ![next] = e] /\ going' = [going EXCEPT ![next] = "done"]
      BY <2>1 DEF Launch, engine
    <3> QED
      BY ZenonT(60), <3>1, <3>2
  <2>2. CASE ~(pinned # NoEngine /\ ~classifyOn(pinned, l))
    <3> DEFINE e == [result[next] EXCEPT !.engine = engine]
    <3>1. e \in Outcome /\ e.engine = engine /\ ~e.alive
      BY <1>2, <1>3 DEF Outcome
    <3>2. result' = [result EXCEPT ![next].engine = engine] /\ going' = [going EXCEPT ![next] = "first"]
      BY <2>2 DEF Launch, engine
    <3> QED
      BY ZenonT(60), <3>1, <3>2
  <2> QED
    BY <2>1, <2>2
<1>5. \A i \in DOMAIN batch :
        /\ going'[i] = IF i = next THEN g ELSE going[i]
        /\ result'[i] = IF i = next THEN e ELSE result[i]
  BY <1>3, <1>4
<1>6. ProbeTypes'
  BY <1>1, <1>3, <1>4 DEF ProbeInv, ProbeTypes, Places
<1>7. GoingSafely'
  BY <1>1, <1>2, <1>4, <1>5 DEF ProbeInv, GoingSafely
<1>8. Quiet' /\ Unreached'
  <2>1. Quiet'
    BY <1>1 DEF Quiet, Probing, ProbeInv, ProbeTypes
  <2>2. Unreached'
    BY <1>1, <1>5 DEF ProbeInv, ProbeTypes, Unreached
  <2> QED
    BY <2>1, <2>2
<1>9. PoolStage'
  BY <1>1 DEF ProbeInv, PoolStage, Probing
<1> QED
  BY <1>6, <1>7, <1>8, <1>9 DEF ProbeInv

\* A goroutine's step, seen from outside: it ends or falls back.
Moves(i, e, g) ==
  /\ result' = [result EXCEPT ![i] = e]
  /\ going' = [going EXCEPT ![i] = g]
  /\ UNCHANGED <<phase, batch, pinned, next, strategy, tunnel, chosen>>

\* A goroutine's step keeps the invariant when it writes an entry of its own
\* link, and reports alive only what runs the link as named.
LEMMA MoveKeeps ==
  ASSUME ProbeInv, NEW i \in DOMAIN batch, going[i] \in {"first", "second"},
         NEW e \in Outcome, NEW g \in {"second", "done"}, Moves(i, e, g),
         g = "second" => pinned = NoEngine /\ e.engine = "mihomo" /\ ~Unsafe(batch[i]),
         e.alive => /\ g = "done"
                    /\ built(e.engine, batch[i]) = Named(batch[i])
                    /\ pinned # NoEngine => e.engine = pinned
  PROVE  ProbeInv'
<1>1. /\ going \in [DOMAIN batch -> Places] /\ result \in [DOMAIN batch -> Outcome]
      /\ \A j \in DOMAIN batch :
           /\ going'[j] = IF j = i THEN g ELSE going[j]
           /\ result'[j] = IF j = i THEN e ELSE result[j]
  BY DEF ProbeInv, ProbeTypes, Moves
<1>2. /\ batch' = batch /\ pinned' = pinned /\ next' = next /\ phase' = phase
      /\ tunnel' = tunnel /\ DOMAIN going = DOMAIN batch
  BY DEF Moves, ProbeInv, ProbeTypes
<1>3. ProbeTypes'
  BY <1>1, <1>2 DEF ProbeInv, ProbeTypes, Places, Moves
<1>4. GoingSafely'
  BY <1>1, <1>2 DEF ProbeInv, GoingSafely
<1>5. phase \in Probing /\ ~(phase # "ping" /\ Len(batch) = 1)
  BY <1>2 DEF ProbeInv, Quiet, Running
<1>6. Quiet'
  BY <1>2, <1>5 DEF Quiet
<1>7. Unreached'
  BY <1>1, <1>2 DEF ProbeInv, Unreached
<1>8. PoolStage'
  BY <1>2, <1>5 DEF ProbeInv, PoolStage, Probing
<1> QED
  BY <1>3, <1>4, <1>6, <1>7, <1>8 DEF ProbeInv

\* Delays are counted in whole milliseconds.
LEMMA DelayCounts == \A d \in 1..MaxDelay : d \in Nat
  OBVIOUS

\* A probe that ends, with a delay or an error, writes such an entry,
LEMMA AnswerKeeps ==
  ASSUME ProbeInv, NEW i \in DOMAIN batch, going[i] \in {"first", "second"},
         Answered(i), UNCHANGED <<phase, batch, pinned, next, strategy, tunnel, chosen>>,
         built(result[i].engine, batch[i]) = Named(batch[i])
  PROVE  ProbeInv'
<1>1. result[i] \in Outcome /\ (pinned # NoEngine => result[i].engine = pinned)
  BY DEF ProbeInv, ProbeTypes, GoingSafely
<1>2. PICK e \in Outcome : e.engine = result[i].engine /\ Moves(i, e, "done")
  <2>1. CASE \E d \in 1..MaxDelay : result' = [result EXCEPT ![i].alive = TRUE, ![i].delay = d]
    <3>1. PICK d \in 1..MaxDelay : result' = [result EXCEPT ![i].alive = TRUE, ![i].delay = d]
      BY ZenonT(60), <2>1
    <3> DEFINE e == [result[i] EXCEPT !.alive = TRUE, !.delay = d]
    <3>2. e \in Outcome /\ e.engine = result[i].engine
      <4>1. d \in Nat
        BY ZenonT(60), DelayCounts
      <4> QED
        BY ZenonT(60), <1>1, <4>1 DEF Outcome
    <3>3. result' = [result EXCEPT ![i] = e]
      BY ZenonT(60), <3>1
    <3> QED
      BY ZenonT(60), <3>2, <3>3 DEF Moves, Answered
  <2>2. CASE result' = [result EXCEPT ![i].error = TRUE]
    <3> DEFINE e == [result[i] EXCEPT !.error = TRUE]
    <3>1. e \in Outcome /\ e.engine = result[i].engine
      BY ZenonT(60), <1>1 DEF Outcome
    <3> QED
      BY ZenonT(60), <2>2, <3>1 DEF Moves, Answered
  <2> QED
    BY ZenonT(60), <2>1, <2>2 DEF Answered
<1> QED
  BY <1>1, <1>2, MoveKeeps

\* one that cannot be built writes an error,
LEMMA FailKeeps ==
  ASSUME ProbeInv, NEW i \in DOMAIN batch, going[i] \in {"first", "second"},
         Fail(i), UNCHANGED <<phase, batch, pinned, next, strategy, tunnel, chosen>>
  PROVE  ProbeInv'
<1> DEFINE e == [result[i] EXCEPT !.error = TRUE]
<1>1. /\ result[i] \in Outcome
      /\ result[i].alive => /\ built(result[i].engine, batch[i]) = Named(batch[i])
                            /\ pinned # NoEngine => result[i].engine = pinned
  BY DEF ProbeInv, ProbeTypes, GoingSafely
<1>2. e \in Outcome /\ e.engine = result[i].engine /\ e.alive = result[i].alive
  BY ZenonT(60), <1>1 DEF Outcome
<1>3. Moves(i, e, "done")
  BY DEF Moves, Fail
<1> HIDE DEF e
<1> QED
  BY <1>1, <1>2, <1>3, MoveKeeps

\* the first attempt ends in one of these or falls back to mihomo,
LEMMA FirstKeeps ==
  ASSUME ProbeInv, NEW i \in DOMAIN batch, First(i)
  PROVE  ProbeInv'
<1> DEFINE l == batch[i]
           b == built(result[i].engine, l)
<1>1. /\ going[i] = "first" /\ result[i] \in Outcome
      /\ UNCHANGED <<phase, batch, pinned, next, strategy, tunnel, chosen>>
  BY DEF First, ProbeInv, ProbeTypes
<1>2. b \in {"refused", "gap"} \/ b = Named(l)
  BY BuiltAsNamed DEF built
<1>3. b = "gap" => ~Unsafe(l)
  <2>1. "gap" \notin Layers
    BY DEF Layers
  <2> QED
    BY <2>1, BuiltAsNamed, GapIsSafe DEF built
<1>4. CASE b = "gap" /\ pinned = NoEngine /\ FallBack(i)
  <2> DEFINE e == [result[i] EXCEPT !.engine = "mihomo"]
  <2>1. e \in Outcome /\ e.engine = "mihomo" /\ e.alive = result[i].alive
    BY <1>1 DEF Outcome, Engines
  <2>2. ~result[i].alive
    BY <1>1 DEF ProbeInv, GoingSafely
  <2>3. Moves(i, e, "second")
    BY <1>1, <1>4 DEF Moves, FallBack
  <2> HIDE DEF e
  <2> QED
    BY <1>1, <1>3, <1>4, <2>1, <2>2, <2>3, MoveKeeps
<1>5. CASE Fail(i)
  BY <1>1, <1>5, FailKeeps
<1>6. CASE b \in Layers /\ Answered(i)
  <2>1. b = Named(l)
    BY <1>2, <1>6 DEF Layers
  <2> QED
    BY <1>1, <1>6, <2>1, AnswerKeeps
<1> QED
  BY <1>4, <1>5, <1>6 DEF First

\* and the fallback's attempt ends in one of them.
LEMMA SecondKeeps ==
  ASSUME ProbeInv, NEW i \in DOMAIN batch, Second(i)
  PROVE  ProbeInv'
<1>1. /\ going[i] = "second" /\ result[i].engine = "mihomo"
      /\ UNCHANGED <<phase, batch, pinned, next, strategy, tunnel, chosen>>
  BY ZenonT(60) DEF Second, ProbeInv, GoingSafely
<1>2. CASE proxyFromLink(batch[i]) = "refused"
  BY <1>1, <1>2, FailKeeps DEF Second
<1>3. CASE proxyFromLink(batch[i]) # "refused"
  <2>1. built(result[i].engine, batch[i]) = Named(batch[i])
    BY <1>1, <1>3, BuiltAsNamed DEF built
  <2> QED
    BY <1>1, <1>3, <2>1, AnswerKeeps DEF Second
<1> QED
  BY <1>2, <1>3

\* The links the pick may return are the ones the probe's outcome calls for.
LEMMA PickIsBest ==
  ASSUME ProbeInv, NEW i \in pickAwgConfig, i \in DOMAIN batch
  PROVE  Best(i)
<1>1. /\ result \in [DOMAIN batch -> Outcome] /\ Alive \subseteq DOMAIN batch
      /\ \A j \in DOMAIN batch : result[j].delay \in Nat
  BY DEF ProbeInv, ProbeTypes, Outcome, Alive
<1>2. CASE Len(batch) = 1
  <2>1. DOMAIN batch = {1} /\ i = 1
    BY <1>2 DEF ProbeInv, ProbeTypes, pickAwgConfig
  <2> QED
    BY <1>1, <2>1 DEF Best
<1>3. CASE Len(batch) # 1 /\ Alive = {}
  BY <1>3 DEF Best
<1>4. CASE Len(batch) # 1 /\ Alive # {}
  <2>1. i \in Alive
    BY <1>4 DEF pickAwgConfig, pickAwgWinner
  <2>2. ASSUME strategy = "leastping", NEW j \in Alive
        PROVE  result[i].delay <= result[j].delay
    <3>1. pickAwgConfig = {k \in Alive : \A m \in Alive :
             \/ result[k].delay < result[m].delay
             \/ result[k].delay = result[m].delay /\ k <= m}
      BY <1>4, <2>2 DEF pickAwgConfig, pickAwgWinner
    <3>2. result[i].delay < result[j].delay \/ result[i].delay = result[j].delay
      BY <3>1
    <3> QED
      BY <1>1, <2>1, <3>2
  <2> QED
    BY <2>1, <2>2 DEF Best
<1> QED
  BY <1>2, <1>3, <1>4

\* wg.Wait: nothing is measured any more once a pool is ready to be picked from.
LEMMA ReadyIsQuiet ==
  ASSUME ProbeInv, phase \in {"pick", "start"}, Ready
  PROVE  Running = {}
  BY DEF ProbeInv, Quiet, Ready, Measured

\* A step that only moves the pool on leaves the probe as it is.
LEMMA StageKeeps ==
  ASSUME ProbeInv, UNCHANGED <<batch, pinned, next, going, result>>, Running = {}, PoolStage'
  PROVE  ProbeInv'
<1>1. ProbeTypes'
  BY DEF ProbeInv, ProbeTypes
<1>2. GoingSafely' /\ Unreached'
  BY DEF ProbeInv, GoingSafely, Unreached
<1>3. Quiet'
  BY DEF Quiet, Running
<1> QED
  BY <1>1, <1>2, <1>3 DEF ProbeInv

\* pickAwgLink hands over the best link, or the pool's first.
LEMMA PickKeeps ==
  ASSUME ProbeInv, PickAwg
  PROVE  ProbeInv'
<1>1. Running = {}
  BY ReadyIsQuiet DEF PickAwg
<1>2. /\ UNCHANGED <<batch, pinned, next, going, result, strategy, chosen>>
      /\ phase = "pick"
  BY DEF PickAwg
<1>3. PICK i \in pickAwgConfig :
        \/ tunnel' = i /\ phase' = "picked"
        \/ tunnel' = 0 /\ phase' = "refused"
  BY DEF PickAwg
<1>4. i # 0 /\ (i \in DOMAIN batch => Best(i))
  <2>1. i \in {1} \cup Alive
    BY DEF pickAwgConfig, pickAwgWinner
  <2>2. 0 \notin Alive
    BY DEF Alive, ProbeInv, ProbeTypes
  <2> QED
    BY <2>1, <2>2, PickIsBest
<1>5. PoolStage'
  BY <1>2, <1>3, <1>4 DEF PoolStage, Best, Alive
<1> QED
  BY <1>1, <1>2, <1>5, StageKeeps

\* The start picks by itself what it was not handed.
LEMMA StartPicksKeeps ==
  ASSUME ProbeInv, StartPicks
  PROVE  ProbeInv'
<1>1. Running = {}
  BY ReadyIsQuiet DEF StartPicks
<1>2. /\ UNCHANGED <<batch, pinned, next, going, result, strategy, tunnel>>
      /\ phase' = "started" /\ chosen' \in pickAwgConfig /\ tunnel = 0
  BY DEF StartPicks, ProbeInv, PoolStage
<1>3. chosen' \in DOMAIN batch => Best(chosen')
  BY <1>2, PickIsBest
<1>4. PoolStage'
  BY <1>2, <1>3 DEF PoolStage, Best, Alive
<1> QED
  BY <1>1, <1>2, <1>4, StageKeeps

\* The start runs what was picked.
LEMMA HandleKeeps ==
  ASSUME ProbeInv, HandleAwgStart
  PROVE  ProbeInv'
<1>1. /\ phase \in {"picked", "pool"} /\ tunnel' = tunnel /\ strategy' = strategy
      /\ Running = {}
  BY DEF HandleAwgStart, ProbeInv, Quiet, Probing
<1>2. PICK named :
        /\ chooseAwgLink(named)
        /\ phase = "picked" => named = tunnel
  BY DEF HandleAwgStart
<1>3. CASE named = 0
  <2>1. phase = "pool" /\ tunnel = 0
    BY <1>1, <1>2, <1>3 DEF ProbeInv, PoolStage, ProbeTypes
  <2> QED
    BY <1>1, <1>2, <1>3, <2>1, OpenKeeps DEF chooseAwgLink
<1>4. CASE named # 0
  <2>1. /\ chosen' = IF named \in DOMAIN batch THEN named ELSE 0
        /\ phase' = IF named \in DOMAIN batch THEN "started" ELSE "refused"
        /\ UNCHANGED <<batch, pinned, next, going, result>>
    BY <1>2, <1>4 DEF chooseAwgLink
  <2>2. phase = "pool" => tunnel = 0 /\ Alive = {}
    BY DEF ProbeInv, PoolStage
  <2>3. PoolStage'
    <3>1. CASE phase = "pool"
      BY <1>1, <2>1, <2>2, <3>1 DEF PoolStage, Best, Alive
    <3>2. CASE phase = "picked"
      <4>1. named = tunnel /\ (tunnel \in DOMAIN batch => Best(tunnel))
        BY <1>2, <3>2 DEF ProbeInv, PoolStage
      <4> QED
        BY <1>1, <2>1, <4>1 DEF PoolStage, Best, Alive
    <3> QED
      BY <1>1, <3>1, <3>2
  <2> QED
    BY <1>1, <2>1, <2>3, StageKeeps
<1> QED
  BY <1>3, <1>4

\* Every step of a probe or a start keeps the invariant.
LEMMA ProbeStep == ProbeInv /\ [ProbeNext]_probeVars => ProbeInv'
<1> SUFFICES ASSUME ProbeInv, [ProbeNext]_probeVars PROVE ProbeInv'
  OBVIOUS
<1>1. CASE Launch
  BY <1>1, LaunchKeeps
<1>2. CASE \E i \in DOMAIN batch : First(i) \/ Second(i)
  BY <1>2, FirstKeeps, SecondKeeps
<1>3. CASE PingReturns
  <2>1. /\ UNCHANGED <<batch, pinned, next, going, result, tunnel>>
        /\ Running = {} /\ phase = "ping" /\ phase' = "measured"
    BY <1>3 DEF PingReturns, Measured
  <2>2. PoolStage'
    BY <2>1 DEF ProbeInv, PoolStage
  <2> QED
    BY <2>1, <2>2, StageKeeps
<1>4. CASE PickRequested
  <2>1. Open("pick", batch, NoEngine) /\ tunnel' = 0
    BY <1>4 DEF PickRequested, ProbeInv, PoolStage
  <2> QED
    BY <2>1, OpenKeeps
<1>5. CASE PickAwg
  BY <1>5, PickKeeps
<1>6. CASE HandleAwgStart
  BY <1>6, HandleKeeps
<1>7. CASE StartPicks
  BY <1>7, StartPicksKeeps
<1>8. CASE UNCHANGED probeVars
  <2>1. ProbeTypes' /\ GoingSafely' /\ Unreached'
    BY <1>8 DEF probeVars, ProbeInv, ProbeTypes, GoingSafely, Unreached
  <2>2. Quiet' /\ PoolStage'
    BY <1>8 DEF probeVars, ProbeInv, Quiet, Running, PoolStage, Best, Alive
  <2> QED
    BY <2>1, <2>2 DEF ProbeInv
<1> QED
  BY <1>1, <1>2, <1>3, <1>4, <1>5, <1>6, <1>7, <1>8 DEF ProbeNext, Probes

\* For any batch and any engine pinned, a link reported alive was dialled under
\* the layer it names, on the pinned engine if one was: the fallback to mihomo
\* never weakens what xray refused.
THEOREM FallbackKeepsSafety == ProbeSpec => []FallbackNeverWeakens
<1>1. ProbeInv => FallbackNeverWeakens
  BY DEF ProbeInv, ProbeTypes, GoingSafely, FallbackNeverWeakens
<1> QED
  BY ProbeInitInv, ProbeStep, <1>1, PTL DEF ProbeSpec

\* For any pool and either strategy, the tunnel a start runs is the one that was
\* picked, and an alive one, the fastest under leastping, whenever one is.
THEOREM PickedLinkRuns == ProbeSpec => []PickedTunnel
<1>1. ProbeInv => PickedTunnel
  BY DEF ProbeInv, PoolStage, PickedTunnel, Best
<1> QED
  BY ProbeInitInv, ProbeStep, <1>1, PTL DEF ProbeSpec
=============================================================================
