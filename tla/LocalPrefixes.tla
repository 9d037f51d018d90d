---------------------------- MODULE LocalPrefixes ----------------------------
(***************************************************************************)
(* The local networks content sniffing leaves alone, without the fake-IP   *)
(* pool that lies inside one of them (xrayconfig/socks.go).  An address is *)
(* a sequence of Width bits; a prefix is the sequence of its leading bits. *)
(***************************************************************************)
EXTENDS Naturals, Sequences, FiniteSets

CONSTANT Width   \* bits of an address

ASSUME WidthAssumption == Width \in Nat \ {0}

VARIABLES local, \* the local networks: a set of prefixes
          hole   \* the fake-IP pool

CIDRs == UNION {[1..n -> {0, 1}] : n \in 0..Width}

Addresses == [1..Width -> {0, 1}]

Holds(p, a) == Len(p) <= Len(a) /\ SubSeq(a, 1, Len(p)) = p

Overlaps(p, q) == Holds(p, q) \/ Holds(q, p)

\* The other half of the prefix's parent.
siblingOf(p) == [p EXCEPT ![Len(p)] = 1 - p[Len(p)]]

\* MUTANT of prefixesWithout: the last bit of the hole is left out.
prefixesWithoutLast(base, h) ==
  {siblingOf(SubSeq(h, 1, bits)) : bits \in (Len(base) + 1)..(Len(h) - 1)}

\* The prefixes covering base minus hole, which lies inside base; none when
\* the base is no longer than the hole.
prefixesWithout(base, h) ==
  {siblingOf(SubSeq(h, 1, bits)) : bits \in (Len(base) + 1)..Len(h)}

localSniffExclusions ==
  {p \in local : ~Overlaps(p, hole)}
    \cup UNION {prefixesWithout(p, hole) : p \in {q \in local : Overlaps(q, hole)}}

\* Two local networks, disjoint as LocalNetworkCIDRs' are, and any pool.
PrefixInit ==
  /\ hole \in CIDRs
  /\ \E p, q \in CIDRs : (p = q \/ ~Overlaps(p, q)) /\ local = {p, q}

------------------------------------------------------------------------------
\* An address is excluded from sniffing exactly when it is local and not of
\* the fake pool: a flow to a fake address is still restored to its name, and
\* a LAN device keeps its address-based routing.
SniffsPoolOnly ==
  \A a \in Addresses :
    (\E p \in localSniffExclusions : Holds(p, a)) <=>
      (\E p \in local : Holds(p, a)) /\ ~Holds(hole, a)
==============================================================================
