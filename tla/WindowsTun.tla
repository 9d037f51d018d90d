----------------------------- MODULE WindowsTun -----------------------------
(***************************************************************************)
(* The routes of a TUN session on Windows (core/tun_windows_config.go):    *)
(* what configureTunV3 adds, what it records for cleanupTun, and what      *)
(* cleanupTun takes away.  The physical network may change at any moment,  *)
(* so each lookup of the default gateway has its own answer.  Adding a     *)
(* route through a gateway that was found is taken to work.                *)
(***************************************************************************)
EXTENDS Integers

CONSTANTS
    Gateway,    \* the default gateways the machine may have
    Server      \* addresses of proxy servers

NoGateway == "no gateway"

VARIABLES
    gateway,    \* the default gateway, or none
    split,      \* the split defaults are on the TUN adapter
    excluded,   \* gateways that carry the LAN exclusions
    pinned,     \* <<server, gateway>> host routes
    lastServerIPv4s,
    lastPhyLUID \* the gateway's interface of the exclusions, or none (lastExclusionsSet)

tunVars == <<gateway, split, excluded, pinned, lastServerIPv4s, lastPhyLUID>>

TunInit ==
    /\ gateway \in Gateway
    /\ split = FALSE /\ excluded = {} /\ pinned = {}
    /\ lastServerIPv4s = {} /\ lastPhyLUID = NoGateway

NetworkChanges ==
    /\ gateway' \in (Gateway \union {NoGateway}) \ {gateway}
    /\ UNCHANGED <<split, excluded, pinned, lastServerIPv4s, lastPhyLUID>>

\* The LAN exclusions, via the gateway there is when they are added, if any.
Exclude ==
    \/ UNCHANGED <<excluded, lastPhyLUID>>
    \/ /\ gateway # NoGateway
       /\ excluded' = excluded \union {gateway} /\ lastPhyLUID' = gateway

\* configureTunV3 returns an error: the address could not be set, or there is
\* no gateway to pin a server to once the exclusions were added, or the
\* adapter's index is gone once every route was.
ConfigureFails(servers) ==
    /\ UNCHANGED gateway
    /\ \/ UNCHANGED <<split, excluded, pinned, lastServerIPv4s, lastPhyLUID>>
       \/ /\ servers # {} /\ split' = TRUE /\ Exclude
          /\ lastServerIPv4s' = {} /\ UNCHANGED pinned
       \/ /\ split' = TRUE /\ Exclude
          /\ servers = {} \/ gateway # NoGateway
          /\ lastServerIPv4s' = servers
          /\ pinned' = pinned \union (servers \X {gateway})

ConfigureWorks(servers) ==
    /\ servers = {} \/ gateway # NoGateway
    /\ split' = TRUE /\ Exclude
    /\ lastServerIPv4s' = servers
    /\ pinned' = pinned \union (servers \X {gateway})
    /\ UNCHANGED gateway

\* cleanupTun finds the adapter: it deletes through the gateway of now.
CleanupTun ==
    /\ split' = FALSE
    /\ pinned' = pinned \ (lastServerIPv4s \X {gateway})
    /\ excluded' = IF lastPhyLUID = gateway THEN excluded \ {gateway} ELSE excluded
    /\ lastServerIPv4s' = {} /\ lastPhyLUID' = NoGateway
    /\ UNCHANGED gateway

\* The adapter is already gone, and its routes with it: nothing else is undone.
CleanupSkipped ==
    /\ split' = FALSE
    /\ UNCHANGED <<gateway, excluded, pinned, lastServerIPv4s, lastPhyLUID>>
=============================================================================
