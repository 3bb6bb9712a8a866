---------------------------- MODULE RoutingTable ----------------------------
(***************************************************************************)
(* The routing table of models/routing_table.go as operators on values.    *)
(*                                                                         *)
(* A table is the Go map Entries: a function from the routing keys that    *)
(* are present to their entries; an entry is the Go map Backends: a        *)
(* function from the backend server keys present to their details.  The    *)
(* methods of RoutingTable mutate the maps in place; here each returns the *)
(* new table.  Time is a natural number passed in as now.                  *)
(***************************************************************************)
EXTENDS Integers, FiniteSets

CONSTANTS
  Ports,         \* external ports (RoutingKey.Port)
  SniHostnames,  \* SNI hostnames, EmptySni included (RoutingKey.SniHostname)
  EmptySni,      \* the hostname "" of a route without SNI
  Backends,      \* BackendServerKey: address, port, TLS port, instance id
  Guids,         \* guids of modification tags
  Nil            \* Go's nil

ASSUME RoutingTableAssumption ==
  /\ EmptySni \in SniHostnames
  /\ Nil \notin SniHostnames
  /\ Nil \notin Nat

RoutingKey == [port : Ports, sni : SniHostnames]
ModificationTag == [guid : Guids, index : Nat]
BackendServerInfo == [backend : Backends, tag : ModificationTag, ttl : Nat]
BackendServerDetails == [tag : ModificationTag, ttl : Nat, updated : Nat]

\* An entry has a backend: the last one takes its routing key with it.
RoutingTableEntry(e) ==
  /\ DOMAIN e \subseteq Backends /\ DOMAIN e # {}
  /\ e \in [DOMAIN e -> BackendServerDetails]
IsRoutingTable(t) ==
  /\ DOMAIN t \subseteq RoutingKey
  /\ t = [k \in DOMAIN t |-> t[k]]
  /\ \A k \in DOMAIN t : RoutingTableEntry(t[k])

NewRoutingTable == [k \in {} |-> Nil]

Size(t) == Cardinality(DOMAIN t)

\* The key/backend pairs a table holds, which is all of it that HAProxy sees.
Route == RoutingKey \X Backends
Routes(t) == {r \in Route : r[1] \in DOMAIN t /\ r[2] \in DOMAIN t[r[1]]}

-----------------------------------------------------------------------------
(* Details and their modification tags.                                    *)

\* External: ModificationTag.SucceededBy of routing-api's models.
SucceededBy(tag, other) == tag.guid # other.guid \/ tag.index < other.index

UpdateSucceededBy(d, other) == SucceededBy(d.tag, other.tag)

\* An event that carries the very tag of the entry no longer deletes it.
DeleteSucceededByStrict(d, other) == SucceededBy(d.tag, other.tag)

DeleteSucceededBy(d, other) ==
  d.tag = other.tag \/ SucceededBy(d.tag, other.tag)

\* Nothing in the details reaches the configuration of HAProxy (yet).
DifferentFrom(d, other) == UpdateSucceededBy(d, other) /\ FALSE

\* The comparison is After, not "after or at".
Expired(d, defaultTTL, now) ==
  LET ttl == IF d.ttl = 0 THEN defaultTTL ELSE d.ttl
  IN  now - ttl > d.updated

serverDetailsFromInfo(info, now) ==
  [tag |-> info.tag, ttl |-> info.ttl, updated |-> now]

-----------------------------------------------------------------------------
(* UpsertBackendServerKey in two halves: what it reads, then what it       *)
(* writes.  Under the updater's lock nothing comes between the two; a bulk *)
(* sync calls it without the lock.                                         *)

\* A backend that is new under a known key is not reported as a change.
UpsertLookupKeyOnly(t, key, info, now) ==
  LET keyFound     == key \in DOMAIN t
      backendFound == keyFound /\ info.backend \in DOMAIN t[key]
      new          == serverDetailsFromInfo(info, now)
  IN  [key |-> key, backend |-> info.backend, details |-> new,
       newKey |-> ~keyFound,
       write  |-> ~backendFound \/ UpdateSucceededBy(t[key][info.backend], new),
       reload |-> ~keyFound]

UpsertLookup(t, key, info, now) ==
  LET keyFound     == key \in DOMAIN t
      backendFound == keyFound /\ info.backend \in DOMAIN t[key]
      new          == serverDetailsFromInfo(info, now)
  IN  [key |-> key, backend |-> info.backend, details |-> new,
       newKey |-> ~keyFound,
       write  |-> ~backendFound \/ UpdateSucceededBy(t[key][info.backend], new),
       reload |-> ~backendFound \/ DifferentFrom(t[key][info.backend], new)]

\* The values UpsertLookup returns.
PendingUpsert ==
  [key : RoutingKey, backend : Backends, details : BackendServerDetails,
   newKey : BOOLEAN, write : BOOLEAN, reload : BOOLEAN]

\* A routing key that was not found gets a new entry with this one backend.
UpsertStore(t, u) ==
  IF u.newKey
  THEN [k \in DOMAIN t \cup {u.key} |->
          IF k = u.key THEN [b \in {u.backend} |-> u.details] ELSE t[k]]
  ELSE IF u.write
  THEN [t EXCEPT ![u.key] =
          [b \in DOMAIN t[u.key] \cup {u.backend} |->
             IF b = u.backend THEN u.details ELSE t[u.key][b]]]
  ELSE t

UpsertBackendServerKey(t, key, info, now) ==
  LET u == UpsertLookup(t, key, info, now)
  IN  [table |-> UpsertStore(t, u), changed |-> u.reload]

-----------------------------------------------------------------------------
DeleteApplies(t, key, info, now) ==
  /\ key \in DOMAIN t
  /\ info.backend \in DOMAIN t[key]
  /\ DeleteSucceededBy(t[key][info.backend], serverDetailsFromInfo(info, now))

\* The routing key stays when its last backend goes.
WithoutBackendKeepingKey(t, key, backend) ==
  [t EXCEPT ![key] = [b \in DOMAIN t[key] \ {backend} |-> t[key][b]]]

WithoutBackend(t, key, backend) ==
  IF DOMAIN t[key] = {backend}
  THEN [k \in DOMAIN t \ {key} |-> t[k]]
  ELSE [t EXCEPT ![key] = [b \in DOMAIN t[key] \ {backend} |-> t[key][b]]]

DeleteBackendServerKey(t, key, info, now) ==
  IF DeleteApplies(t, key, info, now)
  THEN [table |-> WithoutBackend(t, key, info.backend), changed |-> TRUE]
  ELSE [table |-> t, changed |-> FALSE]

-----------------------------------------------------------------------------
PruneBackends(e, defaultTTL, now) ==
  [b \in {x \in DOMAIN e : ~Expired(e[x], defaultTTL, now)} |-> e[b]]

PruneEntries(t, defaultTTL, now) ==
  LET pruned(k) == PruneBackends(t[k], defaultTTL, now)
  IN  [k \in {x \in DOMAIN t : DOMAIN pruned(x) # {}} |-> pruned(k)]
=============================================================================
