---------------------------- MODULE UpdaterProofs ----------------------------
(***************************************************************************)
(* Proofs about Updater, for any routes, events, fetches and any number of *)
(* syncs and drains.                                                       *)
(***************************************************************************)
EXTENDS Updater, TLAPS

-----------------------------------------------------------------------------
(* What the operations of RoutingTable return: always a routing table, and *)
(* with which routes.                                                      *)

\* A table without routes is a table.
LEMMA NewRoutingTableType ==
  IsRoutingTable(NewRoutingTable) /\ DOMAIN NewRoutingTable = {}
BY DEF IsRoutingTable, NewRoutingTable

\* UpsertLookup returns what UpsertStore expects.
LEMMA UpsertLookupType ==
  ASSUME NEW t, IsRoutingTable(t), NEW key \in RoutingKey,
         NEW info \in BackendServerInfo, NEW time \in Nat
  PROVE  LET u == UpsertLookup(t, key, info, time)
         IN  /\ u \in PendingUpsert
             /\ u.key = key /\ u.backend = info.backend
             /\ ~u.newKey => u.key \in DOMAIN t
BY DEF UpsertLookup, PendingUpsert, serverDetailsFromInfo, BackendServerInfo,
       BackendServerDetails

\* The boolean of UpsertBackendServerKey: FALSE only for a route that is there.
LEMMA UpsertLookupReload ==
  ASSUME NEW t, IsRoutingTable(t), NEW key \in RoutingKey,
         NEW info \in BackendServerInfo, NEW time \in Nat,
         ~UpsertLookup(t, key, info, time).reload
  PROVE  <<key, info.backend>> \in Routes(t)
<1>1. key \in DOMAIN t /\ info.backend \in DOMAIN t[key]
  BY DEF UpsertLookup
<1>2. info.backend \in Backends
  BY DEF BackendServerInfo
<1> QED
  BY <1>1, <1>2 DEF Routes, Route

\* Storing an upsert keeps the table a table and loses no routing key.
LEMMA UpsertStoreType ==
  ASSUME NEW t, IsRoutingTable(t), NEW u \in PendingUpsert,
         ~u.newKey /\ u.write => u.key \in DOMAIN t
  PROVE  /\ IsRoutingTable(UpsertStore(t, u))
         /\ DOMAIN t \subseteq DOMAIN UpsertStore(t, u)
<1> DEFINE n == UpsertStore(t, u)
<1>0. /\ u.key \in RoutingKey /\ u.backend \in Backends
      /\ u.details \in BackendServerDetails
  BY DEF PendingUpsert
<1>1. CASE u.newKey
  <2>1. n = [k \in DOMAIN t \cup {u.key} |->
               IF k = u.key THEN [b \in {u.backend} |-> u.details] ELSE t[k]]
    BY <1>1 DEF UpsertStore
  <2>2. RoutingTableEntry([b \in {u.backend} |-> u.details])
    BY <1>0 DEF RoutingTableEntry
  <2> QED
    BY <1>0, <2>1, <2>2 DEF IsRoutingTable
<1>2. CASE ~u.newKey /\ u.write
  <2> DEFINE e == [b \in DOMAIN t[u.key] \cup {u.backend} |->
                     IF b = u.backend THEN u.details ELSE t[u.key][b]]
  <2>1. n = [t EXCEPT ![u.key] = e]
    BY <1>2 DEF UpsertStore
  <2>2. RoutingTableEntry(t[u.key])
    BY <1>2 DEF IsRoutingTable
  <2>3. RoutingTableEntry(e)
    BY <1>0, <2>2 DEF RoutingTableEntry
  <2> HIDE DEF e, n
  <2>4. DOMAIN n = DOMAIN t /\ n = [k \in DOMAIN t |-> IF k = u.key THEN e ELSE t[k]]
    BY <2>1, <1>2 DEF IsRoutingTable
  <2> QED
    BY <2>3, <2>4 DEF IsRoutingTable, n
<1>3. CASE ~u.newKey /\ ~u.write
  BY <1>3 DEF UpsertStore
<1> QED
  BY <1>1, <1>2, <1>3 DEF PendingUpsert

\* It adds at most its own route.
LEMMA UpsertStoreRoutes ==
  ASSUME NEW t, IsRoutingTable(t), NEW u \in PendingUpsert,
         ~u.newKey /\ u.write => u.key \in DOMAIN t
  PROVE  Routes(UpsertStore(t, u)) \subseteq Routes(t) \cup {<<u.key, u.backend>>}
<1> SUFFICES ASSUME NEW r \in Routes(UpsertStore(t, u)), r \notin Routes(t)
             PROVE  r = <<u.key, u.backend>>
  OBVIOUS
<1>1. r \in Route /\ r = <<r[1], r[2]>>
  BY DEF Routes, Route
<1>2. r[1] = u.key /\ r[2] = u.backend
  BY <1>1 DEF Routes, UpsertStore, PendingUpsert, IsRoutingTable
<1> QED
  BY <1>1, <1>2

\* Deleting keeps the table a table, adds no route, and without a change is a no-op.
LEMMA DeleteType ==
  ASSUME NEW t, IsRoutingTable(t), NEW key \in RoutingKey,
         NEW info \in BackendServerInfo, NEW time \in Nat
  PROVE  LET r == DeleteBackendServerKey(t, key, info, time)
         IN  /\ IsRoutingTable(r.table)
             /\ r.changed \in BOOLEAN
             /\ ~r.changed => r.table = t
<1> DEFINE b == info.backend
           n == WithoutBackend(t, key, b)
<1>1. ASSUME DeleteApplies(t, key, info, time) PROVE IsRoutingTable(n)
  <2>1. key \in DOMAIN t /\ b \in DOMAIN t[key] /\ RoutingTableEntry(t[key])
    BY <1>1 DEF DeleteApplies, IsRoutingTable
  <2>2. CASE DOMAIN t[key] = {b}
    BY <2>2 DEF WithoutBackend, IsRoutingTable
  <2>3. CASE DOMAIN t[key] # {b}
    <3> DEFINE e == [x \in DOMAIN t[key] \ {b} |-> t[key][x]]
    <3>1. RoutingTableEntry(e)
      BY <2>1, <2>3 DEF RoutingTableEntry
    <3>2. n = [t EXCEPT ![key] = e]
      BY <2>3 DEF WithoutBackend
    <3> HIDE DEF e, n
    <3>3. n = [k \in DOMAIN t |-> IF k = key THEN e ELSE t[k]]
      BY <3>2 DEF IsRoutingTable
    <3> QED
      BY <3>1, <3>3 DEF IsRoutingTable
  <2> QED
    BY <2>2, <2>3
<1> QED
  BY <1>1 DEF DeleteBackendServerKey

\* Pruning keeps the table a table and adds neither a routing key nor a route.
LEMMA PruneType ==
  ASSUME NEW t, IsRoutingTable(t), NEW ttl, NEW time
  PROVE  LET n == PruneEntries(t, ttl, time)
         IN  /\ IsRoutingTable(n)
             /\ DOMAIN n \subseteq DOMAIN t
             /\ Routes(n) \subseteq Routes(t)
<1> DEFINE n == PruneEntries(t, ttl, time)
           P(k) == PruneBackends(t[k], ttl, time)
<1>1. n = [k \in {x \in DOMAIN t : DOMAIN P(x) # {}} |-> P(k)]
  BY DEF PruneEntries
<1>2. ASSUME NEW k \in DOMAIN t, DOMAIN P(k) # {}
      PROVE  RoutingTableEntry(P(k)) /\ DOMAIN P(k) \subseteq DOMAIN t[k]
  <2>1. RoutingTableEntry(t[k])
    BY DEF IsRoutingTable
  <2> QED
    BY <1>2, <2>1 DEF PruneBackends, RoutingTableEntry
<1> HIDE DEF n, P
<1>3. IsRoutingTable(n) /\ DOMAIN n \subseteq DOMAIN t
  BY <1>1, <1>2 DEF IsRoutingTable
<1>4. Routes(n) \subseteq Routes(t)
  BY <1>1, <1>2 DEF Routes
<1> QED
  BY <1>3, <1>4 DEF n

-----------------------------------------------------------------------------
(* The operators of Updater.                                               *)

\* A mapping becomes a routing key and a backend server info.
LEMMA MappingType ==
  ASSUME NEW m \in TcpRouteMapping
  PROVE  toRoutingKey(m) \in RoutingKey /\ toBackendServerInfo(m) \in BackendServerInfo
BY RoutingTableAssumption
DEF RoutingTableAssumption, TcpRouteMapping, toRoutingKey, toBackendServerInfo,
    RoutingKey, BackendServerInfo

\* An event leaves a routing table, and one that reports no change adds no route.
LEMMA HandleEventType ==
  ASSUME NEW t, IsRoutingTable(t), NEW e \in TcpEvent, now \in Nat
  PROVE  LET r == handleEvent(t, e)
         IN  /\ IsRoutingTable(r.table)
             /\ r.changed \in BOOLEAN
             /\ ~r.changed => Routes(r.table) \subseteq Routes(t)
<1> DEFINE key  == toRoutingKey(e.mapping)
           info == toBackendServerInfo(e.mapping)
           u    == UpsertLookup(t, key, info, now)
<1>0. /\ e.mapping \in TcpRouteMapping
      /\ e.action = "Upsert" \/ e.action = "Delete" \/ e.action = "Unknown"
  BY DEF TcpEvent
<1>1. key \in RoutingKey /\ info \in BackendServerInfo
  BY <1>0, MappingType
<1> HIDE DEF key, info
<1>2. CASE e.action = "Upsert"
  <2>1. handleEvent(t, e) = [table |-> UpsertStore(t, u), changed |-> u.reload]
    BY <1>2 DEF handleEvent, UpsertBackendServerKey, key, info
  <2>2. /\ u \in PendingUpsert /\ u.key = key /\ u.backend = info.backend
        /\ ~u.newKey => u.key \in DOMAIN t
    BY <1>1, UpsertLookupType
  <2>3. ~u.reload => <<u.key, u.backend>> \in Routes(t)
    BY <1>1, <2>2, UpsertLookupReload
  <2> HIDE DEF u
  <2>4. /\ IsRoutingTable(UpsertStore(t, u))
        /\ Routes(UpsertStore(t, u)) \subseteq Routes(t) \cup {<<u.key, u.backend>>}
    BY <2>2, UpsertStoreType, UpsertStoreRoutes
  <2>5. u.reload \in BOOLEAN
    BY <2>2 DEF PendingUpsert
  <2> QED
    BY <2>1, <2>3, <2>4, <2>5
<1>3. CASE e.action = "Delete"
  <2>1. handleEvent(t, e) = DeleteBackendServerKey(t, key, info, now)
    BY <1>3 DEF handleEvent, key, info
  <2> QED
    BY <1>1, <2>1, DeleteType
<1>4. CASE e.action = "Unknown"
  BY <1>4 DEF handleEvent
<1> QED
  BY <1>0, <1>2, <1>3, <1>4

\* An upsert that holds a detached entry will write nothing; the others are as
\* they were.
LEMMA DetachType ==
  ASSUME TypeOK, NEW keys
  PROVE  LET D == Detach(keys)
         IN  /\ D \in [Syncs -> PendingUpsert \cup {Nil}]
             /\ \A s \in Syncs : spc[s] = "store" =>
                  /\ D[s] \in PendingUpsert
                  /\ ~D[s].newKey /\ D[s].write
                       => D[s].key \in DOMAIN table \ keys
                  /\ D[s].key = upsert[s].key
                  /\ D[s].backend = upsert[s].backend
                  /\ D[s].reload = upsert[s].reload
<1>1. ASSUME NEW u \in PendingUpsert
      PROVE  /\ Lost(u) \in PendingUpsert
             /\ ~Lost(u).newKey /\ ~Lost(u).write
             /\ Lost(u).key = u.key /\ Lost(u).backend = u.backend
             /\ Lost(u).reload = u.reload
  BY DEF Lost, PendingUpsert
<1> QED
  BY <1>1 DEF TypeOK, Detach

-----------------------------------------------------------------------------
(* Safety that holds however many syncs overlap.                           *)

\* The mutex is where the watcher and the syncs say it is.
LockInv ==
  /\ wpc = "configure" <=> lock = Watcher
  /\ \A s \in Syncs : spc[s] \in {"replay", "configure"} <=> lock = s

\* HAProxy is in drain mode only during a drain, and so is every Configure that
\* has been called during a drain.
DrainInv ==
  /\ drainMode => isDraining
  /\ wpc = "configure" \/ (\E s \in Syncs : spc[s] = "configure")
       => forced = isDraining
  /\ \A d \in Drains : dpc[d] \in {"call", "configure"} => isDraining

\* A step of the updater on whatever event and whatever fetch: what follows holds
\* for any source of them, also for the routing API of TableSync.
AnyNext ==
  \/ \E e \in TcpEvent : HandleEvent(e)
  \/ HandlerConfigure
  \/ \E s \in Syncs :
       \/ SyncStart(s)
       \/ \E mappings \in SUBSET TcpRouteMapping : SyncFetchRoutes(s, mappings)
       \/ SyncStep(s)
  \/ PruneStaleRoutes
  \/ Tick
  \/ \E d \in Drains : DrainRequest(d) \/ Drain(d)

LEMMA AnyStep == [Next]_vars => [AnyNext]_vars
BY UpdaterAssumption DEF UpdaterAssumption, Next, AnyNext

LEMMA TypeOKInit == Init => TypeOK
<1> SUFFICES ASSUME Init PROVE TypeOK
  OBVIOUS
<1> USE UpdaterAssumption, NewRoutingTableType DEF Init, UpdaterAssumption
<1>1. IsRoutingTable(table) /\ cachedEvents \in Seq(TcpEvent)
  OBVIOUS
<1>2. /\ spc \in [Syncs -> {"idle", "token", "routes", "lookup", "store",
                            "finish", "replay", "configure"}]
      /\ \A s \in Syncs : spc[s] = "idle"
      /\ attempt \in [Syncs -> {0, 1}]
      /\ todo \in [Syncs -> SUBSET TcpRouteMapping]
      /\ changed \in [Syncs -> BOOLEAN]
      /\ upsert \in [Syncs -> PendingUpsert \cup {Nil}]
      /\ replayed \in [Syncs -> Nat]
  OBVIOUS
<1>3. fresh = [s \in Syncs |-> fresh[s]] /\ \A s \in Syncs : IsRoutingTable(fresh[s])
  OBVIOUS
<1>4. /\ dpc \in [Drains -> {"idle", "poll", "check", "set", "call", "configure",
                             "wait", "done"}]
      /\ detached = [d \in Drains |-> detached[d]]
      /\ \A d \in Drains : detached[d] # Nil => IsRoutingTable(detached[d])
  OBVIOUS
<1> QED
  BY <1>1, <1>2, <1>3, <1>4 DEF TypeOK

\* The steps of HandleEvent, the pruner and the clock.
LEMMA TypeOKShared ==
  ASSUME TypeOK,
         \/ \E e \in TcpEvent : HandleEvent(e)
         \/ HandlerConfigure \/ PruneStaleRoutes \/ Tick
  PROVE  TypeOK'
<1> USE UpdaterAssumption DEF UpdaterAssumption
<1>1. ASSUME NEW e \in TcpEvent, CacheEvent(e) PROVE TypeOK'
  BY <1>1 DEF CacheEvent, TypeOK, syncVars, drainVars, haproxyVars
<1>2. ASSUME NEW e \in TcpEvent, ApplyEvent(e) PROVE TypeOK'
  <2> DEFINE r == handleEvent(table, e)
             keys == DOMAIN table \ DOMAIN r.table
  <2>1. IsRoutingTable(r.table) /\ r.changed \in BOOLEAN
    BY HandleEventType DEF TypeOK
  <2>2. /\ Detach(keys) \in [Syncs -> PendingUpsert \cup {Nil}]
        /\ \A s \in Syncs : spc[s] = "store" =>
             /\ Detach(keys)[s] \in PendingUpsert
             /\ ~Detach(keys)[s].newKey /\ Detach(keys)[s].write
                  => Detach(keys)[s].key \in DOMAIN r.table
    BY DetachType
  <2> HIDE DEF r
  <2>3. /\ table' = r.table /\ upsert' = Detach(keys)
        /\ wpc' = (IF r.changed THEN "configure" ELSE "idle")
        /\ lock' = (IF r.changed THEN Watcher ELSE NoOne)
        /\ forced' = isDraining
        /\ UNCHANGED <<syncing, cachedEvents, isDraining, now, spc, attempt, todo,
                       fresh, changed, replayed, drainVars, haproxyVars>>
    BY <1>2 DEF ApplyEvent, r
  <2> HIDE DEF keys
  <2> QED
    BY <2>1, <2>2, <2>3 DEF TypeOK, drainVars, haproxyVars
<1>3. CASE HandlerConfigure
  BY <1>3 DEF HandlerConfigure, Configure, Routes, TypeOK, syncVars, drainVars, haproxyVars
<1>4. CASE PruneStaleRoutes
  <2> DEFINE keys == DOMAIN table \ DOMAIN table'
  <2>1. IsRoutingTable(table')
    BY <1>4, PruneType DEF PruneStaleRoutes, TypeOK
  <2>2. /\ Detach(keys) \in [Syncs -> PendingUpsert \cup {Nil}]
        /\ \A s \in Syncs : spc[s] = "store" =>
             /\ Detach(keys)[s] \in PendingUpsert
             /\ ~Detach(keys)[s].newKey /\ Detach(keys)[s].write
                  => Detach(keys)[s].key \in DOMAIN table'
    BY DetachType
  <2>3. /\ upsert' = Detach(keys)
        /\ UNCHANGED <<syncing, cachedEvents, lock, isDraining, now, wpc, forced, spc,
                       attempt, todo, fresh, changed, replayed, drainVars, haproxyVars>>
    BY <1>4 DEF PruneStaleRoutes
  <2> HIDE DEF keys
  <2> QED
    BY <2>1, <2>2, <2>3 DEF TypeOK, drainVars, haproxyVars
<1>5. CASE Tick
  BY <1>5 DEF Tick, TypeOK, fieldVars, syncVars, drainVars, haproxyVars
<1> QED
  BY <1>1, <1>2, <1>3, <1>4, <1>5 DEF HandleEvent

\* What the end of Sync leaves.
LEMMA EndSyncType ==
  ASSUME TypeOK, NEW s \in Syncs, EndSync(s)
  PROVE  /\ syncing' \in BOOLEAN /\ lock' \in Syncs \cup {Watcher, NoOne}
         /\ cachedEvents' \in Seq(TcpEvent)
         /\ spc' \in [Syncs -> {"idle", "token", "routes", "lookup", "store",
                                "finish", "replay", "configure"}]
         /\ \A r \in Syncs : spc'[r] = "store" => spc[r] = "store"
         /\ attempt' \in [Syncs -> {0, 1}]
         /\ changed' \in [Syncs -> BOOLEAN]
         /\ replayed' \in [Syncs -> Nat]
<1>1. syncing' \in BOOLEAN /\ lock' \in Syncs \cup {Watcher, NoOne}
  BY DEF EndSync
<1>2. cachedEvents' \in Seq(TcpEvent)
  BY DEF EndSync
<1>3. /\ spc' \in [Syncs -> {"idle", "token", "routes", "lookup", "store",
                             "finish", "replay", "configure"}]
      /\ \A r \in Syncs : spc'[r] = "store" => spc[r] = "store"
  BY DEF EndSync, TypeOK
<1>4. attempt' \in [Syncs -> {0, 1}] /\ replayed' \in [Syncs -> Nat]
  BY DEF EndSync, TypeOK
<1>5. changed' \in [Syncs -> BOOLEAN]
  BY DEF EndSync, TypeOK
<1> QED
  BY <1>1, <1>2, <1>3, <1>4, <1>5

\* The steps of Sync.
LEMMA TypeOKSync ==
  ASSUME TypeOK, NEW s \in Syncs,
         \/ SyncStart(s)
         \/ \E mappings \in SUBSET TcpRouteMapping : SyncFetchRoutes(s, mappings)
         \/ SyncStep(s)
  PROVE  TypeOK'
<1> USE UpdaterAssumption DEF UpdaterAssumption
<1>1. CASE SyncStart(s)
  BY <1>1 DEF SyncStart, TypeOK, drainVars, haproxyVars
<1>2. ASSUME NEW mappings \in SUBSET TcpRouteMapping, SyncFetchRoutes(s, mappings) PROVE TypeOK'
  BY <1>2 DEF SyncFetchRoutes, TypeOK, fieldVars, drainVars, haproxyVars
<1>3. CASE SyncFetchToken(s) \/ SyncFetchTokenError(s) \/ SyncFetchRoutesError(s)
  BY <1>3 DEF SyncFetchToken, SyncFetchTokenError, SyncFetchRoutesError, TypeOK,
              fieldVars, drainVars, haproxyVars
<1>4. CASE SyncFetchRoutesUnauthorized(s)
  BY <1>4 DEF SyncFetchRoutesUnauthorized, TypeOK, fieldVars, drainVars, haproxyVars
<1>5. CASE SyncLookup(s)
  <2>1. PICK m \in todo[s] :
          LET key  == toRoutingKey(m)
              info == toBackendServerInfo(m)
          IN  /\ todo' = [todo EXCEPT ![s] = @ \ {m}]
              /\ upsert' = [upsert EXCEPT ![s] = UpsertLookup(table, key, info, now)]
              /\ fresh' = [fresh EXCEPT ![s] = UpsertBackendServerKey(@, key, info, now).table]
    BY <1>5 DEF SyncLookup
  <2> DEFINE key  == toRoutingKey(m)
             info == toBackendServerInfo(m)
             u    == UpsertLookup(table, key, info, now)
             f    == UpsertLookup(fresh[s], key, info, now)
             n    == UpsertStore(fresh[s], f)
  <2>2. key \in RoutingKey /\ info \in BackendServerInfo
    BY MappingType DEF TypeOK
  <2>3. u \in PendingUpsert /\ (~u.newKey => u.key \in DOMAIN table)
    BY <2>2, UpsertLookupType DEF TypeOK
  <2>4. f \in PendingUpsert /\ (~f.newKey => f.key \in DOMAIN fresh[s])
    BY <2>2, UpsertLookupType DEF TypeOK
  <2>5. IsRoutingTable(n)
    BY <2>4, UpsertStoreType DEF TypeOK
  <2>6. /\ todo' = [todo EXCEPT ![s] = @ \ {m}]
        /\ upsert' = [upsert EXCEPT ![s] = u]
        /\ fresh' = [fresh EXCEPT ![s] = n]
        /\ spc' = [spc EXCEPT ![s] = "store"]
        /\ UNCHANGED <<fieldVars, now, wpc, forced, attempt, changed, replayed,
                       drainVars, haproxyVars>>
    BY <1>5, <2>1 DEF SyncLookup, UpsertBackendServerKey
  <2> HIDE DEF key, info, u, f, n
  <2> QED
    BY <2>3, <2>5, <2>6 DEF TypeOK, fieldVars, drainVars, haproxyVars
<1>6. CASE SyncStore(s)
  <2> DEFINE u == upsert[s]
             n == UpsertStore(table, u)
             D == Detach(IF u.newKey THEN {u.key} ELSE {})
  <2>1. u \in PendingUpsert /\ (~u.newKey /\ u.write => u.key \in DOMAIN table)
    BY <1>6 DEF SyncStore, TypeOK
  <2>2. IsRoutingTable(n) /\ DOMAIN table \subseteq DOMAIN n
    BY <2>1, UpsertStoreType DEF TypeOK
  <2>3. /\ D \in [Syncs -> PendingUpsert \cup {Nil}]
        /\ \A r \in Syncs : spc[r] = "store" =>
             /\ D[r] \in PendingUpsert
             /\ ~D[r].newKey /\ D[r].write => D[r].key \in DOMAIN table
    BY DetachType
  <2>4. u.reload \in BOOLEAN
    BY <2>1 DEF PendingUpsert
  <2>5. /\ table' = n
        /\ upsert' = [D EXCEPT ![s] = Nil]
        /\ changed' = [changed EXCEPT ![s] = @ \/ u.reload]
        /\ spc' = [spc EXCEPT ![s] = "lookup"]
        /\ UNCHANGED <<syncing, cachedEvents, lock, isDraining, now, wpc, forced,
                       attempt, todo, fresh, replayed, drainVars, haproxyVars>>
    BY <1>6 DEF SyncStore
  <2> HIDE DEF u, n, D
  <2> QED
    BY <2>2, <2>3, <2>4, <2>5 DEF TypeOK, drainVars, haproxyVars
<1>7. CASE SyncReplace(s)
  <2>1. ASSUME NEW u \in PendingUpsert
        PROVE  Lost(u) \in PendingUpsert /\ ~Lost(u).write
    BY DEF Lost, PendingUpsert
  <2>2. CASE Size(fresh[s]) # Size(table)
    <3>1. /\ table' = fresh[s]
          /\ changed' = [changed EXCEPT ![s] = TRUE]
          /\ upsert' = [r \in Syncs |->
                          IF spc[r] = "store" THEN Lost(upsert[r]) ELSE upsert[r]]
          /\ detached' = [d \in Drains |->
                            IF dpc[d] = "configure" /\ detached[d] = Nil
                            THEN table ELSE detached[d]]
      BY <1>7, <2>2 DEF SyncReplace
    <3>2. IsRoutingTable(table') /\ changed' \in [Syncs -> BOOLEAN]
      BY <3>1 DEF TypeOK
    <3>3. /\ upsert' \in [Syncs -> PendingUpsert \cup {Nil}]
          /\ \A r \in Syncs :
               spc[r] = "store" => upsert'[r] \in PendingUpsert /\ ~upsert'[r].write
      BY <2>1, <3>1 DEF TypeOK
    <3>4. /\ detached' = [d \in Drains |-> detached'[d]]
          /\ \A d \in Drains : detached'[d] # Nil => IsRoutingTable(detached'[d])
      BY <3>1 DEF TypeOK
    <3>5. /\ spc' \in [Syncs -> {"idle", "token", "routes", "lookup", "store",
                                 "finish", "replay", "configure"}]
          /\ \A r \in Syncs : spc'[r] = "store" => spc[r] = "store"
      BY <1>7 DEF SyncReplace, TypeOK
    <3>6. /\ fresh' = [r \in Syncs |-> fresh'[r]]
          /\ \A r \in Syncs : IsRoutingTable(fresh'[r])
      BY <1>7, NewRoutingTableType DEF SyncReplace, TypeOK
    <3>7. UNCHANGED <<syncing, cachedEvents, lock, isDraining, now, wpc, forced,
                      attempt, todo, replayed, dpc, haproxyVars>>
      BY <1>7 DEF SyncReplace
    <3> QED
      BY <3>2, <3>3, <3>4, <3>5, <3>6, <3>7 DEF TypeOK, haproxyVars
  <2>3. CASE Size(fresh[s]) = Size(table)
    BY <1>7, <2>3, NewRoutingTableType DEF SyncReplace, TypeOK, haproxyVars
  <2> QED
    BY <2>2, <2>3
<1>8. CASE SyncFinish(s)
  BY <1>8 DEF SyncFinish, TypeOK, drainVars, haproxyVars
<1>9. CASE SyncReplay(s)
  <2> DEFINE e == cachedEvents[replayed[s] + 1]
             r == handleEvent(table, e)
             D == Detach(DOMAIN table \ DOMAIN r.table)
  <2>0. e \in TcpEvent
    BY <1>9 DEF SyncReplay, TypeOK
  <2>1. IsRoutingTable(r.table) /\ r.changed \in BOOLEAN
    BY <2>0, HandleEventType DEF TypeOK
  <2>2. /\ D \in [Syncs -> PendingUpsert \cup {Nil}]
        /\ \A q \in Syncs : spc[q] = "store" =>
             /\ D[q] \in PendingUpsert
             /\ ~D[q].newKey /\ D[q].write => D[q].key \in DOMAIN r.table
    BY DetachType
  <2>3. /\ table' = r.table /\ upsert' = D
        /\ changed' = [changed EXCEPT ![s] = @ \/ r.changed]
        /\ replayed' = [replayed EXCEPT ![s] = @ + 1]
        /\ UNCHANGED <<syncing, cachedEvents, lock, isDraining, now, wpc, forced, spc,
                       attempt, todo, fresh, drainVars, haproxyVars>>
    BY <1>9 DEF SyncReplay
  <2> HIDE DEF e, r, D
  <2> QED
    BY <2>1, <2>2, <2>3 DEF TypeOK, drainVars, haproxyVars
<1>10. CASE SyncUnchanged(s)
  BY <1>10, EndSyncType DEF SyncUnchanged, TypeOK, drainVars, haproxyVars
<1>11. CASE SyncChanged(s)
  BY <1>11 DEF SyncChanged, TypeOK, fieldVars, drainVars, haproxyVars
<1>12. CASE SyncConfigure(s)
  BY <1>12, EndSyncType DEF SyncConfigure, Configure, Routes, TypeOK, drainVars
<1> QED
  BY <1>1, <1>2, <1>3, <1>4, <1>5, <1>6, <1>7, <1>8, <1>9, <1>10, <1>11, <1>12 DEF SyncStep

\* The steps of Drain.
LEMMA TypeOKDrain ==
  ASSUME TypeOK, NEW d \in Drains, DrainRequest(d) \/ Drain(d)
  PROVE  TypeOK'
<1> USE DEF DrainStep, TypeOK, syncVars, haproxyVars
<1>1. CASE DrainRequest(d) \/ DrainPoll(d) \/ DrainCheck(d) \/ DrainCall(d) \/ DrainWaited(d)
  BY <1>1 DEF DrainRequest, DrainPoll, DrainCheck, DrainCall, DrainWaited
<1>2. CASE DrainSet(d)
  BY <1>2 DEF DrainSet
<1>3. CASE DrainConfigure(d)
  BY <1>3 DEF DrainConfigure, Configure, Routes
<1> QED
  BY <1>1, <1>2, <1>3 DEF Drain

LEMMA TypeOKStep == TypeOK /\ [AnyNext]_vars => TypeOK'
<1> SUFFICES ASSUME TypeOK, [AnyNext]_vars PROVE TypeOK'
  OBVIOUS
<1>1. CASE UNCHANGED vars
  BY <1>1 DEF TypeOK, vars, fieldVars, syncVars, drainVars, haproxyVars
<1> QED
  BY <1>1, TypeOKShared, TypeOKSync, TypeOKDrain DEF AnyNext

\* The updater's state keeps its types: among them that no table ever has a
\* routing key without a backend, and that a sync's store without the mutex goes
\* to an entry of the table unless it is lost.
THEOREM TypeCorrect == Spec => []TypeOK
BY TypeOKInit, TypeOKStep, AnyStep, PTL DEF Spec

\* The inductive invariant of the three properties that follow.
LockedInv == TypeOK /\ LockInv /\ CacheOnlyWhileSyncing /\ DrainInv

LEMMA LockedInvInit == Init => LockedInv
<1> SUFFICES ASSUME Init PROVE LockInv /\ CacheOnlyWhileSyncing /\ DrainInv
  BY TypeOKInit DEF LockedInv
<1> QED
  BY UpdaterAssumption
  DEF UpdaterAssumption, Init, LockInv, CacheOnlyWhileSyncing, DrainInv

LEMMA LockedInvStep == LockedInv /\ [AnyNext]_vars => LockedInv'
<1> SUFFICES ASSUME LockedInv, [AnyNext]_vars
             PROVE  LockInv' /\ CacheOnlyWhileSyncing' /\ DrainInv'
  BY TypeOKStep DEF LockedInv
<1> USE UpdaterAssumption
    DEF UpdaterAssumption, LockedInv, TypeOK, LockInv, CacheOnlyWhileSyncing, DrainInv,
        fieldVars, syncVars, drainVars, haproxyVars
<1>1. ASSUME NEW e \in TcpEvent, HandleEvent(e)
      PROVE  LockInv' /\ CacheOnlyWhileSyncing' /\ DrainInv'
  BY <1>1 DEF HandleEvent, CacheEvent, ApplyEvent
<1>2. CASE HandlerConfigure
  BY <1>2 DEF HandlerConfigure, Configure
<1>3. ASSUME NEW s \in Syncs, SyncStart(s)
      PROVE  LockInv' /\ CacheOnlyWhileSyncing' /\ DrainInv'
  BY <1>3 DEF SyncStart
<1>4. ASSUME NEW s \in Syncs, NEW mappings \in SUBSET TcpRouteMapping, SyncFetchRoutes(s, mappings)
      PROVE  LockInv' /\ CacheOnlyWhileSyncing' /\ DrainInv'
  BY <1>4 DEF SyncFetchRoutes
<1>5. ASSUME NEW s \in Syncs,
             \/ SyncFetchToken(s) \/ SyncFetchTokenError(s)
             \/ SyncFetchRoutesUnauthorized(s) \/ SyncFetchRoutesError(s)
             \/ SyncLookup(s) \/ SyncStore(s) \/ SyncReplace(s)
      PROVE  LockInv' /\ CacheOnlyWhileSyncing' /\ DrainInv'
  <2>1. /\ UNCHANGED <<syncing, cachedEvents, lock, isDraining, wpc, forced, dpc, drainMode>>
        /\ \E pc \in {"token", "routes", "lookup", "store", "finish"} :
             spc' = [spc EXCEPT ![s] = pc]
        /\ spc[s] \in {"token", "routes", "lookup", "store"}
    BY <1>5 DEF SyncFetchToken, SyncFetchTokenError, SyncFetchRoutesUnauthorized,
                SyncFetchRoutesError, SyncLookup, SyncStore, SyncReplace
  <2> QED
    BY <2>1
<1>6. ASSUME NEW s \in Syncs, SyncFinish(s) \/ SyncReplay(s) \/ SyncChanged(s)
      PROVE  LockInv' /\ CacheOnlyWhileSyncing' /\ DrainInv'
  BY <1>6 DEF SyncFinish, SyncReplay, SyncChanged
<1>7. ASSUME NEW s \in Syncs, SyncUnchanged(s)
      PROVE  LockInv' /\ CacheOnlyWhileSyncing' /\ DrainInv'
  BY <1>7 DEF SyncUnchanged, EndSync
<1>8. ASSUME NEW s \in Syncs, SyncConfigure(s)
      PROVE  LockInv' /\ CacheOnlyWhileSyncing' /\ DrainInv'
  BY <1>8 DEF SyncConfigure, EndSync, Configure
<1>9. CASE PruneStaleRoutes \/ Tick
  BY <1>9 DEF PruneStaleRoutes, Tick
<1>10. ASSUME NEW d \in Drains, DrainRequest(d) \/ Drain(d)
       PROVE  LockInv' /\ CacheOnlyWhileSyncing' /\ DrainInv'
  <2> USE DEF DrainStep
  <2>1. CASE DrainRequest(d) \/ DrainPoll(d) \/ DrainCheck(d) \/ DrainCall(d)
             \/ DrainWaited(d) \/ DrainSet(d)
    BY <2>1 DEF DrainRequest, DrainPoll, DrainCheck, DrainCall, DrainWaited, DrainSet
  <2>2. CASE DrainConfigure(d)
    BY <2>2 DEF DrainConfigure, Configure
  <2> QED
    BY <1>10, <2>1, <2>2 DEF Drain
<1>11. CASE UNCHANGED vars
  BY <1>11 DEF vars
<1> QED
  BY <1>1, <1>2, <1>3, <1>4, <1>5, <1>6, <1>7, <1>8, <1>9, <1>10, <1>11
  DEF AnyNext, SyncStep

\* Events wait only while syncing is set, also when syncs overlap (HandleEvent,
\* the deferred function of Sync).
THEOREM CacheIsTemporary == Spec => []CacheOnlyWhileSyncing
<1>1. LockedInv => CacheOnlyWhileSyncing
  BY DEF LockedInv
<1> QED
  BY <1>1, LockedInvInit, LockedInvStep, AnyStep, PTL DEF Spec

\* No reload takes HAProxy out of drain mode (the flag that handleUpsert,
\* handleDelete, Sync and Drain pass to Configure).
THEOREM DrainModeStays == Spec => DrainSticky
<1>1. LockedInv /\ [AnyNext]_vars => [drainMode => drainMode']_vars
  <2> SUFFICES ASSUME LockedInv, AnyNext, drainMode PROVE drainMode'
    OBVIOUS
  <2>1. isDraining = TRUE
    BY DEF LockedInv, DrainInv, TypeOK
  <2>2. CASE UNCHANGED drainMode
    BY <2>2
  <2>3. CASE HandlerConfigure
    BY <2>1, <2>3 DEF HandlerConfigure, Configure, LockedInv, DrainInv
  <2>4. ASSUME NEW s \in Syncs, SyncConfigure(s) PROVE drainMode'
    <3>1. forced = TRUE
      BY <2>1, <2>4 DEF SyncConfigure, LockedInv, DrainInv
    <3>2. drainMode' = TRUE \/ drainMode' = drainMode
      BY <2>4, <3>1 DEF SyncConfigure, Configure
    <3> QED
      BY <3>2
  <2>5. ASSUME NEW d \in Drains, DrainConfigure(d) PROVE drainMode'
    BY <2>1, <2>5 DEF DrainConfigure, Configure
  <2> QED
    BY <2>2, <2>3, <2>4, <2>5
    DEF AnyNext, HandleEvent, CacheEvent, ApplyEvent, SyncStep, SyncStart, SyncFetchRoutes,
        SyncFetchToken, SyncFetchTokenError, SyncFetchRoutesUnauthorized,
        SyncFetchRoutesError, SyncLookup, SyncStore, SyncReplace, SyncFinish, SyncReplay,
        SyncUnchanged, SyncChanged, PruneStaleRoutes, Tick, DrainRequest, Drain,
        DrainPoll, DrainCheck, DrainSet, DrainCall, DrainWaited, haproxyVars
<1> QED
  BY <1>1, LockedInvInit, LockedInvStep, AnyStep, PTL DEF Spec, DrainSticky

-----------------------------------------------------------------------------
(* What holds as long as syncs do not overlap.                             *)

\* syncing says whether the sync runs, and the watcher calls Configure only when
\* none does; a sync calls it only when it has replayed the whole cache.
SoleSyncInv ==
  /\ \A s \in Syncs : spc[s] # "idle" => syncing
  /\ syncing => \E s \in Syncs : spc[s] # "idle"
  /\ wpc = "configure" => ~syncing
  /\ \A s \in Syncs : spc[s] = "configure" => replayed[s] = Len(cachedEvents)

\* HAProxy owes nobody a reload.
UpToDate == ~isDraining /\ configOK /\ ~ChangePending

\* What a sync is about to store without reporting a change HAProxy has already.
StoreServed ==
  \A s \in Syncs : spc[s] = "store" /\ ~upsert[s].reload /\ UpToDate
    => <<upsert[s].key, upsert[s].backend>> \in loaded

LEMMA SoleSyncInvInit == Init => SoleSyncInv
BY DEF Init, SoleSyncInv

LEMMA SoleSyncInvStep ==
  LockedInv /\ SoleSyncInv /\ AtMostOneSync /\ AtMostOneSync' /\ [AnyNext]_vars
    => SoleSyncInv'
<1> SUFFICES ASSUME LockedInv, SoleSyncInv, AtMostOneSync, AtMostOneSync', [AnyNext]_vars
             PROVE  SoleSyncInv'
  OBVIOUS
<1> USE UpdaterAssumption
    DEF UpdaterAssumption, LockedInv, TypeOK, LockInv, CacheOnlyWhileSyncing,
        AtMostOneSync, SoleSyncInv, fieldVars, syncVars, drainVars, haproxyVars
<1>1. ASSUME NEW e \in TcpEvent, HandleEvent(e) PROVE SoleSyncInv'
  BY <1>1 DEF HandleEvent, CacheEvent, ApplyEvent
<1>2. CASE HandlerConfigure
  BY <1>2 DEF HandlerConfigure, Configure
<1>3. ASSUME NEW s \in Syncs, SyncStart(s) PROVE SoleSyncInv'
  BY <1>3 DEF SyncStart
<1>4. ASSUME NEW s \in Syncs, NEW mappings \in SUBSET TcpRouteMapping, SyncFetchRoutes(s, mappings)
      PROVE  SoleSyncInv'
  BY <1>4 DEF SyncFetchRoutes
<1>5. ASSUME NEW s \in Syncs,
             \/ SyncFetchToken(s) \/ SyncFetchTokenError(s)
             \/ SyncFetchRoutesUnauthorized(s) \/ SyncFetchRoutesError(s)
             \/ SyncLookup(s) \/ SyncStore(s) \/ SyncReplace(s) \/ SyncFinish(s)
      PROVE  SoleSyncInv'
  <2>1. /\ UNCHANGED <<syncing, cachedEvents, wpc, replayed>>
        /\ \E pc \in {"token", "routes", "lookup", "store", "finish", "replay"} :
             spc' = [spc EXCEPT ![s] = pc]
        /\ spc[s] # "idle"
    BY <1>5 DEF SyncFetchToken, SyncFetchTokenError, SyncFetchRoutesUnauthorized,
                SyncFetchRoutesError, SyncLookup, SyncStore, SyncReplace, SyncFinish
  <2> QED
    BY <2>1
<1>6. ASSUME NEW s \in Syncs, SyncReplay(s) PROVE SoleSyncInv'
  BY <1>6 DEF SyncReplay
<1>7. ASSUME NEW s \in Syncs, SyncChanged(s) PROVE SoleSyncInv'
  BY <1>7 DEF SyncChanged
<1>8. ASSUME NEW s \in Syncs, SyncUnchanged(s) PROVE SoleSyncInv'
  BY <1>8 DEF SyncUnchanged, EndSync
<1>9. ASSUME NEW s \in Syncs, SyncConfigure(s) PROVE SoleSyncInv'
  BY <1>9 DEF SyncConfigure, EndSync
<1>10. CASE PruneStaleRoutes \/ Tick
  BY <1>10 DEF PruneStaleRoutes, Tick
<1>11. ASSUME NEW d \in Drains, DrainRequest(d) \/ Drain(d) PROVE SoleSyncInv'
  BY <1>11 DEF DrainRequest, Drain, DrainPoll, DrainCheck, DrainSet, DrainCall,
               DrainConfigure, DrainWaited, DrainStep
<1>12. CASE UNCHANGED vars
  BY <1>12 DEF vars
<1> QED
  BY <1>1, <1>2, <1>3, <1>4, <1>5, <1>6, <1>7, <1>8, <1>9, <1>10, <1>11, <1>12
  DEF AnyNext, SyncStep

\* Without overlapping syncs the cache is emptied only once it is replayed.
THEOREM EventsAreReplayed == Spec /\ []AtMostOneSync => NoEventDropped
<1> DEFINE Kept ==
      cachedEvents' # cachedEvents /\ Len(cachedEvents') <= Len(cachedEvents)
        => \E s \in Syncs : spc[s] \in {"replay", "configure"}
                            /\ replayed[s] = Len(cachedEvents)
<1>1. LockedInv /\ SoleSyncInv /\ AtMostOneSync' /\ [AnyNext]_vars => [Kept]_vars
  <2> SUFFICES ASSUME LockedInv, SoleSyncInv, AtMostOneSync', AnyNext PROVE Kept
    OBVIOUS
  <2>1. CASE UNCHANGED cachedEvents
    BY <2>1
  <2>2. ASSUME NEW e \in TcpEvent, CacheEvent(e) PROVE Kept
    <3>1. Len(cachedEvents') = Len(cachedEvents) + 1 /\ Len(cachedEvents) \in Nat
      BY <2>2, UpdaterAssumption DEF CacheEvent, LockedInv, TypeOK, UpdaterAssumption
    <3> QED
      BY <3>1
  <2>3. ASSUME NEW s \in Syncs, SyncStart(s) PROVE Kept
    <3>1. \A r \in Syncs \ {s} : spc[r] = "idle"
      BY <2>3 DEF SyncStart, AtMostOneSync, LockedInv, TypeOK
    <3>2. ~syncing
      BY <2>3, <3>1 DEF SyncStart, SoleSyncInv
    <3>3. cachedEvents = <<>>
      BY <3>2 DEF LockedInv, CacheOnlyWhileSyncing
    <3> QED
      BY <2>3, <3>3 DEF SyncStart
  <2>4. ASSUME NEW s \in Syncs, SyncUnchanged(s) PROVE Kept
    BY <2>4 DEF SyncUnchanged
  <2>5. ASSUME NEW s \in Syncs, SyncConfigure(s) PROVE Kept
    BY <2>5 DEF SyncConfigure, SoleSyncInv
  <2> HIDE DEF Kept
  <2> QED
    BY <2>1, <2>2, <2>3, <2>4, <2>5
    DEF AnyNext, HandleEvent, ApplyEvent, HandlerConfigure, SyncStep, SyncFetchRoutes,
        SyncFetchToken, SyncFetchTokenError, SyncFetchRoutesUnauthorized,
        SyncFetchRoutesError, SyncLookup, SyncStore, SyncReplace, SyncFinish, SyncReplay,
        SyncChanged, PruneStaleRoutes, Tick, DrainRequest, Drain, DrainPoll, DrainCheck,
        DrainSet, DrainCall, DrainConfigure, DrainWaited, DrainStep, fieldVars
<1> QED
  BY <1>1, LockedInvInit, LockedInvStep, SoleSyncInvInit, SoleSyncInvStep, AnyStep, PTL
  DEF Spec, NoEventDropped

\* The part of the invariant about the routes themselves.
RoutesInv == Served /\ StoreServed

LEMMA RoutesInvInit == Init => RoutesInv
<1> SUFFICES ASSUME Init PROVE RoutesInv
  OBVIOUS
<1>1. Routes(table) = {}
  BY NewRoutingTableType DEF Init, Routes
<1>2. \A s \in Syncs : spc[s] = "idle"
  BY DEF Init
<1> QED
  BY <1>1, <1>2 DEF RoutesInv, Served, StoreServed

\* A step that reloads nothing, adds no route that is not reported, and leaves the
\* pending upserts what they are (but for writes that are lost) preserves it.
LEMMA RoutesInvKept ==
  ASSUME RoutesInv,
         loaded' = loaded, UpToDate' => UpToDate,
         UpToDate' => Routes(table)' \subseteq loaded,
         \A s \in Syncs : spc'[s] = "store" =>
            /\ spc[s] = "store"
            /\ upsert'[s].key = upsert[s].key
            /\ upsert'[s].backend = upsert[s].backend
            /\ upsert'[s].reload = upsert[s].reload
  PROVE  RoutesInv'
<1>1. Served'
  BY DEF Served, UpToDate
<1>2. StoreServed'
  BY DEF StoreServed, RoutesInv
<1> QED
  BY <1>1, <1>2 DEF RoutesInv

LEMMA RoutesInvStep ==
  LockedInv /\ SoleSyncInv /\ RoutesInv /\ AtMostOneSync /\ [AnyNext]_vars => RoutesInv'
<1> SUFFICES ASSUME LockedInv, SoleSyncInv, RoutesInv, AtMostOneSync, [AnyNext]_vars
             PROVE  RoutesInv'
  OBVIOUS
<1>0. UpToDate => Routes(table) \subseteq loaded
  BY DEF RoutesInv, Served, UpToDate
<1>t. TypeOK
  BY DEF LockedInv
<1>1. ASSUME NEW e \in TcpEvent, CacheEvent(e) PROVE RoutesInv'
  <2>1. UNCHANGED <<table, isDraining, wpc, spc, changed, upsert, loaded, configOK>>
    BY <1>1 DEF CacheEvent, syncVars, haproxyVars
  <2> QED
    BY <2>1, <1>0, RoutesInvKept DEF UpToDate, ChangePending, Routes
<1>2. ASSUME NEW e \in TcpEvent, ApplyEvent(e) PROVE RoutesInv'
  <2> DEFINE r == handleEvent(table, e)
             D == Detach(DOMAIN table \ DOMAIN r.table)
  <2>1. e \in TcpEvent
    BY UpdaterAssumption DEF UpdaterAssumption
  <2>2. /\ r.changed \in BOOLEAN
        /\ ~r.changed => Routes(r.table) \subseteq Routes(table)
    BY <1>t, <2>1, HandleEventType DEF TypeOK
  <2>3. \A s \in Syncs : spc[s] = "store" =>
          /\ D[s].key = upsert[s].key
          /\ D[s].backend = upsert[s].backend
          /\ D[s].reload = upsert[s].reload
    BY <1>t, DetachType
  <2>4. /\ table' = r.table /\ upsert' = D /\ wpc = "idle"
        /\ wpc' = (IF r.changed THEN "configure" ELSE "idle")
        /\ UNCHANGED <<isDraining, spc, changed, loaded, configOK>>
    BY <1>2 DEF ApplyEvent, haproxyVars
  <2> HIDE DEF r, D
  <2>5. UpToDate' => UpToDate /\ ~r.changed
    BY <2>2, <2>4 DEF UpToDate, ChangePending
  <2>6. Routes(table)' = Routes(r.table)
    BY <2>4 DEF Routes
  <2> QED
    BY <1>0, <2>2, <2>3, <2>4, <2>5, <2>6, RoutesInvKept
<1>3. CASE HandlerConfigure
  <2>1. \A s \in Syncs : spc'[s] # "store"
    BY <1>3 DEF HandlerConfigure, SoleSyncInv, syncVars
  <2>2. configOK' => loaded' = Routes(table) /\ table' = table
    BY <1>3 DEF HandlerConfigure, Configure
  <2> QED
    BY <2>1, <2>2 DEF RoutesInv, Served, StoreServed, Routes
<1>4. ASSUME NEW s \in Syncs,
             \/ SyncStart(s)
             \/ \E mappings \in SUBSET TcpRouteMapping : SyncFetchRoutes(s, mappings)
             \/ SyncFetchToken(s) \/ SyncFetchTokenError(s)
             \/ SyncFetchRoutesUnauthorized(s) \/ SyncFetchRoutesError(s)
             \/ SyncFinish(s) \/ SyncChanged(s)
      PROVE  RoutesInv'
  <2>1. /\ UNCHANGED <<table, isDraining, wpc, changed, upsert, loaded, configOK>>
        /\ \E pc \in {"token", "routes", "lookup", "finish", "replay", "configure"} :
             spc' = [spc EXCEPT ![s] = pc]
    BY <1>4 DEF SyncStart, SyncFetchRoutes, SyncFetchToken, SyncFetchTokenError,
                SyncFetchRoutesUnauthorized, SyncFetchRoutesError, SyncFinish,
                SyncChanged, fieldVars, haproxyVars
  <2>2. \A r \in Syncs : spc'[r] = "store" => spc[r] = "store"
    BY <1>t, <2>1 DEF TypeOK
  <2> QED
    BY <2>1, <2>2, <1>0, RoutesInvKept DEF UpToDate, ChangePending, Routes
<1>5. ASSUME NEW s \in Syncs, SyncLookup(s) PROVE RoutesInv'
  <2>1. PICK m \in todo[s] :
          upsert' = [upsert EXCEPT ![s] =
            UpsertLookup(table, toRoutingKey(m), toBackendServerInfo(m), now)]
    BY <1>5 DEF SyncLookup
  <2> DEFINE key  == toRoutingKey(m)
             info == toBackendServerInfo(m)
             u    == UpsertLookup(table, key, info, now)
  <2>2. key \in RoutingKey /\ info \in BackendServerInfo
    BY <1>t, MappingType DEF TypeOK
  <2>3. u.key = key /\ u.backend = info.backend
    BY <1>t, <2>2, UpsertLookupType DEF TypeOK
  <2>4. ~u.reload => <<u.key, u.backend>> \in Routes(table)
    BY <1>t, <2>2, <2>3, UpsertLookupReload DEF TypeOK
  <2> HIDE DEF key, info
  <2>5. upsert' = [upsert EXCEPT ![s] = u]
    BY <2>1 DEF key, info
  <2> HIDE DEF u
  <2>6. /\ UNCHANGED <<table, isDraining, wpc, changed, loaded, configOK>>
        /\ spc' = [spc EXCEPT ![s] = "store"]
    BY <1>5 DEF SyncLookup, fieldVars, haproxyVars
  <2>7. UpToDate' = UpToDate /\ Routes(table)' = Routes(table)
    BY <2>6 DEF UpToDate, ChangePending, Routes
  <2>8. Served'
    BY <1>0, <2>6, <2>7 DEF Served, UpToDate
  <2>9. ASSUME NEW r \in Syncs, spc'[r] = "store", ~upsert'[r].reload, UpToDate'
        PROVE  <<upsert'[r].key, upsert'[r].backend>> \in loaded'
    <3>1. CASE r = s
      <4>1. upsert'[r] = u
        BY <1>t, <2>5, <3>1 DEF TypeOK
      <4> QED
        BY <4>1, <1>0, <2>4, <2>6, <2>7, <2>9
    <3>2. CASE r # s
      <4>1. upsert'[r] = upsert[r] /\ spc[r] = "store"
        BY <1>t, <2>5, <2>6, <2>9, <3>2 DEF TypeOK
      <4> QED
        BY <4>1, <2>6, <2>7, <2>9 DEF RoutesInv, StoreServed
    <3> QED
      BY <3>1, <3>2
  <2> QED
    BY <2>8, <2>9 DEF RoutesInv, StoreServed
<1>6. ASSUME NEW s \in Syncs, SyncStore(s) PROVE RoutesInv'
  <2> DEFINE u == upsert[s]
             n == UpsertStore(table, u)
             D == Detach(IF u.newKey THEN {u.key} ELSE {})
  <2>1. /\ u \in PendingUpsert /\ (~u.newKey /\ u.write => u.key \in DOMAIN table)
        /\ spc[s] = "store"
    BY <1>6, <1>t DEF SyncStore, TypeOK
  <2>2. Routes(n) \subseteq Routes(table) \cup {<<u.key, u.backend>>}
    BY <1>t, <2>1, UpsertStoreRoutes DEF TypeOK
  <2>3. \A r \in Syncs : spc[r] = "store" =>
          /\ D[r].key = upsert[r].key
          /\ D[r].backend = upsert[r].backend
          /\ D[r].reload = upsert[r].reload
    BY <1>t, DetachType
  <2>4. D \in [Syncs -> PendingUpsert \cup {Nil}]
    BY <1>t, DetachType
  <2>5. u.reload \in BOOLEAN /\ changed \in [Syncs -> BOOLEAN]
    BY <1>t, <2>1 DEF PendingUpsert, TypeOK
  <2>6. ~u.reload /\ UpToDate => <<u.key, u.backend>> \in loaded
    BY <2>1 DEF RoutesInv, StoreServed
  <2>7. /\ table' = n
        /\ upsert' = [D EXCEPT ![s] = Nil]
        /\ changed' = [changed EXCEPT ![s] = @ \/ u.reload]
        /\ spc' = [spc EXCEPT ![s] = "lookup"]
        /\ UNCHANGED <<isDraining, wpc, loaded, configOK>>
    BY <1>6 DEF SyncStore, haproxyVars
  <2> HIDE DEF u, n, D
  <2>8. UpToDate' => UpToDate /\ ~u.reload
    BY <2>5, <2>7 DEF UpToDate, ChangePending
  <2>9. Routes(table)' = Routes(n)
    BY <2>7 DEF Routes
  <2>10. \A r \in Syncs : spc'[r] = "store" =>
           /\ spc[r] = "store"
           /\ upsert'[r].key = upsert[r].key
           /\ upsert'[r].backend = upsert[r].backend
           /\ upsert'[r].reload = upsert[r].reload
    BY <1>t, <2>3, <2>4, <2>7 DEF TypeOK
  <2> QED
    BY <1>0, <2>2, <2>6, <2>7, <2>8, <2>9, <2>10, RoutesInvKept
<1>7. ASSUME NEW s \in Syncs, SyncReplace(s) PROVE RoutesInv'
  <2>1. ASSUME NEW u \in PendingUpsert
        PROVE  /\ Lost(u).key = u.key /\ Lost(u).backend = u.backend
               /\ Lost(u).reload = u.reload
    BY DEF Lost, PendingUpsert
  <2>2. UNCHANGED <<isDraining, wpc, loaded, configOK>> /\ spc' = [spc EXCEPT ![s] = "finish"]
    BY <1>7 DEF SyncReplace, haproxyVars
  <2>3. \A r \in Syncs : spc'[r] = "store" =>
          /\ spc[r] = "store"
          /\ upsert'[r].key = upsert[r].key
          /\ upsert'[r].backend = upsert[r].backend
          /\ upsert'[r].reload = upsert[r].reload
    BY <1>t, <1>7, <2>1, <2>2 DEF SyncReplace, TypeOK
  <2>4. \/ UNCHANGED <<table, changed>>
        \/ changed' = [changed EXCEPT ![s] = TRUE]
    BY <1>7 DEF SyncReplace
  <2>5. UpToDate' => UpToDate /\ UNCHANGED table
    BY <1>t, <2>2, <2>4 DEF UpToDate, ChangePending, TypeOK
  <2>6. table' = table => Routes(table)' = Routes(table)
    BY DEF Routes
  <2> QED
    BY <1>0, <2>2, <2>3, <2>5, <2>6, RoutesInvKept
<1>8. ASSUME NEW s \in Syncs, SyncReplay(s) PROVE RoutesInv'
  <2> DEFINE e == cachedEvents[replayed[s] + 1]
             r == handleEvent(table, e)
             D == Detach(DOMAIN table \ DOMAIN r.table)
  <2>1. e \in TcpEvent
    BY <1>8, <1>t DEF SyncReplay, TypeOK
  <2>2. /\ r.changed \in BOOLEAN /\ changed \in [Syncs -> BOOLEAN]
        /\ ~r.changed => Routes(r.table) \subseteq Routes(table)
    BY <1>t, <2>1, HandleEventType DEF TypeOK
  <2>3. \A q \in Syncs : spc[q] = "store" =>
          /\ D[q].key = upsert[q].key
          /\ D[q].backend = upsert[q].backend
          /\ D[q].reload = upsert[q].reload
    BY <1>t, DetachType
  <2>4. /\ table' = r.table /\ upsert' = D
        /\ changed' = [changed EXCEPT ![s] = @ \/ r.changed]
        /\ UNCHANGED <<isDraining, spc, wpc, loaded, configOK>>
    BY <1>8 DEF SyncReplay, haproxyVars
  <2> HIDE DEF e, r, D
  <2>5. UpToDate' => UpToDate /\ ~r.changed
    BY <2>2, <2>4 DEF UpToDate, ChangePending
  <2>6. Routes(table)' = Routes(r.table)
    BY <2>4 DEF Routes
  <2> QED
    BY <1>0, <2>2, <2>3, <2>4, <2>5, <2>6, RoutesInvKept
<1>9. ASSUME NEW s \in Syncs, SyncUnchanged(s) PROVE RoutesInv'
  <2>1. /\ UNCHANGED <<table, isDraining, wpc, upsert, loaded, configOK>>
        /\ spc' = [spc EXCEPT ![s] = "idle"]
        /\ changed' = [changed EXCEPT ![s] = FALSE] /\ ~changed[s]
    BY <1>9 DEF SyncUnchanged, EndSync, haproxyVars
  <2>2. UpToDate' => UpToDate
    BY <1>t, <2>1 DEF UpToDate, ChangePending, TypeOK
  <2>3. Routes(table)' = Routes(table)
    BY <2>1 DEF Routes
  <2>4. \A r \in Syncs : spc'[r] = "store" => spc[r] = "store"
    BY <1>t, <2>1 DEF TypeOK
  <2> QED
    BY <1>0, <2>1, <2>2, <2>3, <2>4, RoutesInvKept
<1>10. ASSUME NEW s \in Syncs, SyncConfigure(s) PROVE RoutesInv'
  <2>1. \A r \in Syncs : spc'[r] # "store"
    BY <1>10, <1>t DEF SyncConfigure, EndSync, AtMostOneSync, TypeOK
  <2>2. configOK' => loaded' = Routes(table) /\ table' = table
    BY <1>10 DEF SyncConfigure, Configure
  <2> QED
    BY <2>1, <2>2 DEF RoutesInv, Served, StoreServed, Routes
<1>11. CASE PruneStaleRoutes
  <2> DEFINE D == Detach(DOMAIN table \ DOMAIN table')
  <2>1. Routes(table)' \subseteq Routes(table)
    <3>1. Routes(PruneEntries(table, DefaultTTL, now)) \subseteq Routes(table)
      BY <1>t, PruneType DEF TypeOK
    <3>2. Routes(table)' = Routes(PruneEntries(table, DefaultTTL, now))
      BY <1>11 DEF PruneStaleRoutes, Routes
    <3> QED
      BY <3>1, <3>2
  <2>2. \A q \in Syncs : spc[q] = "store" =>
          /\ D[q].key = upsert[q].key
          /\ D[q].backend = upsert[q].backend
          /\ D[q].reload = upsert[q].reload
    BY <1>t, DetachType
  <2>3. upsert' = D /\ UNCHANGED <<isDraining, spc, changed, wpc, loaded, configOK>>
    BY <1>11 DEF PruneStaleRoutes, haproxyVars
  <2> HIDE DEF D
  <2>4. UpToDate' => UpToDate
    BY <2>3 DEF UpToDate, ChangePending
  <2> QED
    BY <1>0, <2>1, <2>2, <2>3, <2>4, RoutesInvKept
<1>12. CASE Tick \/ UNCHANGED vars
  <2>1. UNCHANGED <<table, isDraining, wpc, spc, changed, upsert, loaded, configOK>>
    BY <1>12 DEF Tick, vars, fieldVars, syncVars, haproxyVars
  <2> QED
    BY <2>1, <1>0, RoutesInvKept DEF UpToDate, ChangePending, Routes
<1>13. ASSUME NEW d \in Drains, DrainRequest(d) \/ Drain(d) PROVE RoutesInv'
  <2>1. CASE DrainConfigure(d)
    <3>1. isDraining'
      BY <1>13, <2>1 DEF DrainConfigure, DrainStep, LockedInv, DrainInv
    <3> QED
      BY <3>1 DEF RoutesInv, Served, StoreServed, UpToDate
  <2>2. CASE DrainRequest(d) \/ DrainPoll(d) \/ DrainCheck(d) \/ DrainCall(d)
             \/ DrainWaited(d)
    <3>1. UNCHANGED <<table, isDraining, wpc, spc, changed, upsert, loaded, configOK>>
      BY <2>2 DEF DrainRequest, DrainPoll, DrainCheck, DrainCall, DrainWaited, DrainStep,
                  syncVars, haproxyVars
    <3> QED
      BY <3>1, <1>0, RoutesInvKept DEF UpToDate, ChangePending, Routes
  <2>3. CASE DrainSet(d)
    BY <2>3 DEF DrainSet, RoutesInv, Served, StoreServed, UpToDate
  <2> QED
    BY <1>13, <2>1, <2>2, <2>3 DEF Drain
<1> QED
  BY <1>1, <1>2, <1>3, <1>4, <1>5, <1>6, <1>7, <1>8, <1>9, <1>10, <1>11, <1>12, <1>13
  DEF AnyNext, HandleEvent, SyncStep

\* Without overlapping syncs HAProxy has every route of the table whenever no
\* Configure is still to come, whatever the pruner, failed fetches and failed
\* reloads do in between (the results of UpsertBackendServerKey and
\* DeleteBackendServerKey, tableChanged of Sync).
THEOREM TableIsServed == Spec /\ []AtMostOneSync => []Served
<1>1. RoutesInv => Served
  BY DEF RoutesInv
<1> QED
  BY <1>1, LockedInvInit, LockedInvStep, SoleSyncInvInit, SoleSyncInvStep,
     RoutesInvInit, RoutesInvStep, AnyStep, PTL DEF Spec
=============================================================================
