------------------------------- MODULE Updater -------------------------------
(***************************************************************************)
(* The updater of routing_table/updater.go: one routing table, changed by  *)
(* the events the watcher hands over, by bulk syncs, by the pruner and read *)
(* by drains, each in a goroutine of its own.                              *)
(*                                                                         *)
(* A step is what one goroutine does between two points where another can  *)
(* interfere: taking or releasing the mutex, a call to UAA or the routing  *)
(* API, a call of Configure.  The upsert loop of Sync runs WITHOUT the     *)
(* mutex, so each upsert is two steps, its lookup and its store.  Configure *)
(* is one step here: it holds a lock of its own from before it reads the   *)
(* table until HAProxy is reloaded.                                        *)
(***************************************************************************)
EXTENDS RoutingTable, Sequences

CONSTANTS
  Syncs,           \* goroutines that run Sync, at most so many at a time
  Drains,          \* goroutines that run Drain, one for each SIGUSR2
  Watcher, NoOne,  \* the other values of the mutex
  Events,          \* TcpEvents that may arrive
  Snapshots,       \* sets of TcpRouteMappings a fetch may return
  Leftover,        \* the routes HAProxy serves before the first Configure
  DefaultTTL,      \* defaultTTL, in ticks
  ConfigureFails,  \* whether Configure may return an error
  MaxTime,         \* bound: the last tick of the clock
  MaxCached        \* bound: length of cachedEvents

TcpRouteMapping ==
  [port : Ports, sni : SniHostnames \cup {Nil}, backend : Backends,
   tag : ModificationTag, ttl : Nat \cup {Nil}]
TcpEvent == [action : {"Upsert", "Delete", "Unknown"}, mapping : TcpRouteMapping]

ASSUME UpdaterAssumption ==
  /\ Watcher # NoOne /\ {Watcher, NoOne} \cap Syncs = {}
  /\ Events \subseteq TcpEvent
  /\ Snapshots \subseteq SUBSET TcpRouteMapping
  /\ Leftover \subseteq Route
  /\ DefaultTTL \in Nat
  /\ ConfigureFails \in BOOLEAN
  /\ MaxTime \in Nat /\ MaxCached \in Nat

VARIABLES
  \* the fields of updater, and the clock
  table, syncing, cachedEvents, lock, isDraining, now,
  \* the watcher inside HandleEvent, and the flag that whoever holds the
  \* mutex has passed to Configure
  wpc, forced,
  \* each Sync: where it is and its locals; replayed is its index into cachedEvents
  spc, attempt, todo, fresh, changed, upsert, replayed,
  \* each Drain: where it is, and the map it has passed to Configure once that
  \* is no longer the updater's (Nil as long as it is)
  dpc, detached,
  \* HAProxy: the routes and the drain mode it was last loaded with, and
  \* whether the last Configure succeeded
  loaded, drainMode, configOK

fieldVars   == <<table, syncing, cachedEvents, lock, isDraining>>
syncVars    == <<spc, attempt, todo, fresh, changed, upsert, replayed>>
drainVars   == <<dpc, detached>>
haproxyVars == <<loaded, drainMode, configOK>>
vars == <<fieldVars, now, wpc, forced, syncVars, drainVars, haproxyVars>>

-----------------------------------------------------------------------------
\* A nil hostname is the empty one, a nil TTL is 0.
toRoutingKey(m) ==
  [port |-> m.port, sni |-> IF m.sni = Nil THEN EmptySni ELSE m.sni]
toBackendServerInfo(m) ==
  [backend |-> m.backend, tag |-> m.tag, ttl |-> IF m.ttl = Nil THEN 0 ELSE m.ttl]

\* The table after an event and whether HAProxy has to know.
handleEvent(t, e) ==
  CASE e.action = "Upsert" ->
         UpsertBackendServerKey(t, toRoutingKey(e.mapping), toBackendServerInfo(e.mapping), now)
    [] e.action = "Delete" ->
         DeleteBackendServerKey(t, toRoutingKey(e.mapping), toBackendServerInfo(e.mapping), now)
    [] OTHER -> [table |-> t, changed |-> FALSE]

\* A Configure that fails may do so before or after HAProxy took the new file.
Configure(t, force) ==
  LET Reload == loaded' = Routes(t) /\ drainMode' = force
  IN  \/ configOK' = TRUE /\ Reload
      \/ /\ ConfigureFails
         /\ configOK' = FALSE
         /\ Reload \/ UNCHANGED <<loaded, drainMode>>

\* An upsert between its lookup and its store holds the entry, or for a new
\* key the whole map.  Once that is no longer in the table the store is lost.
Lost(u) == [u EXCEPT !.newKey = FALSE, !.write = FALSE]
Detach(keys) ==
  [s \in Syncs |->
     IF spc[s] = "store" /\ ~upsert[s].newKey /\ upsert[s].key \in keys
     THEN Lost(upsert[s]) ELSE upsert[s]]

-----------------------------------------------------------------------------
Init ==
  /\ table = NewRoutingTable /\ syncing = FALSE /\ cachedEvents = <<>>
  /\ lock = NoOne /\ isDraining = FALSE /\ now = 0
  /\ wpc = "idle" /\ forced = FALSE
  /\ spc = [s \in Syncs |-> "idle"]
  /\ attempt = [s \in Syncs |-> 0]
  /\ todo = [s \in Syncs |-> {}]
  /\ fresh = [s \in Syncs |-> NewRoutingTable]
  /\ changed = [s \in Syncs |-> FALSE]
  /\ upsert = [s \in Syncs |-> Nil]
  /\ replayed = [s \in Syncs |-> 0]
  /\ dpc = [d \in Drains |-> "idle"]
  /\ detached = [d \in Drains |-> Nil]
  /\ loaded = Leftover /\ drainMode = FALSE /\ configOK = TRUE

-----------------------------------------------------------------------------
(* HandleEvent, called by the watcher.                                     *)

CacheEvent(e) ==
  /\ lock = NoOne /\ wpc = "idle" /\ syncing
  /\ Len(cachedEvents) < MaxCached
  /\ cachedEvents' = Append(cachedEvents, e)
  /\ UNCHANGED <<table, syncing, lock, isDraining, now, wpc, forced,
                 syncVars, drainVars, haproxyVars>>

\* The mutex is released before the call of Configure.
ApplyEventUnlocked(e) ==
  /\ lock = NoOne /\ wpc = "idle" /\ ~syncing
  /\ LET r == handleEvent(table, e)
     IN  /\ table' = r.table
         /\ upsert' = Detach(DOMAIN table \ DOMAIN r.table)
         /\ wpc' = IF r.changed THEN "configure" ELSE "idle"
         /\ forced' = isDraining
  /\ UNCHANGED <<syncing, cachedEvents, lock, isDraining, now, spc, attempt, todo,
                 fresh, changed, replayed, drainVars, haproxyVars>>

\* A change is followed by Configure with the mutex still held.
ApplyEvent(e) ==
  /\ lock = NoOne /\ wpc = "idle" /\ ~syncing
  /\ LET r == handleEvent(table, e)
     IN  /\ table' = r.table
         /\ upsert' = Detach(DOMAIN table \ DOMAIN r.table)
         /\ wpc' = IF r.changed THEN "configure" ELSE "idle"
         /\ lock' = IF r.changed THEN Watcher ELSE NoOne
         /\ forced' = isDraining
  /\ UNCHANGED <<syncing, cachedEvents, isDraining, now, spc, attempt, todo,
                 fresh, changed, replayed, drainVars, haproxyVars>>

HandlerConfigure ==
  /\ wpc = "configure"
  /\ Configure(table, forced)
  /\ wpc' = "idle"
  /\ lock' = NoOne
  /\ UNCHANGED <<table, syncing, cachedEvents, isDraining, now, forced, syncVars, drainVars>>

-----------------------------------------------------------------------------
(* Sync.                                                                   *)

SyncStart(s) ==
  /\ spc[s] = "idle" /\ lock = NoOne
  /\ syncing' = TRUE
  /\ cachedEvents' = <<>>
  /\ spc' = [spc EXCEPT ![s] = "token"]
  /\ UNCHANGED <<table, lock, isDraining, now, wpc, forced,
                 attempt, todo, fresh, changed, upsert, replayed, drainVars, haproxyVars>>

SyncFetchToken(s) ==
  /\ spc[s] = "token"
  /\ spc' = [spc EXCEPT ![s] = "routes"]
  /\ UNCHANGED <<fieldVars, now, wpc, forced, attempt, todo, fresh, changed,
                 upsert, replayed, drainVars, haproxyVars>>

SyncFetchTokenError(s) ==
  /\ spc[s] = "token"
  /\ spc' = [spc EXCEPT ![s] = "finish"]
  /\ UNCHANGED <<fieldVars, now, wpc, forced, attempt, todo, fresh, changed,
                 upsert, replayed, drainVars, haproxyVars>>

SyncFetchRoutes(s, mappings) ==
  /\ spc[s] = "routes"
  /\ todo' = [todo EXCEPT ![s] = mappings]
  /\ spc' = [spc EXCEPT ![s] = "lookup"]
  /\ UNCHANGED <<fieldVars, now, wpc, forced, attempt, fresh, changed,
                 upsert, replayed, drainVars, haproxyVars>>

\* "unauthorized" is retried once, with a token that is not the cached one.
SyncFetchRoutesUnauthorized(s) ==
  /\ spc[s] = "routes"
  /\ attempt' = [attempt EXCEPT ![s] = 1]
  /\ spc' = [spc EXCEPT ![s] = IF attempt[s] = 0 THEN "token" ELSE "finish"]
  /\ UNCHANGED <<fieldVars, now, wpc, forced, todo, fresh, changed,
                 upsert, replayed, drainVars, haproxyVars>>

SyncFetchRoutesError(s) ==
  /\ spc[s] = "routes"
  /\ spc' = [spc EXCEPT ![s] = "finish"]
  /\ UNCHANGED <<fieldVars, now, wpc, forced, attempt, todo, fresh, changed,
                 upsert, replayed, drainVars, haproxyVars>>

\* Without the mutex from here to SyncFinish.
SyncLookup(s) ==
  /\ spc[s] = "lookup"
  /\ \E m \in todo[s] :
       LET key  == toRoutingKey(m)
           info == toBackendServerInfo(m)
       IN  /\ todo' = [todo EXCEPT ![s] = @ \ {m}]
           /\ upsert' = [upsert EXCEPT ![s] = UpsertLookup(table, key, info, now)]
           /\ fresh' = [fresh EXCEPT ![s] = UpsertBackendServerKey(@, key, info, now).table]
  /\ spc' = [spc EXCEPT ![s] = "store"]
  /\ UNCHANGED <<fieldVars, now, wpc, forced, attempt, changed, replayed,
                 drainVars, haproxyVars>>

\* Stores the mapping but forgets what UpsertBackendServerKey returned.
SyncStoreSilently(s) ==
  /\ spc[s] = "store"
  /\ table' = UpsertStore(table, upsert[s])
  /\ upsert' = [Detach(IF upsert[s].newKey THEN {upsert[s].key} ELSE {})
                  EXCEPT ![s] = Nil]
  /\ spc' = [spc EXCEPT ![s] = "lookup"]
  /\ UNCHANGED <<syncing, cachedEvents, lock, isDraining, now, wpc, forced, attempt,
                 todo, fresh, changed, replayed, drainVars, haproxyVars>>

SyncStore(s) ==
  /\ spc[s] = "store"
  /\ table' = UpsertStore(table, upsert[s])
  /\ changed' = [changed EXCEPT ![s] = @ \/ upsert[s].reload]
  /\ upsert' = [Detach(IF upsert[s].newKey THEN {upsert[s].key} ELSE {})
                  EXCEPT ![s] = Nil]
  /\ spc' = [spc EXCEPT ![s] = "lookup"]
  /\ UNCHANGED <<syncing, cachedEvents, lock, isDraining, now, wpc, forced, attempt,
                 todo, fresh, replayed, drainVars, haproxyVars>>

\* Only the numbers of routing keys are compared.
SyncReplace(s) ==
  /\ spc[s] = "lookup" /\ todo[s] = {}
  /\ IF Size(fresh[s]) # Size(table)
     THEN /\ table' = fresh[s]
          /\ changed' = [changed EXCEPT ![s] = TRUE]
          /\ upsert' = [r \in Syncs |->
                          IF spc[r] = "store" THEN Lost(upsert[r]) ELSE upsert[r]]
          /\ detached' = [d \in Drains |->
                            IF dpc[d] = "configure" /\ detached[d] = Nil
                            THEN table ELSE detached[d]]
     ELSE UNCHANGED <<table, changed, upsert, detached>>
  /\ fresh' = [fresh EXCEPT ![s] = NewRoutingTable]
  /\ spc' = [spc EXCEPT ![s] = "finish"]
  /\ UNCHANGED <<syncing, cachedEvents, lock, isDraining, now, wpc, forced, attempt,
                 todo, replayed, dpc, haproxyVars>>

SyncFinish(s) ==
  /\ spc[s] = "finish" /\ lock = NoOne
  /\ lock' = s
  /\ spc' = [spc EXCEPT ![s] = "replay"]
  /\ UNCHANGED <<table, syncing, cachedEvents, isDraining, now, wpc, forced, attempt,
                 todo, fresh, changed, upsert, replayed, drainVars, haproxyVars>>

\* applyCachedEvents.  handleEvent would call Configure itself if syncing were
\* FALSE, but then there is no cached event (CacheOnlyWhileSyncing).
SyncReplay(s) ==
  /\ spc[s] = "replay" /\ replayed[s] < Len(cachedEvents)
  /\ LET r == handleEvent(table, cachedEvents[replayed[s] + 1])
     IN  /\ table' = r.table
         /\ upsert' = Detach(DOMAIN table \ DOMAIN r.table)
         /\ changed' = [changed EXCEPT ![s] = @ \/ r.changed]
  /\ replayed' = [replayed EXCEPT ![s] = @ + 1]
  /\ UNCHANGED <<syncing, cachedEvents, lock, isDraining, now, wpc, forced, spc,
                 attempt, todo, fresh, drainVars, haproxyVars>>

\* cachedEvents is not reset.
EndSyncKeepingEvents(s) ==
  /\ syncing' = FALSE
  /\ UNCHANGED cachedEvents
  /\ lock' = NoOne
  /\ spc' = [spc EXCEPT ![s] = "idle"]
  /\ attempt' = [attempt EXCEPT ![s] = 0]
  /\ changed' = [changed EXCEPT ![s] = FALSE]
  /\ replayed' = [replayed EXCEPT ![s] = 0]

\* The mutex is not released.
EndSyncKeepingLock(s) ==
  /\ syncing' = FALSE
  /\ cachedEvents' = <<>>
  /\ UNCHANGED lock
  /\ spc' = [spc EXCEPT ![s] = "idle"]
  /\ attempt' = [attempt EXCEPT ![s] = 0]
  /\ changed' = [changed EXCEPT ![s] = FALSE]
  /\ replayed' = [replayed EXCEPT ![s] = 0]

\* The locals of a sync that is over are back at their initial values.
EndSync(s) ==
  /\ syncing' = FALSE
  /\ cachedEvents' = <<>>
  /\ lock' = NoOne
  /\ spc' = [spc EXCEPT ![s] = "idle"]
  /\ attempt' = [attempt EXCEPT ![s] = 0]
  /\ changed' = [changed EXCEPT ![s] = FALSE]
  /\ replayed' = [replayed EXCEPT ![s] = 0]

\* applyCachedEvents stops at the first event.
SyncUnchangedEarly(s) ==
  /\ spc[s] = "replay" /\ replayed[s] <= Len(cachedEvents) /\ ~changed[s]
  /\ EndSync(s)
  /\ UNCHANGED <<table, isDraining, now, wpc, forced, todo, fresh, upsert,
                 drainVars, haproxyVars>>

SyncUnchanged(s) ==
  /\ spc[s] = "replay" /\ replayed[s] = Len(cachedEvents) /\ ~changed[s]
  /\ EndSync(s)
  /\ UNCHANGED <<table, isDraining, now, wpc, forced, todo, fresh, upsert,
                 drainVars, haproxyVars>>

SyncChanged(s) ==
  /\ spc[s] = "replay" /\ replayed[s] = Len(cachedEvents) /\ changed[s]
  /\ spc' = [spc EXCEPT ![s] = "configure"]
  /\ forced' = isDraining
  /\ UNCHANGED <<fieldVars, now, wpc, attempt, todo, fresh, changed, upsert,
                 replayed, drainVars, haproxyVars>>

\* The error of Configure is ignored.
SyncConfigure(s) ==
  /\ spc[s] = "configure"
  /\ Configure(table, forced)
  /\ EndSync(s)
  /\ UNCHANGED <<table, isDraining, now, wpc, forced, todo, fresh, upsert, drainVars>>

-----------------------------------------------------------------------------
(* The pruner and the clock.                                               *)

PruneStaleRoutes ==
  /\ lock = NoOne
  /\ table' = PruneEntries(table, DefaultTTL, now)
  /\ upsert' = Detach(DOMAIN table \ DOMAIN table')
  /\ UNCHANGED <<syncing, cachedEvents, lock, isDraining, now, wpc, forced, spc,
                 attempt, todo, fresh, changed, replayed, drainVars, haproxyVars>>

Tick ==
  /\ now < MaxTime
  /\ now' = now + 1
  /\ UNCHANGED <<fieldVars, wpc, forced, syncVars, drainVars, haproxyVars>>

-----------------------------------------------------------------------------
(* Drain.                                                                  *)

DrainStep(d, from, to) ==
  /\ dpc[d] = from
  /\ dpc' = [dpc EXCEPT ![d] = to]
  /\ UNCHANGED <<table, syncing, cachedEvents, lock, now, wpc, forced, syncVars>>

DrainRequest(d) ==
  /\ DrainStep(d, "idle", "poll")
  /\ UNCHANGED <<isDraining, detached, haproxyVars>>

DrainPoll(d) ==
  /\ lock = NoOne /\ ~syncing
  /\ DrainStep(d, "poll", "check")
  /\ UNCHANGED <<isDraining, detached, haproxyVars>>

DrainCheck(d) ==
  /\ lock = NoOne
  /\ DrainStep(d, "check", IF isDraining THEN "done" ELSE "set")
  /\ UNCHANGED <<isDraining, detached, haproxyVars>>

DrainSet(d) ==
  /\ lock = NoOne
  /\ DrainStep(d, "set", "call")
  /\ isDraining' = TRUE
  /\ UNCHANGED <<detached, haproxyVars>>

\* The arguments of Configure: the struct with the map, and IsDraining().
DrainCall(d) ==
  /\ lock = NoOne
  /\ DrainStep(d, "call", "configure")
  /\ UNCHANGED <<isDraining, detached, haproxyVars>>

\* Without the mutex.  On an error there is no wait.
DrainConfigure(d) ==
  /\ Configure(IF detached[d] = Nil THEN table ELSE detached[d], isDraining)
  /\ DrainStep(d, "configure", IF configOK' THEN "wait" ELSE "done")
  /\ detached' = [detached EXCEPT ![d] = Nil]
  /\ UNCHANGED isDraining

DrainWaited(d) ==
  /\ DrainStep(d, "wait", "done")
  /\ UNCHANGED <<isDraining, detached, haproxyVars>>

-----------------------------------------------------------------------------
HandleEvent(e) == CacheEvent(e) \/ ApplyEvent(e)

\* The steps of a sync that do not depend on what it fetches.
SyncStep(s) ==
  \/ SyncFetchToken(s) \/ SyncFetchTokenError(s)
  \/ SyncFetchRoutesUnauthorized(s) \/ SyncFetchRoutesError(s)
  \/ SyncLookup(s) \/ SyncStore(s) \/ SyncReplace(s)
  \/ SyncFinish(s) \/ SyncReplay(s)
  \/ SyncUnchanged(s) \/ SyncChanged(s) \/ SyncConfigure(s)

Drain(d) ==
  \/ DrainPoll(d) \/ DrainCheck(d) \/ DrainSet(d)
  \/ DrainCall(d) \/ DrainConfigure(d) \/ DrainWaited(d)

Next ==
  \/ \E e \in Events : HandleEvent(e)
  \/ HandlerConfigure
  \/ \E s \in Syncs :
       \/ SyncStart(s)
       \/ \E mappings \in Snapshots : SyncFetchRoutes(s, mappings)
       \/ SyncStep(s)
  \/ PruneStaleRoutes
  \/ Tick
  \/ \E d \in Drains : DrainRequest(d) \/ Drain(d)

Spec == Init /\ [][Next]_vars

-----------------------------------------------------------------------------
(* Properties.                                                             *)

\* Each variable has its type.  Every entry of the table has a backend, a sync
\* with a lookup in hand holds an entry that is in the table unless its write
\* is lost, and its place in the cache is within the cache.
TypeOK ==
  /\ IsRoutingTable(table)
  /\ syncing \in BOOLEAN /\ isDraining \in BOOLEAN /\ forced \in BOOLEAN
  /\ cachedEvents \in Seq(TcpEvent)
  /\ lock \in Syncs \cup {Watcher, NoOne}
  /\ now \in Nat
  /\ wpc \in {"idle", "configure"}
  /\ spc \in [Syncs -> {"idle", "token", "routes", "lookup", "store",
                        "finish", "replay", "configure"}]
  /\ attempt \in [Syncs -> {0, 1}]
  /\ todo \in [Syncs -> SUBSET TcpRouteMapping]
  /\ fresh = [s \in Syncs |-> fresh[s]] /\ \A s \in Syncs : IsRoutingTable(fresh[s])
  /\ changed \in [Syncs -> BOOLEAN]
  /\ upsert \in [Syncs -> PendingUpsert \cup {Nil}]
  /\ \A s \in Syncs :
       /\ spc[s] = "store" => upsert[s] \in PendingUpsert
       /\ spc[s] = "store" /\ ~upsert[s].newKey /\ upsert[s].write
            => upsert[s].key \in DOMAIN table
  /\ replayed \in [Syncs -> Nat]
  /\ dpc \in [Drains -> {"idle", "poll", "check", "set", "call", "configure",
                         "wait", "done"}]
  /\ detached = [d \in Drains |-> detached[d]]
  /\ \A d \in Drains : detached[d] # Nil => IsRoutingTable(detached[d])
  /\ loaded \subseteq Route
  /\ drainMode \in BOOLEAN /\ configOK \in BOOLEAN

\* Events wait in the cache only while syncing is set, also when syncs overlap:
\* HandleEvent never applies an event ahead of one that waits, and the replay of
\* Sync never calls Configure from handleUpsert or handleDelete.
CacheOnlyWhileSyncing == cachedEvents # <<>> => syncing

\* Once Drain has put HAProxy into drain mode, no reload for an event or a sync
\* takes it out again: the flag each of them passed was read under the mutex
\* they still hold.
DrainSticky == [][drainMode => drainMode']_vars

\* No two bulk syncs at a time.  The watcher does not see to it.
AtMostOneSync ==
  \A s, r \in Syncs : spc[s] # "idle" /\ spc[r] # "idle" => s = r

\* A change of the table that Configure is still to be called for.
ChangePending ==
  wpc = "configure" \/ \E s \in Syncs : changed[s]

\* Outside a drain, when the last Configure succeeded, HAProxy has every route
\* of the table unless a call of Configure is still to come: the boolean of
\* UpsertBackendServerKey is never FALSE for a route HAProxy has not got, though
\* a sync stores without the mutex what it looked up before the pruner ran.
Served ==
  ~isDraining /\ configOK /\ ~ChangePending => Routes(table) \subseteq loaded

\* The cache is emptied only by a sync that has replayed the whole of it.
NoEventDropped ==
  [][cachedEvents' # cachedEvents /\ Len(cachedEvents') <= Len(cachedEvents)
       => \E s \in Syncs : spc[s] \in {"replay", "configure"}
                            /\ replayed[s] = Len(cachedEvents)]_vars
=============================================================================
