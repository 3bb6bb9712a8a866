------------------------------ MODULE TableSync ------------------------------
(***************************************************************************)
(* The updater together with the routing API it mirrors: the API's route   *)
(* mappings, the event stream the watcher subscribes to (watcher.go), and   *)
(* the bulk fetches of Sync.  The stream delivers in order while it lasts;  *)
(* it may break, and what the API changes while no stream is open is never  *)
(* sent.  The process may end at any point and start again, with an empty   *)
(* table, while HAProxy runs on.  Drains and the clock stay in Updater.     *)
(***************************************************************************)
EXTENDS Updater

CONSTANTS
  MaxChanges,   \* bound: changes made in the routing API
  MaxBreaks     \* bound: times the stream breaks or the process restarts

ASSUME TableSyncAssumption ==
  /\ MaxChanges \in Nat /\ MaxBreaks \in Nat
  /\ 0..MaxChanges \subseteq Guids

VARIABLES
  api,         \* the routing API: the tag of every route it has
  changes,     \* how many changes it has seen; numbers the guids
  subscribed,  \* whether an event stream is open
  stream,      \* the events the stream still has to deliver
  breaks,      \* how often it broke
  missed,      \* whether a change was not sent since the fetch of the last
               \* sync that began and fetched under one stream (history)
  clean,       \* whether one stream has been open since that sync began (history)
  unsent,      \* the routes whose Delete event was not delivered (history)
  inherited    \* what HAProxy has served since before the process started (history)

historyVars == <<missed, clean, unsent, inherited>>
apiVars == <<api, changes, subscribed, stream, breaks, historyVars>>
allVars == <<vars, apiVars>>

\* The API reports a mapping without SNI by a nil hostname, and no TTL here.
MappingOf(r, tag) ==
  [port |-> r[1].port, sni |-> IF r[1].sni = EmptySni THEN Nil ELSE r[1].sni,
   backend |-> r[2], tag |-> tag, ttl |-> Nil]
TcpRouteMappings == {MappingOf(r, api[r]) : r \in DOMAIN api}

SyncInit ==
  /\ Init
  /\ \E R \in SUBSET Route : api = [r \in R |-> [guid |-> 0, index |-> 0]]
  /\ changes = 0
  /\ subscribed = FALSE /\ stream = <<>> /\ breaks = 0
  /\ missed = TRUE
  /\ clean = [s \in Syncs |-> FALSE]
  /\ unsent = {} /\ inherited = Leftover

-----------------------------------------------------------------------------
(* The routing API.  A route that is registered anew has a new guid, one   *)
(* that is renewed the next index; a Delete event carries the last tag.    *)

Publish(action, r, tag) ==
  /\ changes < MaxChanges
  /\ changes' = changes + 1
  /\ stream' = IF subscribed
               THEN Append(stream, [action |-> action, mapping |-> MappingOf(r, tag)])
               ELSE stream
  /\ missed' = (missed \/ ~subscribed)
  /\ UNCHANGED <<vars, subscribed, breaks, clean, inherited>>

Register(r) ==
  LET tag == IF r \in DOMAIN api
             THEN [api[r] EXCEPT !.index = @ + 1]
             ELSE [guid |-> changes + 1, index |-> 0]
  IN  /\ api' = [x \in DOMAIN api \cup {r} |-> IF x = r THEN tag ELSE api[x]]
      /\ Publish("Upsert", r, tag)
      /\ UNCHANGED unsent

Unregister(r) ==
  /\ r \in DOMAIN api
  /\ api' = [x \in DOMAIN api \ {r} |-> api[x]]
  /\ Publish("Delete", r, api[r])
  /\ unsent' = IF subscribed THEN unsent ELSE unsent \cup {r}

-----------------------------------------------------------------------------
(* The watcher's stream.                                                   *)

Subscribe ==
  /\ ~subscribed
  /\ subscribed' = TRUE
  /\ UNCHANGED <<vars, api, changes, stream, breaks, historyVars>>

\* es.Next returns an error, the pump closes the source.
StreamBreaks ==
  /\ subscribed /\ breaks < MaxBreaks
  /\ subscribed' = FALSE
  /\ stream' = <<>>
  /\ breaks' = breaks + 1
  /\ missed' = TRUE
  /\ clean' = [s \in Syncs |-> FALSE]
  /\ unsent' = unsent \cup
       {r \in Route : \E i \in DOMAIN stream : stream[i].action = "Delete"
                        /\ <<toRoutingKey(stream[i].mapping), stream[i].mapping.backend>> = r}
  /\ UNCHANGED <<vars, api, changes, inherited>>

ReceiveEvent ==
  /\ stream # <<>>
  /\ HandleEvent(Head(stream))
  /\ stream' = Tail(stream)
  /\ UNCHANGED <<api, changes, subscribed, breaks, historyVars>>

-----------------------------------------------------------------------------
(* The updater's own steps.                                                *)

BeginSync(s) ==
  /\ SyncStart(s)
  /\ clean' = [clean EXCEPT ![s] = subscribed]
  /\ UNCHANGED <<api, changes, subscribed, stream, breaks, missed, unsent, inherited>>

FetchMappings(s) ==
  /\ SyncFetchRoutes(s, TcpRouteMappings)
  /\ missed' = (missed /\ ~clean[s])
  /\ UNCHANGED <<api, changes, subscribed, stream, breaks, clean, unsent, inherited>>

UpdaterStep ==
  /\ \/ HandlerConfigure
     \/ \E s \in Syncs : SyncStep(s)
  /\ inherited' = IF loaded' = loaded THEN inherited ELSE {}
  /\ UNCHANGED <<api, changes, subscribed, stream, breaks, missed, clean, unsent>>

\* The process ends, with its syncs, its stream and its table, and a new one
\* starts as main does.
Restart ==
  /\ breaks < MaxBreaks /\ breaks' = breaks + 1
  /\ table' = NewRoutingTable /\ syncing' = FALSE /\ cachedEvents' = <<>>
  /\ lock' = NoOne /\ isDraining' = FALSE
  /\ wpc' = "idle" /\ forced' = FALSE
  /\ spc' = [s \in Syncs |-> "idle"]
  /\ attempt' = [s \in Syncs |-> 0]
  /\ todo' = [s \in Syncs |-> {}]
  /\ fresh' = [s \in Syncs |-> NewRoutingTable]
  /\ changed' = [s \in Syncs |-> FALSE]
  /\ upsert' = [s \in Syncs |-> Nil]
  /\ replayed' = [s \in Syncs |-> 0]
  /\ subscribed' = FALSE /\ stream' = <<>>
  /\ missed' = TRUE /\ clean' = [s \in Syncs |-> FALSE]
  /\ unsent' = {} /\ inherited' = loaded
  /\ UNCHANGED <<now, drainVars, haproxyVars, api, changes>>

SyncNext ==
  \/ \E r \in Route : Register(r) \/ Unregister(r)
  \/ Subscribe \/ StreamBreaks \/ ReceiveEvent
  \/ \E s \in Syncs : BeginSync(s) \/ FetchMappings(s)
  \/ UpdaterStep \/ Restart

SyncSpec == SyncInit /\ [][SyncNext]_allVars

\* The ticker of the syncer starts one sync after the other, Go's mutex lets
\* every goroutine in that keeps asking, and UAA and the routing API do not
\* fail a sync for ever.
Progress ==
  /\ WF_allVars(Subscribe) /\ WF_allVars(HandlerConfigure /\ UpdaterStep)
  /\ SF_allVars(ReceiveEvent)
  /\ \A s \in Syncs :
       /\ SF_allVars(BeginSync(s)) /\ SF_allVars(FetchMappings(s))
       /\ SF_allVars(SyncFetchToken(s) /\ UpdaterStep)
       /\ SF_allVars(SyncFinish(s) /\ UpdaterStep)
       /\ WF_allVars(SyncStep(s) /\ UpdaterStep)

FairSyncSpec == SyncSpec /\ Progress

-----------------------------------------------------------------------------
(* Properties.                                                             *)

\* No event and no sync on its way.
Idle ==
  /\ stream = <<>> /\ wpc = "idle" /\ \A s \in Syncs : spc[s] = "idle"
  /\ configOK

\* When all is idle and a sync has begun and fetched since the stream broke,
\* every route of the API is in the table and in HAProxy, in whatever order
\* events, breaks and the steps of Sync came.
NoRouteMissing ==
  Idle /\ ~missed => DOMAIN api \subseteq Routes(table) \cap loaded

\* When all is idle a route that is gone from the API is gone from the table and
\* from HAProxy, unless its own Delete event was lost or HAProxy has had it since
\* before a restart: an old event replayed over a newer fetch is undone by the
\* events that follow it, and the first reload after a restart drops what the
\* new process does not know.
NoStaleRoute ==
  Idle => /\ Routes(table) \subseteq DOMAIN api \cup unsent
          /\ loaded \subseteq DOMAIN api \cup unsent \cup inherited

\* When all is idle and a sync has begun and fetched since the stream broke,
\* what has been deleted from the API is not in the table: Sync makes up for
\* the Delete events that were lost.
SyncRemovesStaleRoutes ==
  Idle /\ ~missed => Routes(table) \subseteq DOMAIN api

\* A route that stays registered ends up in HAProxy for good, whatever events
\* were lost, however often UAA or the routing API refused a sync, and wherever
\* a restart broke in.
EventuallyServed ==
  \A r \in Route : <>[](r \in DOMAIN api) => <>[](r \in loaded)
=============================================================================
