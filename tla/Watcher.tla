------------------------------- MODULE Watcher -------------------------------
(***************************************************************************)
(* The watcher of watcher/watcher.go: Run, and the goroutine (the pump) it  *)
(* starts to subscribe to the routing API.  The two share stopEventSource,  *)
(* eventSource and eventChan; the pump and the updater's Sync share a token *)
(* fetcher and a routing API client: each fetches a token, sets it on the   *)
(* client and then calls the API with whatever token the client has by then.*)
(*                                                                         *)
(* A token is a number; the routing API accepts the newest ones.  Event     *)
(* sources are numbered too.  What the events say is in TableSync.          *)
(***************************************************************************)
EXTENDS Naturals, FiniteSets

CONSTANTS
  MaxRevocations,    \* bound: times UAA revokes every token it has issued
  MaxSubscriptions   \* bound: the event source that does not break any more

ASSUME WatcherAssumption == MaxRevocations \in Nat /\ MaxSubscriptions \in Nat

VARIABLES
  issued, accepted,   \* UAA's newest token, the oldest one the routing API accepts
  cached, token,      \* the token fetcher's token, the routing API client's
  pump, pumpToken, canUseCachedToken,
  es,                 \* the pump's last event source, numbered by subscription
  open,               \* the event sources that are not closed
  eventSource,        \* the one that the pump has stored, or 0
  run, stopEventSource,
  stoppedAt,          \* es when stopEventSource was set (history)
  sync, syncToken, useCachedToken,
  count,              \* the loop counter of Sync
  fetched             \* whether the last Sync to end had fetched the routes (history)

tokenVars == <<issued, accepted, cached, token>>
sourceVars == <<es, open, eventSource>>
runVars == <<run, stopEventSource, stoppedAt>>
syncVars == <<sync, syncToken, useCachedToken, count, fetched>>
watcherVars == <<tokenVars, pump, pumpToken, canUseCachedToken, sourceVars, runVars, syncVars>>

WatcherInit ==
  /\ issued = 1 /\ accepted = 1 /\ cached = 1 /\ token = 1
  /\ pump = "check" /\ pumpToken = 0 /\ canUseCachedToken = TRUE
  /\ es = 0 /\ open = {} /\ eventSource = 0
  /\ run = "select" /\ stopEventSource = FALSE /\ stoppedAt = 0
  /\ sync = "idle" /\ syncToken = 0 /\ useCachedToken = TRUE /\ count = 0
  /\ fetched = TRUE

-----------------------------------------------------------------------------
(* UAA, the token fetcher and the routing API.                             *)

Revoke ==
  /\ accepted <= MaxRevocations
  /\ accepted' = issued + 1
  /\ UNCHANGED <<issued, cached, token, pump, pumpToken, canUseCachedToken, sourceVars,
                 runVars, syncVars>>

Newest == IF issued < accepted THEN accepted ELSE issued

\* FetchToken(forceUpdate): the cached token or a new one, which is cached.
FetchToken(forceUpdate) ==
  /\ cached' = IF forceUpdate THEN Newest ELSE cached
  /\ issued' = IF forceUpdate THEN Newest ELSE issued
  /\ UNCHANGED <<accepted, token>>

SetToken(t) == token' = t /\ UNCHANGED <<issued, accepted, cached>>

Unauthorized == token < accepted

-----------------------------------------------------------------------------
(* The pump.                                                               *)

Pump(from, to) ==
  /\ pump = from /\ pump' = to
  /\ UNCHANGED <<runVars, syncVars>>

\* The goroutine subscribes without looking at stopEventSource.
PumpNeverStops ==
  /\ Pump("check", "fetch")
  /\ UNCHANGED <<tokenVars, pumpToken, canUseCachedToken, sourceVars>>

PumpChecks ==
  /\ Pump("check", IF stopEventSource THEN "returned" ELSE "fetch")
  /\ UNCHANGED <<tokenVars, pumpToken, canUseCachedToken, sourceVars>>

PumpFetchToken ==
  /\ Pump("fetch", "set")
  /\ FetchToken(~canUseCachedToken)
  /\ pumpToken' = cached'
  /\ UNCHANGED <<canUseCachedToken, sourceVars>>

\* It sleeps and asks again.
PumpFetchTokenError ==
  /\ Pump("fetch", "check")
  /\ UNCHANGED <<tokenVars, pumpToken, canUseCachedToken, sourceVars>>

PumpSetToken ==
  /\ Pump("set", "subscribe")
  /\ SetToken(pumpToken)
  /\ UNCHANGED <<pumpToken, canUseCachedToken, sourceVars>>

PumpSubscribed ==
  /\ Pump("subscribe", "store") /\ ~Unauthorized
  /\ es' = es + 1 /\ open' = open \cup {es'}
  /\ canUseCachedToken' = TRUE
  /\ UNCHANGED <<tokenVars, pumpToken, eventSource>>

PumpSubscribeError ==
  /\ Pump("subscribe", "check")
  /\ canUseCachedToken' \in {~Unauthorized, TRUE}
  /\ UNCHANGED <<tokenVars, pumpToken, sourceVars>>

PumpStores ==
  /\ Pump("store", "next")
  /\ eventSource' = es
  /\ UNCHANGED <<tokenVars, pumpToken, canUseCachedToken, es, open>>

PumpNextEvent ==
  /\ Pump("next", "send") /\ es \in open
  /\ UNCHANGED <<tokenVars, pumpToken, canUseCachedToken, sourceVars>>

\* The goroutine returns when its stream breaks.
PumpGivesUp ==
  /\ Pump("next", "returned") /\ (es < MaxSubscriptions \/ es \notin open)
  /\ open' = open \ {es}
  /\ UNCHANGED <<tokenVars, pumpToken, canUseCachedToken, es, eventSource>>

\* The source is left open when its stream breaks.
PumpLeavesOpen ==
  /\ Pump("next", "check") /\ (es < MaxSubscriptions \/ es \notin open)
  /\ UNCHANGED <<tokenVars, pumpToken, canUseCachedToken, sourceVars>>

\* Next fails when the stream breaks and when Run has closed the source.
PumpNextError ==
  /\ Pump("next", "check") /\ (es < MaxSubscriptions \/ es \notin open)
  /\ open' = open \ {es}
  /\ UNCHANGED <<tokenVars, pumpToken, canUseCachedToken, es, eventSource>>

-----------------------------------------------------------------------------
(* Run.  Drain requests are in Lifecycle.                                  *)

\* eventChan has no buffer: the pump sends when Run is at its select.
RunTakesEvent ==
  /\ run = "select" /\ run' = "handling"
  /\ pump = "send" /\ pump' = "next"
  /\ UNCHANGED <<tokenVars, pumpToken, canUseCachedToken, sourceVars, stopEventSource,
                 stoppedAt, syncVars>>

RunHandled ==
  /\ run = "handling" /\ run' = "select"
  /\ UNCHANGED <<tokenVars, pump, pumpToken, canUseCachedToken, sourceVars, stopEventSource,
                 stoppedAt, syncVars>>

RunStops ==
  /\ run = "select" /\ run' = "closing"
  /\ stopEventSource' = TRUE /\ stoppedAt' = es
  /\ UNCHANGED <<tokenVars, pump, pumpToken, canUseCachedToken, sourceVars, syncVars>>

RunCloses ==
  /\ run = "closing" /\ run' = "returned"
  /\ open' = open \ {eventSource}
  /\ UNCHANGED <<tokenVars, pump, pumpToken, canUseCachedToken, es, eventSource,
                 stopEventSource, stoppedAt, syncVars>>

-----------------------------------------------------------------------------
(* Sync of the updater, up to the routes it fetches.                       *)

SyncGoes(from, to) ==
  /\ sync = from /\ sync' = to
  /\ UNCHANGED <<pump, pumpToken, canUseCachedToken, sourceVars, runVars>>

SyncEnds(ok) ==
  /\ fetched' = ok
  /\ UNCHANGED <<tokenVars, syncToken, useCachedToken, count>>

\* Run takes a sync from syncChannel.
SyncStart ==
  /\ run = "select"
  /\ SyncGoes("idle", "fetch")
  /\ useCachedToken' = TRUE /\ count' = 0
  /\ UNCHANGED <<tokenVars, syncToken, fetched>>

SyncFetchToken ==
  /\ SyncGoes("fetch", "set")
  /\ FetchToken(~useCachedToken)
  /\ syncToken' = cached'
  /\ UNCHANGED <<useCachedToken, count, fetched>>

SyncFetchTokenError == SyncGoes("fetch", "idle") /\ SyncEnds(FALSE)

SyncSetToken ==
  /\ SyncGoes("set", "get")
  /\ SetToken(syncToken)
  /\ UNCHANGED <<syncToken, useCachedToken, count, fetched>>

SyncFetchedRoutes == ~Unauthorized /\ SyncGoes("get", "idle") /\ SyncEnds(TRUE)

\* Another error than "unauthorized", or "unauthorized" for the second time.
SyncFetchRoutesError == SyncGoes("get", "idle") /\ SyncEnds(FALSE)

\* The retry uses the cached token again.
SyncRetryCached ==
  /\ Unauthorized /\ count = 0
  /\ SyncGoes("get", "fetch")
  /\ count' = 1
  /\ UNCHANGED <<tokenVars, syncToken, useCachedToken, fetched>>

SyncRetry ==
  /\ Unauthorized /\ count = 0
  /\ SyncGoes("get", "fetch")
  /\ count' = 1 /\ useCachedToken' = FALSE
  /\ UNCHANGED <<tokenVars, syncToken, fetched>>

-----------------------------------------------------------------------------
WatcherNext ==
  \/ Revoke
  \/ PumpChecks \/ PumpFetchToken \/ PumpFetchTokenError \/ PumpSetToken
  \/ PumpSubscribed \/ PumpSubscribeError \/ PumpStores \/ PumpNextEvent \/ PumpNextError
  \/ RunTakesEvent \/ RunHandled \/ RunStops \/ RunCloses
  \/ SyncStart \/ SyncFetchToken \/ SyncFetchTokenError \/ SyncSetToken
  \/ SyncFetchedRoutes \/ SyncFetchRoutesError \/ SyncRetry

\* Goroutines run, the syncer keeps asking and Go's select takes, of the cases
\* that are ready again and again, each in the end; so does a call that is made
\* again and again and could succeed.  Streams need not break, and an
\* "unauthorized" is told as such.
WatcherSpec ==
  /\ WatcherInit /\ [][WatcherNext]_watcherVars
  /\ WF_watcherVars(PumpChecks) /\ SF_watcherVars(PumpFetchToken)
  /\ WF_watcherVars(PumpSetToken) /\ SF_watcherVars(PumpSubscribed)
  /\ SF_watcherVars(PumpSubscribeError /\ ~canUseCachedToken')
  /\ WF_watcherVars(PumpStores) /\ WF_watcherVars(RunHandled) /\ WF_watcherVars(RunCloses)
  /\ SF_watcherVars(SyncStart) /\ WF_watcherVars(SyncSetToken)
  /\ SF_watcherVars(SyncFetchToken /\ useCachedToken)
  /\ SF_watcherVars(SyncFetchToken /\ ~useCachedToken)
  /\ SF_watcherVars(SyncFetchedRoutes) /\ SF_watcherVars(SyncRetry)
  /\ WF_watcherVars(SyncFetchRoutesError /\ Unauthorized /\ count = 1)

-----------------------------------------------------------------------------
(* Properties.                                                             *)

\* Whatever tokens are revoked, however streams break, and however Sync and the
\* pump overwrite each other's token, the watcher is subscribed again until it
\* is stopped.
SubscribesAgain == []<>(pump \in {"next", "send"} \/ stopEventSource)

\* ... and a later Sync fetches the routes.
FetchesAgain == []<>(fetched \/ stopEventSource)

\* However often streams break and wherever the pump is when Run closes the
\* source it finds, at most one connection to the routing API is open.
OneSourceOpen == Cardinality(open) <= 1

\* Once the watcher is stopped the pump subscribes once more at most: it may be
\* past its look at stopEventSource, or closed under its hands.
StopsSubscribing == stopEventSource => es <= stoppedAt + 1
=============================================================================
