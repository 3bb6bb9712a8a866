---------------------------- MODULE WatcherProofs ----------------------------
(***************************************************************************)
(* Proofs about Watcher, for any number of revocations and subscriptions.  *)
(***************************************************************************)
EXTENDS Watcher, FiniteSetTheorems, TLAPS

\* The pump has closed its source whenever it is on its way to a new one; Run
\* closes what it finds and opens nothing.
SourceInv ==
  /\ open \subseteq {es}
  /\ pump \notin {"store", "next", "send"} => open = {}

\* After the stop the pump subscribes only if it is past its look at
\* stopEventSource, and does not get past it again.
StopInv ==
  /\ es \in Nat /\ stoppedAt \in Nat
  /\ stopEventSource =>
       \/ es = stoppedAt
       \/ es = stoppedAt + 1 /\ pump \notin {"fetch", "set", "subscribe"}
  /\ run \in {"select", "handling"} => ~stopEventSource

PumpInv == SourceInv /\ StopInv

LEMMA PumpInvInit == WatcherInit => PumpInv
BY DEF WatcherInit, PumpInv, SourceInv, StopInv

LEMMA PumpInvStep == PumpInv /\ [WatcherNext]_watcherVars => PumpInv'
<1> SUFFICES ASSUME PumpInv, [WatcherNext]_watcherVars
             PROVE  PumpInv'
  OBVIOUS
<1> USE DEF PumpInv, SourceInv, StopInv, Pump, sourceVars, runVars
<1>1. ASSUME Revoke PROVE PumpInv'
  BY <1>1 DEF Revoke
<1>2. ASSUME PumpChecks PROVE PumpInv'
  BY <1>2 DEF PumpChecks
<1>3. ASSUME PumpFetchToken PROVE PumpInv'
  BY <1>3 DEF PumpFetchToken
<1>4. ASSUME PumpFetchTokenError PROVE PumpInv'
  BY <1>4 DEF PumpFetchTokenError
<1>5. ASSUME PumpSetToken PROVE PumpInv'
  BY <1>5 DEF PumpSetToken
<1>6. ASSUME PumpSubscribed PROVE PumpInv'
  BY <1>6 DEF PumpSubscribed
<1>7. ASSUME PumpSubscribeError PROVE PumpInv'
  BY <1>7 DEF PumpSubscribeError
<1>8. ASSUME PumpStores PROVE PumpInv'
  BY <1>8 DEF PumpStores
<1>9. ASSUME PumpNextEvent PROVE PumpInv'
  BY <1>9 DEF PumpNextEvent
<1>10. ASSUME PumpNextError PROVE PumpInv'
  BY <1>10 DEF PumpNextError
<1>11. ASSUME RunTakesEvent PROVE PumpInv'
  BY <1>11 DEF RunTakesEvent
<1>12. ASSUME RunHandled PROVE PumpInv'
  BY <1>12 DEF RunHandled
<1>13. ASSUME RunStops PROVE PumpInv'
  BY <1>13 DEF RunStops
<1>14. ASSUME RunCloses PROVE PumpInv'
  BY <1>14 DEF RunCloses
<1>15. ASSUME \/ SyncStart \/ SyncFetchToken \/ SyncFetchTokenError \/ SyncSetToken
              \/ SyncFetchedRoutes \/ SyncFetchRoutesError \/ SyncRetry
       PROVE  PumpInv'
  <2>1. UNCHANGED <<pump, sourceVars, runVars>>
    BY <1>15 DEF SyncStart, SyncFetchToken, SyncFetchTokenError, SyncSetToken,
                 SyncFetchedRoutes, SyncFetchRoutesError, SyncRetry, SyncGoes
  <2> QED
    BY <2>1
<1>16. ASSUME UNCHANGED watcherVars PROVE PumpInv'
  BY <1>16 DEF watcherVars
<1> HIDE DEF PumpInv
<1> QED
  BY <1>1, <1>2, <1>3, <1>4, <1>5, <1>6, <1>7, <1>8, <1>9, <1>10, <1>11, <1>12, <1>13,
     <1>14, <1>15, <1>16
  DEF WatcherNext

LEMMA PumpInvSuffices == PumpInv => OneSourceOpen /\ StopsSubscribing
<1> SUFFICES ASSUME PumpInv PROVE OneSourceOpen /\ StopsSubscribing
  OBVIOUS
<1>1. open = {} \/ open = {es}
  BY DEF PumpInv, SourceInv
<1>2. OneSourceOpen
  <2>1. CASE open = {}
    BY <2>1, FS_EmptySet, Cardinality({}) = 0 DEF OneSourceOpen
  <2>2. CASE open = {es}
    BY <2>2, FS_Singleton, Cardinality({es}) = 1 DEF OneSourceOpen
  <2> QED
    BY <1>1, <2>1, <2>2
<1>3. StopsSubscribing
  BY DEF PumpInv, StopInv, StopsSubscribing
<1> QED
  BY <1>2, <1>3

\* At most one connection to the routing API is open, however streams break,
\* tokens are revoked and Run closes a source under the pump's hands.
THEOREM AtMostOneSource == WatcherSpec => []OneSourceOpen
<1>1. PumpInv /\ [WatcherNext]_watcherVars => PumpInv'
  BY PumpInvStep
<1>2. PumpInv => OneSourceOpen
  BY PumpInvSuffices
<1> QED
  BY <1>1, <1>2, PumpInvInit, PTL DEF WatcherSpec

\* A stopped watcher subscribes once more at most (watcher.go:58 and 130).
THEOREM SubscribingStops == WatcherSpec => []StopsSubscribing
<1>1. PumpInv /\ [WatcherNext]_watcherVars => PumpInv'
  BY PumpInvStep
<1>2. PumpInv => StopsSubscribing
  BY PumpInvSuffices
<1> QED
  BY <1>1, <1>2, PumpInvInit, PTL DEF WatcherSpec
=============================================================================
