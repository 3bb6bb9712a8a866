--------------------------- MODULE LifecycleProofs ---------------------------
(***************************************************************************)
(* Proofs about Lifecycle, for any number of drains at a time.             *)
(***************************************************************************)
EXTENDS Lifecycle, TLAPS

DrainPlaces ==
  {"none", "poll", "test", "set", "configure", "wait", "returned", "unheard"}

LifecycleTypeOK ==
  /\ at \in DOMAIN Members
  /\ group \in {"starting", "running", "stopping", "exited"}
  /\ group = "stopping" => groupSignal \in Signals
  /\ pending \subseteq Signals
  /\ inbox \in [DOMAIN Members -> SUBSET Signals]
  /\ member \in [DOMAIN Members -> {"off", "up", "exited"}]
  /\ drain \in [Drains -> DrainPlaces]

\* No interrupt is anywhere on its way through the group: not unread, not being
\* passed on, not at a member, and no member has acted on one.
NoInterrupt ==
  /\ "INT" \notin pending
  /\ groupSignal # "INT"
  /\ \A m \in DOMAIN Members : "INT" \notin inbox[m] /\ member[m] # "exited"
  /\ group # "exited"

NoDrainYet == ~isDraining /\ \A d \in Drains : drain[d] = "none"

\* The watcher gets SIGUSR2 once, when the group begins to stop, so that there is
\* one drain; that one does not find isDraining set and has not returned.
OneDrain ==
  /\ group # "stopping" => NoDrainYet /\ "USR2" \notin inbox[watcher]
  /\ "USR2" \in inbox[watcher] => NoDrainYet
  /\ \A d, e \in Drains : drain[d] # "none" /\ drain[e] # "none" => d = e
  /\ \A d \in Drains : drain[d] \in {"poll", "test", "set"} => ~isDraining
  /\ \A d \in Drains : drain[d] \notin {"returned", "unheard"}

\* The inductive invariant: the first interrupt comes from outside, from the end of
\* HAProxy or from a drain that has waited or could not configure HAProxy.
InterruptInv ==
  /\ LifecycleTypeOK
  /\ drained \/ reason = "stop" \/ (NoInterrupt /\ OneDrain)

LEMMA MembersAreFour == DOMAIN Members = 1 .. 4 /\ Len(Members) = 4
BY DEF Members

LEMMA InterruptInvInit == LifecycleInit => InterruptInv
BY MembersAreFour DEF LifecycleInit, InterruptInv, LifecycleTypeOK, NoInterrupt, OneDrain,
   NoDrainYet, DrainPlaces, Signals, watcher

\* What the invariant speaks of.
interruptVars == <<groupVars, member, drainVars, reason>>

LEMMA InterruptInvStutter == InterruptInv /\ UNCHANGED interruptVars => InterruptInv'
BY DEF interruptVars, groupVars, drainVars, InterruptInv, LifecycleTypeOK, NoInterrupt,
   OneDrain, NoDrainYet

LEMMA InterruptInvStep == InterruptInv /\ [LifecycleNext]_lifecycleVars => InterruptInv'
<1> SUFFICES ASSUME InterruptInv, [LifecycleNext]_lifecycleVars
             PROVE  InterruptInv'
  OBVIOUS
<1>1. ASSUME \/ SetProcess \/ SyncerTick \/ Sync \/ MetricsTick \/ MetricsEmitted
             \/ WatcherParks \/ WatcherTakesEvent \/ SyncEnds \/ UNCHANGED lifecycleVars
      PROVE  InterruptInv'
  <2>1. UNCHANGED interruptVars
    BY <1>1 DEF SetProcess, SyncerTick, Sync, MetricsTick, MetricsEmitted, WatcherParks,
                WatcherTakesEvent, SyncEnds, lifecycleVars, interruptVars
  <2> QED
    BY <2>1, InterruptInvStutter
<1> USE MembersAreFour
    DEF InterruptInv, LifecycleTypeOK, NoInterrupt, OneDrain, NoDrainYet, DrainPlaces,
        Signals, groupVars, drainVars, watcher
<1>2. ASSUME StartMember PROVE InterruptInv'
  BY <1>2 DEF StartMember
<1>3. ASSUME NEW sig \in Signals, SendSignal(sig) PROVE InterruptInv'
  BY <1>3 DEF SendSignal, Signal
<1>4. ASSUME NEW sig \in Signals, GroupSignalled(sig) PROVE InterruptInv'
  BY <1>4 DEF GroupSignalled, StopFrom, Forward
<1>5. ASSUME GroupMemberExited PROVE InterruptInv'
  BY <1>5 DEF GroupMemberExited, StopFrom, Forward
<1>6. ASSUME NEW sig \in Signals, GroupPassesOn(sig) PROVE InterruptInv'
  BY <1>6 DEF GroupPassesOn, Forward
<1>7. ASSUME GroupStopsNext PROVE InterruptInv'
  BY <1>7 DEF GroupStopsNext, Forward
<1>8. ASSUME NEW m \in DOMAIN Members, StopMember(m) PROVE InterruptInv'
  BY <1>8 DEF StopMember, Exit
<1>9. ASSUME MonitorFails PROVE InterruptInv'
  BY <1>9 DEF MonitorFails, Exit, monitor
<1>10. ASSUME NEW d \in Drains, DrainPoll(d) PROVE InterruptInv'
  BY <1>10 DEF DrainPoll, DrainGoto
<1>11. ASSUME NEW d \in Drains, DrainTest(d) PROVE InterruptInv'
  <2>1. CASE isDraining
    BY <1>11, <2>1 DEF DrainTest, DrainGoto
  <2>2. CASE ~isDraining
    BY <1>11, <2>2 DEF DrainTest, DrainGoto
  <2> QED
    BY <2>1, <2>2
<1>12. ASSUME NEW d \in Drains, WatcherDrains(d) PROVE InterruptInv'
  BY <1>12 DEF WatcherDrains
<1>13. ASSUME NEW d \in Drains, DrainSet(d) \/ DrainConfigured(d) PROVE InterruptInv'
  BY <1>13 DEF DrainSet, DrainConfigured, DrainGoto
<1>14. ASSUME NEW d \in Drains, DrainFails(d) \/ DrainWaited(d) PROVE InterruptInv'
  BY <1>14 DEF DrainFails, DrainWaited, DrainGoto
<1>15. ASSUME NEW d \in Drains, DrainSignals(d) PROVE InterruptInv'
  BY <1>15 DEF DrainSignals, Interrupt, DrainGoto, Signal
<1>16. syncer \in DOMAIN Members /\ metricsReporter \in DOMAIN Members
       /\ monitor \in DOMAIN Members /\ watcher \in DOMAIN Members
  BY DEF syncer, metricsReporter, monitor
<1> HIDE DEF InterruptInv
<1> QED
  BY <1>1, <1>2, <1>3, <1>4, <1>5, <1>6, <1>7, <1>8, <1>9, <1>10, <1>11, <1>12, <1>13,
     <1>14, <1>15, <1>16
  DEF LifecycleNext, GroupStep, GroupReads, WatcherStep, SyncerStep, DrainStep, SyncerStops,
      MetricsStops, WatcherStops

\* A process that is stopped by SIGUSR2 alone exits only after its drain (main.go,
\* watcher.go:116, updater.go:184), for any number of drains, syncs and signals.
THEOREM DrainBeforeExit == LifecycleSpec => []DrainedBeforeExit
<1>1. InterruptInv /\ [LifecycleNext]_lifecycleVars => InterruptInv'
  BY InterruptInvStep
<1>2. InterruptInv => DrainedBeforeExit
  BY DEF InterruptInv, NoInterrupt, DrainedBeforeExit
<1> QED
  BY <1>1, <1>2, InterruptInvInit, PTL DEF LifecycleSpec
=============================================================================
