----------------------------- MODULE Lifecycle -----------------------------
(***************************************************************************)
(* The process as main.go puts it together: an ordered group of syncer,     *)
(* metrics reporter, monitor and watcher, the signals it is sent, and the   *)
(* drain that a SIGUSR2 starts and that ends the process.                   *)
(*                                                                         *)
(* The updater is here what the others see of it: the syncing flag and the  *)
(* goroutines of Drain; the module Updater has the rest.                    *)
(*                                                                         *)
(* The group is ifrit's: it starts the members in order, each when the one  *)
(* before is ready, and stops them in the reverse order.  Signals wait for  *)
(* it in goroutines of their own, so that it reads them in any order.       *)
(* Signals that come while it starts are left out.                          *)
(***************************************************************************)
EXTENDS Naturals, Sequences

CONSTANT MaxDrains  \* bound: goroutines that call Drain, at a time

ASSUME LifecycleAssumption == MaxDrains \in Nat

Drains == 1 .. MaxDrains

Signals == {"USR2", "INT"}

Members == <<"syncer", "metricsReporter", "monitor", "watcher">>
syncer == 1
metricsReporter == 2
monitor == 3
watcher == 4

VARIABLES
  group,        \* what the group does: starting, running, stopping, exited
  at,           \* the member it starts or stops
  groupSignal,  \* the signal it stops the members with
  pending,      \* signals sent to the group and not read yet
  inbox,        \* signals sent to each member and not read yet
  member,       \* each member: off, up, exited
  processSet,   \* whether the watcher has been given the process to signal
  syncerAt,     \* the syncer: in sync() or in its select
  metricsAt,    \* the metrics reporter: in its select or in emitStats()
  watcherAt,    \* the watcher: parked in its select, or busy elsewhere
  syncing,      \* the flag that every Sync sets when it starts and clears when it ends
  drain,        \* where each goroutine that calls Drain is
  isDraining,
  drained,      \* a drain has waited its time or could not configure (history)
  reason        \* why it is to end: none, drain (by SIGUSR2 only) or stop (history)

groupVars == <<group, at, groupSignal, pending, inbox>>
drainVars == <<drain, isDraining, drained>>
lifecycleVars == <<groupVars, member, processSet, syncerAt, metricsAt, watcherAt,
                   syncing, drainVars, reason>>

LifecycleInit ==
  /\ group = "starting" /\ at = 1 /\ groupSignal = "none" /\ pending = {}
  /\ inbox = [m \in DOMAIN Members |-> {}]
  /\ member = [m \in DOMAIN Members |-> "off"]
  /\ processSet = FALSE
  /\ syncerAt = "sync" /\ metricsAt = "select" /\ watcherAt = "busy"
  /\ syncing = FALSE
  /\ drain = [d \in Drains |-> "none"] /\ isDraining = FALSE
  /\ drained = FALSE
  /\ reason = "none"

-----------------------------------------------------------------------------
(* The group, and main.                                                    *)

\* A signal waits for the member to read it or to exit.
Forward(m, sig) ==
  inbox' = [inbox EXCEPT ![m] = IF member[m] = "exited" THEN @ ELSE @ \cup {sig}]

StartMember ==
  /\ group = "starting"
  /\ member' = [member EXCEPT ![at] = "up"]
  /\ IF at = Len(Members) THEN group' = "running" /\ UNCHANGED at
                          ELSE at' = at + 1 /\ UNCHANGED group
  /\ UNCHANGED <<groupSignal, pending, inbox, processSet, syncerAt, metricsAt,
                 watcherAt, syncing, drainVars, reason>>

\* main gives the watcher the process once Invoke has returned.
SetProcess ==
  /\ group \in {"running", "stopping"} /\ ~processSet
  /\ processSet' = TRUE
  /\ UNCHANGED <<groupVars, member, syncerAt, metricsAt, watcherAt, syncing, drainVars, reason>>

Signal(sig) == pending' = pending \cup {sig}

\* From outside, at any time once the group runs.
SendSignal(sig) ==
  /\ group \in {"running", "stopping"}
  /\ Signal(sig)
  /\ reason' = IF sig = "USR2" /\ reason # "stop" THEN "drain" ELSE "stop"
  /\ UNCHANGED <<group, at, groupSignal, inbox, member, processSet, syncerAt, metricsAt,
                 watcherAt, syncing, drainVars>>

StopFrom(sig) ==
  /\ group' = "stopping"
  /\ groupSignal' = sig
  /\ at' = Len(Members)
  /\ Forward(Len(Members), sig)
  /\ UNCHANGED <<member, processSet, syncerAt, metricsAt, watcherAt, syncing, drainVars, reason>>

GroupSignalled(sig) ==
  /\ group = "running" /\ sig \in pending
  /\ StopFrom(sig)
  /\ pending' = pending \ {sig}

GroupMemberExited ==
  /\ group = "running"
  /\ \E m \in DOMAIN Members : member[m] = "exited"
  /\ StopFrom("INT") /\ UNCHANGED pending

\* While it waits for a member, the group takes a signal that differs from the
\* one it stops with in its place, for this member and those still to stop.
GroupPassesOn(sig) ==
  /\ group = "stopping" /\ sig \in pending
  /\ pending' = pending \ {sig}
  /\ groupSignal' = sig
  /\ IF sig # groupSignal THEN Forward(at, sig) ELSE UNCHANGED inbox
  /\ UNCHANGED <<group, at, member, processSet, syncerAt, metricsAt, watcherAt,
                 syncing, drainVars, reason>>

GroupStopsNext ==
  /\ group = "stopping" /\ member[at] = "exited"
  /\ IF at = 1 THEN group' = "exited" /\ UNCHANGED <<at, inbox>>
               ELSE at' = at - 1 /\ Forward(at - 1, groupSignal) /\ UNCHANGED group
  /\ UNCHANGED <<groupSignal, pending, member, processSet, syncerAt, metricsAt, watcherAt,
                 syncing, drainVars, reason>>

-----------------------------------------------------------------------------
(* The members.                                                            *)

Exit(m) ==
  /\ member' = [member EXCEPT ![m] = "exited"]
  /\ inbox' = [inbox EXCEPT ![m] = {}]

\* Each member on an interrupt.  All but the watcher ignore SIGUSR2.
StopMember(m) ==
  /\ member[m] = "up" /\ "INT" \in inbox[m]
  /\ Exit(m)
  /\ UNCHANGED <<group, at, groupSignal, pending, processSet, syncerAt, metricsAt, watcherAt,
                 syncing, drainVars, reason>>

\* watchPID returns an error.
MonitorFails ==
  /\ member[monitor] = "up"
  /\ Exit(monitor)
  /\ reason' = "stop"
  /\ UNCHANGED <<group, at, groupSignal, pending, processSet, syncerAt, metricsAt, watcherAt,
                 syncing, drainVars>>

SyncerTick ==
  /\ member[syncer] = "up" /\ syncerAt = "select"
  /\ syncerAt' = "sync"
  /\ UNCHANGED <<groupVars, member, processSet, metricsAt, watcherAt, syncing, drainVars, reason>>

WatcherParked == member[watcher] = "up" /\ watcherAt = "parked"

\* A watcher parked in its select takes the request and starts a Sync.
SyncSent ==
  /\ WatcherParked
  /\ syncing' = TRUE
  /\ watcherAt' = "busy"

\* The default case, with nobody at the channel.
SyncDropped ==
  /\ ~WatcherParked
  /\ UNCHANGED <<watcherAt, syncing>>

\* sync() without its default case.
SyncBlocking ==
  /\ member[syncer] = "up" /\ syncerAt = "sync"
  /\ syncerAt' = "select"
  /\ SyncSent
  /\ UNCHANGED <<groupVars, member, processSet, metricsAt, drainVars, reason>>

Sync ==
  /\ member[syncer] = "up" /\ syncerAt = "sync"
  /\ syncerAt' = "select"
  /\ SyncSent \/ SyncDropped
  /\ UNCHANGED <<groupVars, member, processSet, metricsAt, drainVars, reason>>

\* The syncer reads signals in its select only.
SyncerStops == syncerAt = "select" /\ StopMember(syncer)

MetricsTick ==
  /\ member[metricsReporter] = "up" /\ metricsAt = "select"
  /\ metricsAt' = "emitStats"
  /\ UNCHANGED <<groupVars, member, processSet, syncerAt, watcherAt, syncing, drainVars, reason>>

\* GetStats reads from HAProxy's socket without a deadline.
MetricsEmitted ==
  /\ member[metricsReporter] = "up" /\ metricsAt = "emitStats"
  /\ metricsAt' = "select"
  /\ UNCHANGED <<groupVars, member, processSet, syncerAt, watcherAt, syncing, drainVars, reason>>

MetricsStops == metricsAt = "select" /\ StopMember(metricsReporter)

\* The watcher comes to its select: at first, after an event or a signal.
WatcherParks ==
  /\ member[watcher] = "up" /\ watcherAt = "busy"
  /\ watcherAt' = "parked"
  /\ UNCHANGED <<groupVars, member, processSet, syncerAt, metricsAt, syncing, drainVars, reason>>

\* It is busy until HandleEvent returns.
WatcherTakesEvent ==
  /\ WatcherParked
  /\ watcherAt' = "busy"
  /\ UNCHANGED <<groupVars, member, processSet, syncerAt, metricsAt, syncing, drainVars, reason>>

Idle(d) == drain[d] \in {"none", "unheard"}

\* SIGUSR2: a goroutine, at the first free place, drains while the watcher goes on.
WatcherDrains(d) ==
  /\ WatcherParked /\ "USR2" \in inbox[watcher]
  /\ inbox' = [inbox EXCEPT ![watcher] = @ \ {"USR2"}]
  /\ watcherAt' = "busy"
  /\ Idle(d) /\ (\A e \in Drains : Idle(e) => e >= d)
  /\ drain' = [drain EXCEPT ![d] = "poll"]
  /\ UNCHANGED <<group, at, groupSignal, pending, member, processSet, syncerAt, metricsAt,
                 syncing, isDraining, drained, reason>>

WatcherStops ==
  /\ WatcherParked
  /\ StopMember(watcher)

-----------------------------------------------------------------------------
(* The goroutines of the updater.                                          *)

\* One of any number of syncs; the others change nothing by ending after it.
SyncEnds ==
  /\ syncing /\ group # "exited"
  /\ syncing' = FALSE
  /\ UNCHANGED <<groupVars, member, processSet, syncerAt, metricsAt, watcherAt, drainVars, reason>>

DrainGoto(d, from, to) ==
  /\ group # "exited"
  /\ drain[d] = from /\ drain' = [drain EXCEPT ![d] = to]
  /\ UNCHANGED <<group, at, groupSignal, inbox, member, processSet, syncerAt, metricsAt,
                 watcherAt, syncing, reason>>

DrainPoll(d) ==
  /\ ~syncing
  /\ DrainGoto(d, "poll", "test")
  /\ UNCHANGED <<pending, isDraining, drained>>

\* A drain that finds another one under way returns at once.
DrainTest(d) ==
  /\ DrainGoto(d, "test", IF isDraining THEN "returned" ELSE "set")
  /\ UNCHANGED <<pending, isDraining, drained>>

DrainSet(d) ==
  /\ DrainGoto(d, "set", "configure")
  /\ isDraining' = TRUE
  /\ UNCHANGED <<pending, drained>>

DrainConfigured(d) ==
  /\ DrainGoto(d, "configure", "wait")
  /\ UNCHANGED <<pending, isDraining, drained>>

\* A drain that cannot configure HAProxy does not wait.
DrainFails(d) ==
  /\ DrainGoto(d, "configure", "returned")
  /\ drained' = TRUE
  /\ UNCHANGED <<pending, isDraining>>

DrainWaited(d) ==
  /\ DrainGoto(d, "wait", "returned")
  /\ drained' = TRUE
  /\ UNCHANGED <<pending, isDraining>>

Interrupt(d, from) ==
  /\ DrainGoto(d, from, IF processSet THEN "none" ELSE "unheard")
  /\ IF processSet THEN Signal("INT") ELSE UNCHANGED pending
  /\ UNCHANGED <<isDraining, drained>>

\* The process is interrupted as soon as HAProxy is configured to drain.
DrainSignalsEarly(d) == Interrupt(d, "wait") \/ Interrupt(d, "returned")

\* The watcher's goroutine interrupts the process, if it has been given one.
DrainSignals(d) == Interrupt(d, "returned")

-----------------------------------------------------------------------------
GroupReads(sig) == GroupSignalled(sig) \/ GroupPassesOn(sig)

GroupStep ==
  \/ StartMember \/ GroupMemberExited \/ GroupStopsNext
  \/ \E sig \in Signals : GroupReads(sig)

WatcherStep ==
  \/ WatcherParks \/ WatcherTakesEvent \/ WatcherStops
  \/ \E d \in Drains : WatcherDrains(d)

SyncerStep == SyncerTick \/ Sync \/ SyncerStops

DrainStep(d) ==
  \/ DrainPoll(d) \/ DrainTest(d) \/ DrainSet(d) \/ DrainConfigured(d) \/ DrainFails(d)
  \/ DrainWaited(d) \/ DrainSignals(d)

LifecycleNext ==
  \/ GroupStep \/ SetProcess \/ WatcherStep \/ SyncerStep \/ SyncEnds \/ MonitorFails
  \/ \E sig \in Signals : SendSignal(sig)
  \/ MetricsTick \/ MetricsEmitted \/ MetricsStops \/ StopMember(monitor)
  \/ \E d \in Drains : DrainStep(d)

LifecycleSpec == LifecycleInit /\ [][LifecycleNext]_lifecycleVars

\* Goroutines run; a select with several cases ready takes each in the end;
\* HAProxy answers the metrics reporter or ends; Drain's poll meets the pause between
\* two syncs.  Nobody has to send a signal.
FairLifecycleSpec ==
  /\ LifecycleSpec
  /\ WF_lifecycleVars(StartMember \/ GroupMemberExited \/ GroupStopsNext)
  /\ \A sig \in Signals : WF_lifecycleVars(GroupReads(sig))
  /\ WF_lifecycleVars(SetProcess)
  /\ WF_lifecycleVars(Sync) /\ WF_lifecycleVars(WatcherParks)
  /\ WF_lifecycleVars(MetricsEmitted) /\ WF_lifecycleVars(SyncEnds)
  /\ SF_lifecycleVars(SyncerStops \/ MetricsStops \/ StopMember(monitor) \/ WatcherStops)
  /\ SF_lifecycleVars(\E d \in Drains : WatcherDrains(d))
  /\ \A d \in Drains : SF_lifecycleVars(DrainStep(d))

-----------------------------------------------------------------------------
(* Properties.                                                             *)

\* A process that nobody interrupts, and whose HAProxy is up, exits only after
\* a drain that SIGUSR2 asked for has waited its time or could not configure
\* HAProxy, however often SIGUSR2 is sent and whatever syncs run.
DrainedBeforeExit == group = "exited" /\ reason # "stop" => drained

\* The group waits, with SIGUSR2 for its signal, for a member that ignores it: it
\* read the signal when the watcher had stopped already, or was about to.  No drain
\* is left that would interrupt the group; it waits until somebody does.
Overtaken ==
  /\ group = "stopping" /\ groupSignal = "USR2" /\ pending = {}
  /\ member[watcher] = "exited" /\ member[at] = "up" /\ inbox[at] = {"USR2"}
  /\ \A d \in Drains : Idle(d)

\* The group waits for a watcher whose drain ended before SetProcess.
Unheard ==
  /\ group = "stopping" /\ groupSignal = "USR2" /\ pending = {}
  /\ member[watcher] = "up" /\ inbox[watcher] = {}
  /\ \A d \in Drains : Idle(d)
  /\ \E d \in Drains : drain[d] = "unheard"

\* SIGUSR2, an interrupt and the end of HAProxy, in any order and number, end the
\* process: no member waits for one that has stopped already, and a drain interrupts
\* what it outlives.  There are two ways not to: a SIGUSR2 that the group reads while
\* it stops is passed on to members that ignore it (syncer.go:48, monitor.go:56,
\* metrics_reporter.go:58), or a drain ends before main's SetProcess (main.go:278).
ProcessExits == reason # "none" ~> group = "exited" \/ Overtaken \/ Unheard
=============================================================================
