------------------------------- MODULE Monitor -------------------------------
(***************************************************************************)
(* The monitor of monitor/monitor.go beside the configurer: once a second  *)
(* it looks at stopWatching and, unless that is set, at the PID file and   *)
(* the process.  HAProxy may die at any time; while the reload script runs *)
(* the PID file may be empty or name a process that is gone.               *)
(***************************************************************************)
EXTENDS Configurer

VARIABLES
  mpc,        \* the monitor: "sleep", "watch" (between its two looks), "exited"
  haproxyUp   \* whether the process that the PID file names runs

monitorVars == <<mpc, haproxyUp>>
reloadVars == <<configurerVars, monitorVars>>

Reloading == \E c \in Callers : cpc[c] = "scriptRuns"

MonitorInit == ConfigurerInit /\ mpc = "sleep" /\ haproxyUp = TRUE

\* The process ends with the monitor, and with it all that would call Configure.
Running == mpc # "exited"

-----------------------------------------------------------------------------
CheckFlag ==
  /\ mpc = "sleep" /\ ~stopWatching
  /\ mpc' = "watch"
  /\ UNCHANGED <<configurerVars, haproxyUp>>

WatchPIDFound ==
  /\ mpc = "watch" /\ haproxyUp
  /\ mpc' = "sleep"
  /\ UNCHANGED <<configurerVars, haproxyUp>>

WatchPIDError ==
  /\ mpc = "watch" /\ (~haproxyUp \/ Reloading)
  /\ mpc' = "exited"
  /\ UNCHANGED <<configurerVars, haproxyUp>>

HaproxyDies ==
  /\ Running /\ haproxyUp
  /\ haproxyUp' = FALSE
  /\ UNCHANGED <<configurerVars, mpc>>

\* A script that succeeds leaves a running HAProxy.
ConfigureStep(c) ==
  /\ Running
  /\ \/ ScriptReloads(c) /\ haproxyUp' = TRUE
     \/ Configure(c) /\ cpc[c] # "scriptRuns" /\ UNCHANGED haproxyUp
     \/ ScriptFails(c) /\ UNCHANGED haproxyUp
  /\ UNCHANGED mpc

\* The process crashes, or has exited and is started again: HAProxy stays as it is.
Restart ==
  /\ Crash
  /\ mpc' = "sleep"
  /\ UNCHANGED haproxyUp

MonitorNext ==
  \/ CheckFlag \/ WatchPIDFound \/ WatchPIDError
  \/ HaproxyDies
  \/ \E c \in Callers :
       \/ Running /\ CallConfigure(c) /\ UNCHANGED monitorVars
       \/ ConfigureStep(c)
  \/ Running /\ ReapChild /\ UNCHANGED monitorVars
  \/ Restart

\* The monitor's ticker, and callers that are inside Configure, keep going.
MonitorSpec ==
  /\ MonitorInit /\ [][MonitorNext]_reloadVars
  /\ WF_reloadVars(CheckFlag \/ WatchPIDFound \/ WatchPIDError)
  /\ \A c \in Callers : SF_reloadVars(ConfigureStep(c))

-----------------------------------------------------------------------------
(* Properties.                                                             *)

\* When HAProxy stays down, and the last Configure to return, before its death or
\* after, returned no error, the monitor ends the process: every successful reload
\* turns it on again, also when another Configure turned it off and on meanwhile.
DeathNoticed ==
  <>[](~haproxyUp /\ ~failed) => <>(mpc = "exited")

\* When HAProxy is down it comes back or the monitor ends the process.
DownIsNoticed == ~haproxyUp ~> (haproxyUp \/ mpc = "exited")
=============================================================================
