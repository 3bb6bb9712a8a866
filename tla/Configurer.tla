----------------------------- MODULE Configurer -----------------------------
(***************************************************************************)
(* Configure of configurer/haproxy/haproxy_configurer.go, step by step:    *)
(* the file lock, the backup, the temporary file and its renaming, the      *)
(* reload script and its exit status, which the child reaper of main.go     *)
(* may take first.  Any step may return an error and the process may crash  *)
(* between any two and start again; files outlive it.                       *)
(*                                                                         *)
(* Calls are numbered.  Call n marshals content n and passes the script the *)
(* drain flag n, so that a content or a flag tells whose it is.             *)
(***************************************************************************)
EXTENDS Naturals

CONSTANTS
  Callers,         \* goroutines that call Configure: the updater, drains
  NoCaller,        \* nobody has the file lock
  Partial, Absent, \* a file that is not written completely, or not there
  MaxCalls,        \* bound: calls of Configure
  MaxCrashes       \* bound: crashes of the process

ASSUME ConfigurerAssumption ==
  /\ NoCaller \notin Callers
  /\ Partial \notin Nat /\ Absent \notin Nat /\ Partial # Absent
  /\ MaxCalls \in Nat /\ MaxCrashes \in Nat

VARIABLES
  cpc,            \* where each caller is in Configure
  call,           \* the number of its call
  configFileLock,
  stopWatching,   \* of the monitor: the flag StopWatching and StartWatching set
  config, backup, tmp,  \* contents of the files
  running,        \* HAProxy: the content and the drain flag it was reloaded with
  child,          \* the script each caller waits for
  sigchld,        \* whether the reaper has a signal to handle
  failed,         \* whether the last Configure to return failed (history)
  calls, crashes

files == <<config, backup, tmp>>
counters == <<calls, crashes>>
configurerVars == <<cpc, call, configFileLock, stopWatching, files, running, child,
                    sigchld, failed, counters>>

\* Where Configure holds the file lock.
InLock == {"backup", "backupWrite", "marshal", "tmpCreate", "tmpWrite", "rename",
           "script", "scriptRuns", "wait", "start"}

Content == Nat \cup {Partial, Absent}

ConfigurerInit ==
  /\ cpc = [c \in Callers |-> "idle"]
  /\ call = [c \in Callers |-> 0]
  /\ configFileLock = NoCaller
  /\ stopWatching = FALSE
  /\ config = 0 /\ backup = Absent /\ tmp = Absent
  /\ running = [content |-> 0, flag |-> 0]
  /\ child = [c \in Callers |-> "none"]
  /\ sigchld = FALSE
  /\ failed = FALSE
  /\ calls = 0 /\ crashes = 0

-----------------------------------------------------------------------------
Goto(c, from, to) == cpc[c] = from /\ cpc' = [cpc EXCEPT ![c] = to]

\* The deferred Unlock.
Return(c, ok) ==
  /\ cpc' = [cpc EXCEPT ![c] = "idle"]
  /\ child' = [child EXCEPT ![c] = "none"]
  /\ configFileLock' = NoCaller
  /\ failed' = ~ok

\* The monitor is told before the file lock is asked for.
CallConfigure(c) ==
  /\ calls < MaxCalls
  /\ Goto(c, "idle", "lock")
  /\ calls' = calls + 1
  /\ call' = [call EXCEPT ![c] = calls + 1]
  /\ stopWatching' = TRUE
  /\ UNCHANGED <<configFileLock, files, running, child, sigchld, failed, crashes>>

\* Configure without its file lock.
NoLock(c) ==
  /\ Goto(c, "lock", "backup")
  /\ configFileLock' = c
  /\ UNCHANGED <<call, stopWatching, files, running, child, sigchld, failed, counters>>

Lock(c) ==
  /\ configFileLock = NoCaller
  /\ Goto(c, "lock", "backup")
  /\ configFileLock' = c
  /\ UNCHANGED <<call, stopWatching, files, running, child, sigchld, failed, counters>>

\* createConfigBackup: os.Create truncates the backup, then it is written.
BackupCreate(c) ==
  /\ Goto(c, "backup", "backupWrite")
  /\ backup' = Partial
  /\ UNCHANGED <<call, configFileLock, stopWatching, config, tmp, running, child,
                 sigchld, failed, counters>>

\* The backup is created and its content never arrives.
BackupSkipped(c) ==
  /\ Goto(c, "backupWrite", "marshal")
  /\ UNCHANGED <<call, configFileLock, stopWatching, files, running, child,
                 sigchld, failed, counters>>

BackupWrite(c) ==
  /\ Goto(c, "backupWrite", "marshal")
  /\ backup' = config
  /\ UNCHANGED <<call, configFileLock, stopWatching, config, tmp, running, child,
                 sigchld, failed, counters>>

\* The base file and the marshalled routing table, in memory.
MarshalConfig(c) ==
  /\ Goto(c, "marshal", "tmpCreate")
  /\ UNCHANGED <<call, configFileLock, stopWatching, files, running, child,
                 sigchld, failed, counters>>

\* The configuration is written where HAProxy reads it.
CreateInPlace(c) ==
  /\ Goto(c, "tmpCreate", "tmpWrite")
  /\ config' = Partial
  /\ UNCHANGED <<call, configFileLock, stopWatching, backup, tmp, running, child,
                 sigchld, failed, counters>>

\* writeToConfig: the temporary file, then its renaming.
TmpCreate(c) ==
  /\ Goto(c, "tmpCreate", "tmpWrite")
  /\ tmp' = Partial
  /\ UNCHANGED <<call, configFileLock, stopWatching, config, backup, running, child,
                 sigchld, failed, counters>>

TmpWrite(c) ==
  /\ Goto(c, "tmpWrite", "rename")
  /\ tmp' = call[c]
  /\ UNCHANGED <<call, configFileLock, stopWatching, config, backup, running, child,
                 sigchld, failed, counters>>

\* The file lock covers the files and not the reload.
RenameAndUnlock(c) ==
  /\ Goto(c, "rename", "script")
  /\ config' = tmp
  /\ tmp' = Absent
  /\ configFileLock' = NoCaller
  /\ UNCHANGED <<call, stopWatching, backup, running, child, sigchld, failed, counters>>

Rename(c) ==
  /\ Goto(c, "rename", "script")
  /\ config' = tmp
  /\ tmp' = Absent
  /\ UNCHANGED <<call, configFileLock, stopWatching, backup, running, child,
                 sigchld, failed, counters>>

\* Any of the file operations returns an error.
FileError(c) ==
  /\ cpc[c] \in {"backup", "backupWrite", "marshal", "tmpCreate", "tmpWrite", "rename"}
  /\ Return(c, FALSE)
  /\ UNCHANGED <<call, stopWatching, files, running, sigchld, counters>>

\* CommandRunner.Run: start the script, let it run, wait for its exit status.
ScriptStart(c) ==
  /\ Goto(c, "script", "scriptRuns")
  /\ UNCHANGED <<call, configFileLock, stopWatching, files, running, child,
                 sigchld, failed, counters>>

ScriptReloads(c) ==
  /\ Goto(c, "scriptRuns", "wait")
  /\ running' = [content |-> config, flag |-> call[c]]
  /\ child' = [child EXCEPT ![c] = "exited"]
  /\ sigchld' = TRUE
  /\ UNCHANGED <<call, configFileLock, stopWatching, files, failed, counters>>

ScriptFails(c) ==
  /\ Goto(c, "scriptRuns", "wait")
  /\ child' = [child EXCEPT ![c] = "failed"]
  /\ sigchld' = TRUE
  /\ UNCHANGED <<call, configFileLock, stopWatching, files, running, failed, counters>>

\* The SIGCHLD goroutine of main waits for any child.
ReapChild ==
  /\ sigchld
  /\ sigchld' = FALSE
  /\ \/ \E c \in Callers :
          /\ child[c] \in {"exited", "failed"}
          /\ child' = [child EXCEPT ![c] = "reaped"]
     \/ (\A c \in Callers : child[c] \notin {"exited", "failed"}) /\ UNCHANGED child
  /\ UNCHANGED <<cpc, call, configFileLock, stopWatching, files, running, failed, counters>>

\* The status of the script is not looked at.
ScriptStatusIgnored(c) ==
  /\ child[c] # "none"
  /\ Goto(c, "wait", "start")
  /\ child' = [child EXCEPT ![c] = "none"]
  /\ UNCHANGED <<call, configFileLock, stopWatching, files, running, sigchld, failed, counters>>

ScriptOk(c) ==
  /\ child[c] = "exited"
  /\ Goto(c, "wait", "start")
  /\ child' = [child EXCEPT ![c] = "none"]
  /\ UNCHANGED <<call, configFileLock, stopWatching, files, running, sigchld, failed, counters>>

\* A script whose status the reaper has taken counts as failed.
ScriptError(c) ==
  /\ cpc[c] = "wait" /\ child[c] \in {"failed", "reaped"}
  /\ Return(c, FALSE)
  /\ UNCHANGED <<call, stopWatching, files, running, sigchld, counters>>

\* The reload is done and the monitor stays off.
ReturnOnly(c) ==
  /\ cpc[c] = "start"
  /\ Return(c, TRUE)
  /\ UNCHANGED <<call, stopWatching, files, running, sigchld, counters>>

StartWatching(c) ==
  /\ cpc[c] = "start"
  /\ Return(c, TRUE)
  /\ stopWatching' = FALSE
  /\ UNCHANGED <<call, files, running, sigchld, counters>>

\* The process ends, its reload script with it; one that starts again finds
\* the files as they are.
Crash ==
  /\ crashes < MaxCrashes
  /\ crashes' = crashes + 1
  /\ cpc' = [c \in Callers |-> "idle"]
  /\ child' = [c \in Callers |-> "none"]
  /\ call' = [c \in Callers |-> 0]
  /\ configFileLock' = NoCaller
  /\ stopWatching' = FALSE
  /\ sigchld' = FALSE
  /\ failed' = FALSE
  /\ UNCHANGED <<files, running, calls>>

-----------------------------------------------------------------------------
Configure(c) ==
  \/ Lock(c) \/ BackupCreate(c) \/ BackupWrite(c) \/ MarshalConfig(c)
  \/ TmpCreate(c) \/ TmpWrite(c) \/ Rename(c) \/ FileError(c)
  \/ ScriptStart(c) \/ ScriptReloads(c) \/ ScriptFails(c)
  \/ ScriptOk(c) \/ ScriptError(c) \/ StartWatching(c)

ConfigurerNext ==
  \/ \E c \in Callers : CallConfigure(c) \/ Configure(c)
  \/ ReapChild
  \/ Crash

ConfigurerSpec == ConfigurerInit /\ [][ConfigurerNext]_configurerVars

-----------------------------------------------------------------------------
(* Properties.                                                             *)

\* Each variable has its type, and the file lock is where the callers say.
ConfigurerTypeOK ==
  /\ cpc \in [Callers -> {"idle", "lock"} \cup InLock]
  /\ call \in [Callers -> Nat]
  /\ configFileLock \in Callers \cup {NoCaller}
  /\ stopWatching \in BOOLEAN /\ sigchld \in BOOLEAN /\ failed \in BOOLEAN
  /\ config \in Content /\ backup \in Content /\ tmp \in Content
  /\ running \in [content : Content, flag : Nat]
  /\ child \in [Callers -> {"none", "exited", "failed", "reaped"}]
  /\ calls \in Nat /\ crashes \in Nat
  /\ \A c \in Callers : cpc[c] \in InLock <=> configFileLock = c

\* The file HAProxy starts from is complete at every moment, also when the
\* process crashes in the middle of writeToConfig or an operation on it fails.
ConfigComplete == config \in Nat

\* A configuration is replaced only when the backup is a complete copy of it,
\* whoever else is calling Configure and wherever an earlier call broke off.
BackupBeforeReplace == [][config' # config => backup = config]_configurerVars

\* HAProxy runs with the content and the drain flag of one and the same call:
\* nobody replaces the file between the renaming and the reload of a call.
ReloadsOwnContent == running.content = running.flag

Atomic == INSTANCE AtomicConfigure WITH
  issued  <- calls,
  pending <- [c \in Callers |-> IF cpc[c] = "idle" THEN 0 ELSE call[c]],
  applied <- [c \in Callers |-> cpc[c] # "idle" /\ running.flag = call[c]],
  effect  <- running

\* With its lock, its three files, the script and the reaper that may take the
\* script's status, Configure is to its callers the one atomic step that the
\* updater takes it for: no call takes effect twice, after its return or mixed
\* with another, and none returns nil without effect.
ConfigureIsAtomic == Atomic!AtomicSpec
=============================================================================
