-------------------------- MODULE ConfigurerProofs --------------------------
(***************************************************************************)
(* Proofs about Configurer, for any number of callers, calls and crashes.  *)
(***************************************************************************)
EXTENDS Configurer, TLAPS

\* What each caller has achieved so far, as long as it holds the file lock.
CallerInv(c) ==
  /\ cpc[c] \in {"marshal", "tmpCreate", "tmpWrite", "rename"} => backup = config
  /\ cpc[c] = "rename" => tmp = call[c]
  /\ cpc[c] \in {"script", "scriptRuns"} => config = call[c]

\* The inductive invariant.
FilesInv ==
  /\ ConfigurerTypeOK
  /\ ConfigComplete
  /\ ReloadsOwnContent
  /\ \A c \in Callers : CallerInv(c)

LEMMA FilesInvInit == ConfigurerInit => FilesInv
<1> SUFFICES ASSUME ConfigurerInit PROVE FilesInv
  OBVIOUS
<1> USE ConfigurerAssumption DEF ConfigurerInit, ConfigurerAssumption, Content, InLock
<1>1. ConfigurerTypeOK
  <2>1. /\ cpc \in [Callers -> {"idle", "lock"} \cup InLock]
        /\ call \in [Callers -> Nat]
        /\ child \in [Callers -> {"none", "exited", "failed", "reaped"}]
    OBVIOUS
  <2>2. \A c \in Callers : cpc[c] \in InLock <=> configFileLock = c
    OBVIOUS
  <2>3. running \in [content : Content, flag : Nat]
    OBVIOUS
  <2> QED
    BY <2>1, <2>2, <2>3 DEF ConfigurerTypeOK
<1>2. ConfigComplete /\ ReloadsOwnContent /\ \A c \in Callers : CallerInv(c)
  BY DEF ConfigComplete, ReloadsOwnContent, CallerInv
<1> QED
  BY <1>1, <1>2 DEF FilesInv

\* A caller's step preserves the invariant: the others are outside the file lock.
LEMMA FilesInvStep ==
  FilesInv /\ [ConfigurerNext]_configurerVars => FilesInv'
<1> SUFFICES ASSUME FilesInv, [ConfigurerNext]_configurerVars
             PROVE  FilesInv'
  OBVIOUS
<1> USE ConfigurerAssumption
    DEF FilesInv, ConfigurerTypeOK, ConfigComplete, ReloadsOwnContent, CallerInv,
        Content, InLock, files, counters, Goto, Return, ConfigurerAssumption
<1>1. ASSUME NEW c \in Callers, CallConfigure(c) PROVE FilesInv'
  BY <1>1 DEF CallConfigure
<1>2. ASSUME NEW c \in Callers, Lock(c) PROVE FilesInv'
  BY <1>2 DEF Lock
<1>3. ASSUME NEW c \in Callers, BackupCreate(c) PROVE FilesInv'
  BY <1>3 DEF BackupCreate
<1>4. ASSUME NEW c \in Callers, BackupWrite(c) PROVE FilesInv'
  BY <1>4 DEF BackupWrite
<1>5. ASSUME NEW c \in Callers, MarshalConfig(c) PROVE FilesInv'
  BY <1>5 DEF MarshalConfig
<1>6. ASSUME NEW c \in Callers, TmpCreate(c) PROVE FilesInv'
  BY <1>6 DEF TmpCreate
<1>7. ASSUME NEW c \in Callers, TmpWrite(c) PROVE FilesInv'
  BY <1>7 DEF TmpWrite
<1>8. ASSUME NEW c \in Callers, Rename(c) PROVE FilesInv'
  BY <1>8 DEF Rename
<1>9. ASSUME NEW c \in Callers, FileError(c) PROVE FilesInv'
  BY <1>9 DEF FileError
<1>10. ASSUME NEW c \in Callers, ScriptStart(c) PROVE FilesInv'
  BY <1>10 DEF ScriptStart
<1>11. ASSUME NEW c \in Callers, ScriptReloads(c) PROVE FilesInv'
  BY <1>11 DEF ScriptReloads
<1>12. ASSUME NEW c \in Callers, ScriptFails(c) PROVE FilesInv'
  BY <1>12 DEF ScriptFails
<1>13. ASSUME NEW c \in Callers, ScriptOk(c) PROVE FilesInv'
  BY <1>13 DEF ScriptOk
<1>14. ASSUME NEW c \in Callers, ScriptError(c) PROVE FilesInv'
  BY <1>14 DEF ScriptError
<1>15. ASSUME NEW c \in Callers, StartWatching(c) PROVE FilesInv'
  BY <1>15 DEF StartWatching
<1>16. CASE ReapChild
  BY <1>16 DEF ReapChild
<1>17. CASE Crash
  <2> USE <1>17 DEF Crash
  <2>1. /\ cpc' \in [Callers -> {"idle", "lock"} \cup InLock]
        /\ call' \in [Callers -> Nat]
        /\ child' \in [Callers -> {"none", "exited", "failed", "reaped"}]
    OBVIOUS
  <2>2. \A c \in Callers : cpc'[c] \in InLock <=> configFileLock' = c
    OBVIOUS
  <2>3. UNCHANGED <<config, backup, tmp, running, calls>> /\ crashes' \in Nat
    OBVIOUS
  <2>4. stopWatching' \in BOOLEAN /\ sigchld' \in BOOLEAN /\ failed' \in BOOLEAN
    OBVIOUS
  <2>5. \A c \in Callers : CallerInv(c)'
    OBVIOUS
  <2> QED
    BY <2>1, <2>2, <2>3, <2>4, <2>5
<1>18. CASE UNCHANGED configurerVars
  BY <1>18 DEF configurerVars
<1> QED
  BY <1>1, <1>2, <1>3, <1>4, <1>5, <1>6, <1>7, <1>8, <1>9, <1>10, <1>11, <1>12,
     <1>13, <1>14, <1>15, <1>16, <1>17, <1>18
  DEF ConfigurerNext, Configure

\* The configuration file is complete at every moment of every run, crashes and
\* failing file operations included (writeToConfig).
THEOREM ConfigAlwaysComplete == ConfigurerSpec => []ConfigComplete
<1>1. FilesInv => ConfigComplete
  BY DEF FilesInv
<1> QED
  BY <1>1, FilesInvInit, FilesInvStep, PTL DEF ConfigurerSpec

\* HAProxy always runs with the content and the flag of one call, however many
\* goroutines call Configure.
THEOREM ReloadsAreWhole == ConfigurerSpec => []ReloadsOwnContent
<1>1. FilesInv => ReloadsOwnContent
  BY DEF FilesInv
<1> QED
  BY <1>1, FilesInvInit, FilesInvStep, PTL DEF ConfigurerSpec

\* Only a step of writeToConfig replaces the configuration, and when it does the
\* backup is a complete copy of what it replaces.
THEOREM ReplacedIsBackedUp == ConfigurerSpec => BackupBeforeReplace
<1>1. FilesInv /\ [ConfigurerNext]_configurerVars
        => [config' # config => backup = config]_configurerVars
  BY DEF FilesInv, CallerInv, ConfigurerNext, Configure, configurerVars, files,
         CallConfigure, Lock, BackupCreate, BackupWrite, MarshalConfig, TmpCreate,
         TmpWrite, Rename, FileError, ScriptStart, ScriptReloads, ScriptFails,
         ReapChild, ScriptOk, ScriptError, StartWatching, Crash, Goto
<1> QED
  BY <1>1, FilesInvInit, FilesInvStep, PTL DEF ConfigurerSpec, BackupBeforeReplace

\* Every variable of the configurer has its type, and at most one caller is in
\* the part of Configure that configFileLock guards.
THEOREM ConfigurerTypes == ConfigurerSpec => []ConfigurerTypeOK
<1>1. FilesInv => ConfigurerTypeOK
  BY DEF FilesInv
<1> QED
  BY <1>1, FilesInvInit, FilesInvStep, PTL DEF ConfigurerSpec

-----------------------------------------------------------------------------
(* Configurer implements AtomicConfigure.                                  *)

\* A call's number is its own, and HAProxy has it as its flag from the moment
\* the script of the call has reloaded it, and not before.
EffectInv(c) ==
  /\ cpc[c] # "idle" => call[c] \in 1 .. calls
  /\ cpc[c] \notin {"idle", "wait", "start"} => running.flag # call[c]
  /\ cpc[c] = "start" => running.flag = call[c]
  /\ cpc[c] = "wait" /\ child[c] = "exited" => running.flag = call[c]
  /\ \A d \in Callers : d # c /\ cpc[c] # "idle" /\ cpc[d] # "idle" => call[d] # call[c]

AtomicInv ==
  /\ FilesInv
  /\ running.flag <= calls
  /\ \A c \in Callers : EffectInv(c)

LEMMA AtomicInvInit == ConfigurerInit => AtomicInv
BY FilesInvInit DEF ConfigurerInit, AtomicInv, EffectInv

LEMMA AtomicInvStep ==
  AtomicInv /\ [ConfigurerNext]_configurerVars => AtomicInv'
<1> SUFFICES ASSUME AtomicInv, [ConfigurerNext]_configurerVars
             PROVE  AtomicInv'
  OBVIOUS
<1>0. FilesInv'
  BY FilesInvStep DEF AtomicInv
<1> SUFFICES (running.flag <= calls)' /\ \A c \in Callers : EffectInv(c)'
  BY <1>0 DEF AtomicInv
<1> USE ConfigurerAssumption
    DEF AtomicInv, FilesInv, ConfigurerTypeOK, EffectInv, InLock, files, counters,
        Goto, Return, ConfigurerAssumption
<1> DEFINE Kept == (running.flag <= calls)' /\ \A c \in Callers : EffectInv(c)'
<1>1. ASSUME NEW c \in Callers, CallConfigure(c) PROVE Kept
  BY <1>1 DEF CallConfigure
<1>2. ASSUME NEW c \in Callers, Lock(c) PROVE Kept
  BY <1>2 DEF Lock
<1>3. ASSUME NEW c \in Callers, BackupCreate(c) PROVE Kept
  BY <1>3 DEF BackupCreate
<1>4. ASSUME NEW c \in Callers, BackupWrite(c) PROVE Kept
  BY <1>4 DEF BackupWrite
<1>5. ASSUME NEW c \in Callers, MarshalConfig(c) PROVE Kept
  BY <1>5 DEF MarshalConfig
<1>6. ASSUME NEW c \in Callers, TmpCreate(c) PROVE Kept
  BY <1>6 DEF TmpCreate
<1>7. ASSUME NEW c \in Callers, TmpWrite(c) PROVE Kept
  BY <1>7 DEF TmpWrite
<1>8. ASSUME NEW c \in Callers, Rename(c) PROVE Kept
  BY <1>8 DEF Rename
<1>9. ASSUME NEW c \in Callers, FileError(c) PROVE Kept
  BY <1>9 DEF FileError
<1>10. ASSUME NEW c \in Callers, ScriptStart(c) PROVE Kept
  BY <1>10 DEF ScriptStart
<1>11. ASSUME NEW c \in Callers, ScriptReloads(c) PROVE Kept
  BY <1>11 DEF ScriptReloads
<1>12. ASSUME NEW c \in Callers, ScriptFails(c) PROVE Kept
  BY <1>12 DEF ScriptFails
<1>13. ASSUME NEW c \in Callers, ScriptOk(c) PROVE Kept
  BY <1>13 DEF ScriptOk
<1>14. ASSUME NEW c \in Callers, ScriptError(c) PROVE Kept
  BY <1>14 DEF ScriptError
<1>15. ASSUME NEW c \in Callers, StartWatching(c) PROVE Kept
  BY <1>15 DEF StartWatching
<1>16. CASE ReapChild
  BY <1>16 DEF ReapChild
<1>17. CASE Crash
  BY <1>17 DEF Crash
<1>18. CASE UNCHANGED configurerVars
  BY <1>18 DEF configurerVars
<1> QED
  BY <1>1, <1>2, <1>3, <1>4, <1>5, <1>6, <1>7, <1>8, <1>9, <1>10, <1>11, <1>12,
     <1>13, <1>14, <1>15, <1>16, <1>17, <1>18
  DEF ConfigurerNext, Configure

\* A step that leaves alone who is in which call, HAProxy and the last result is
\* a stuttering step of AtomicConfigure.
LEMMA Stutters ==
  ASSUME \A c \in Callers : cpc'[c] = "idle" <=> cpc[c] = "idle",
         UNCHANGED <<calls, call, running, failed>>
  PROVE  UNCHANGED Atomic!atomicVars
BY DEF Atomic!atomicVars

\* Which steps of Configure are the ones that its callers can tell apart.
LEMMA ImplementsStep ==
  AtomicInv /\ [ConfigurerNext]_configurerVars => [Atomic!AtomicNext]_(Atomic!atomicVars)
<1> SUFFICES ASSUME AtomicInv, [ConfigurerNext]_configurerVars
             PROVE  Atomic!AtomicNext \/ UNCHANGED Atomic!atomicVars
  OBVIOUS
<1> USE ConfigurerAssumption DEF AtomicInv, FilesInv, ConfigurerTypeOK, ConfigurerAssumption
<1> DEFINE pend == [d \in Callers |-> IF cpc[d] = "idle" THEN 0 ELSE call[d]]
           appl == [d \in Callers |-> cpc[d] # "idle" /\ running.flag = call[d]]
<1>1. ASSUME NEW c \in Callers, CallConfigure(c) PROVE Atomic!Call(c)
  <2>1. /\ cpc[c] = "idle" /\ cpc' = [cpc EXCEPT ![c] = "lock"]
        /\ call' = [call EXCEPT ![c] = calls + 1] /\ calls' = calls + 1
        /\ UNCHANGED <<running, failed>>
    BY <1>1 DEF CallConfigure, Goto
  <2>2. pend[c] = 0 /\ pend' = [pend EXCEPT ![c] = calls']
    BY <2>1
  <2>3. running.flag # call'[c]
    BY <2>1
  <2>4. \A d \in Callers : appl'[d] = appl[d]
    BY <2>1, <2>3, Zenon
  <2>5. appl' = appl
    BY <2>4, Zenon
  <2> QED
    BY <2>1, <2>2, <2>5 DEF Atomic!Call
<1>2. ASSUME NEW c \in Callers, ScriptReloads(c) PROVE Atomic!Apply(c)
  <2>1. /\ cpc[c] = "scriptRuns" /\ cpc' = [cpc EXCEPT ![c] = "wait"]
        /\ running' = [content |-> call[c], flag |-> call[c]]
        /\ UNCHANGED <<calls, call, failed>>
    BY <1>2 DEF ScriptReloads, Goto, CallerInv, counters
  <2>2. call[c] # 0 /\ running.flag # call[c]
    BY <2>1 DEF EffectInv
  <2>3. \A d \in Callers : d # c => cpc[d] \in {"idle", "lock"}
    BY <2>1 DEF InLock
  <2>4. \A d \in Callers : d # c /\ cpc[d] # "idle" =>
          running.flag # call[d] /\ running'.flag # call[d]
    BY <2>1, <2>3 DEF EffectInv
  <2>5. pend[c] = call[c] /\ pend[c] # 0 /\ ~appl[c] /\ pend' = pend
    BY <2>1, <2>2
  <2>6. running'.flag = call[c]
    BY <2>1
  <2>7. ASSUME NEW d \in Callers PROVE appl'[d] = [appl EXCEPT ![c] = TRUE][d]
    <3>1. CASE d = c
      BY <3>1, <2>1, <2>6, Zenon
    <3>2. CASE d # c
      BY <3>2, <2>1, <2>4, Zenon
    <3> QED
      BY <3>1, <3>2
  <2>8. appl' = [appl EXCEPT ![c] = TRUE]
    BY <2>7, Zenon
  <2> QED
    BY <2>1, <2>5, <2>8 DEF Atomic!Apply
<1>3. ASSUME NEW c \in Callers, FileError(c) \/ ScriptError(c) \/ StartWatching(c)
      PROVE  Atomic!Return(c)
  <2>1. /\ cpc[c] # "idle" /\ cpc' = [cpc EXCEPT ![c] = "idle"]
        /\ UNCHANGED <<call, running, calls>>
    BY <1>3 DEF FileError, ScriptError, StartWatching, Return, counters
  <2>2. failed' \in BOOLEAN /\ (~failed' => running.flag = call[c])
    BY <1>3 DEF FileError, ScriptError, StartWatching, Return, EffectInv
  <2>3. call[c] # 0
    BY <2>1 DEF EffectInv
  <2>4. pend' = [pend EXCEPT ![c] = 0]
    BY <2>1
  <2>5. appl' = [appl EXCEPT ![c] = FALSE]
    BY <2>1, Zenon
  <2>6. pend[c] # 0 /\ (~failed' => appl[c])
    BY <2>1, <2>2, <2>3
  <2> QED
    BY <2>1, <2>2, <2>4, <2>5, <2>6 DEF Atomic!Return
<1>4. ASSUME Crash PROVE Atomic!Restart
  <2>1. cpc' = [c \in Callers |-> "idle"] /\ failed' = FALSE /\ UNCHANGED <<calls, running>>
    BY <1>4 DEF Crash
  <2>2. \A c \in Callers : cpc'[c] = "idle"
    BY <2>1
  <2> QED
    BY <2>1, <2>2, Zenon DEF Atomic!Restart
<1>5. ASSUME NEW c \in Callers,
             \/ Lock(c) \/ BackupCreate(c) \/ BackupWrite(c) \/ MarshalConfig(c)
             \/ TmpCreate(c) \/ TmpWrite(c) \/ Rename(c)
             \/ ScriptStart(c) \/ ScriptFails(c) \/ ScriptOk(c)
      PROVE  UNCHANGED Atomic!atomicVars
  BY <1>5, Stutters
  DEF Lock, BackupCreate, BackupWrite, MarshalConfig, TmpCreate, TmpWrite, Rename,
      ScriptStart, ScriptFails, ScriptOk, Goto, counters
<1>6. CASE ReapChild \/ UNCHANGED configurerVars
  BY <1>6, Stutters DEF ReapChild, configurerVars, counters
<1> QED
  BY <1>1, <1>2, <1>3, <1>4, <1>5, <1>6 DEF ConfigurerNext, Configure, Atomic!AtomicNext

\* Configure of haproxy_configurer.go is atomic to its callers, for any number of
\* callers, calls and crashes: the detailed specification implements
\* AtomicConfigure.
THEOREM ConfigureImplementsAtomic == ConfigurerSpec => ConfigureIsAtomic
<1>1. ConfigurerInit => Atomic!AtomicInit
  BY DEF ConfigurerInit, Atomic!AtomicInit
<1> QED
  BY <1>1, AtomicInvInit, AtomicInvStep, ImplementsStep, PTL
  DEF ConfigurerSpec, ConfigureIsAtomic, Atomic!AtomicSpec
=============================================================================
