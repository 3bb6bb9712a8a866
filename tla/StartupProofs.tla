---------------------------- MODULE StartupProofs ----------------------------
(***************************************************************************)
(* Proofs about Startup, for all ports, files and values of the flags.     *)
(***************************************************************************)
EXTENDS Startup, SequenceTheorems, WellFoundedInduction, TLAPS

\* The steps that main is at once the flags have been checked.
AfterFlags == {"fetcher", "key", "token", "groups", "tickers", "started"}

\* What the checks passed so far have established.  The drain wait and the flags
\* are each corrected or refused in one place and used in another.
SettingsInv ==
  /\ expiry \in Int /\ interval \in Int
  /\ cfg.drainWait \in Int /\ cfg.drainWait >= 0
  /\ at \in AfterFlags => expiry <= 2 * 65535 /\ interval <= expiry
  /\ at = "started" => interval > 0 /\ defaultTTL = Seconds(expiry)

\* Only the last attempt's ranges are kept, and with the exit flag only when they
\* are free of reserved ports; before it there are none.
GroupsInv ==
  /\ groups \subseteq PortRange
  /\ at \notin {"tickers", "started", "exited"} => groups = {}
  /\ at # "exited" /\ routingGroupCheckExit => ~validateRouterGroups(groups, cfg.reserved)

LEMMA SettingsInvInit == StartupInit => SettingsInv
BY DEF StartupInit, SettingsInv, AfterFlags

LEMMA SettingsInvStep == SettingsInv /\ [StartupNext]_startupVars => SettingsInv'
<1> SUFFICES ASSUME SettingsInv, [StartupNext]_startupVars
             PROVE  SettingsInv'
  OBVIOUS
<1> USE DEF SettingsInv, AfterFlags, Goto, GoOnIf
<1>1. ASSUME ReadConfigError PROVE SettingsInv'
  BY <1>1 DEF ReadConfigError
<1>2. ASSUME NEW c \in Config, ReadConfig(c) PROVE SettingsInv'
  <2>1. cfg'.drainWait = DrainWait(c.drainWait)
    <3>1. c = [drainWait |-> c.drainWait, tls |-> c.tls, reserved |-> c.reserved]
      BY DEF Config
    <3>2. cfg' = [drainWait |-> DrainWait(c.drainWait), tls |-> c.tls, reserved |-> c.reserved]
      BY <1>2, <3>1 DEF ReadConfig
    <3> QED
      BY <3>2
  <2>2. DrainWait(c.drainWait) \in Int /\ DrainWait(c.drainWait) >= 0
    BY c.drainWait \in {-1, 5} DEF Config, DrainWait, DrainWaitDefault
  <2> QED
    BY <1>2, <2>1, <2>2 DEF ReadConfig
<1>3. ASSUME NEW file, CheckCA(file) PROVE SettingsInv'
  BY <1>3 DEF CheckCA
<1>4. ASSUME NEW file, CheckClient(file) PROVE SettingsInv'
  BY <1>4 DEF CheckClient
<1>5. ASSUME NewConfigurer PROVE SettingsInv'
  BY <1>5 DEF NewConfigurer
<1>6. ASSUME NEW e \in Durations, NEW i \in Durations, CheckFlags(e, i) PROVE SettingsInv'
  <2>1. e \in Int /\ i \in Int
    BY DurationsAssumption DEF DurationsAssumption
  <2> QED
    BY <1>6, <2>1 DEF CheckFlags
<1>7. ASSUME NewTokenFetcher PROVE SettingsInv'
  BY <1>7 DEF NewTokenFetcher
<1>8. ASSUME FetchKey PROVE SettingsInv'
  BY <1>8 DEF FetchKey
<1>9. ASSUME FetchToken PROVE SettingsInv'
  BY <1>9 DEF FetchToken
<1>10. ASSUME FetchTokenFails PROVE SettingsInv'
  BY <1>10 DEF FetchTokenFails, AttemptFails
<1>11. ASSUME RouterGroupsFails PROVE SettingsInv'
  BY <1>11 DEF RouterGroupsFails, AttemptFails
<1>12. ASSUME NEW ranges \in SUBSET PortRange, RouterGroups(ranges) PROVE SettingsInv'
  BY <1>12 DEF RouterGroups
<1>13. ASSUME StartGroup PROVE SettingsInv'
  BY <1>13 DEF StartGroup
<1>14. ASSUME UNCHANGED startupVars PROVE SettingsInv'
  BY <1>14 DEF startupVars
<1> HIDE DEF SettingsInv
<1> QED
  BY <1>1, <1>2, <1>3, <1>4, <1>5, <1>6, <1>7, <1>8, <1>9, <1>10, <1>11, <1>12, <1>13, <1>14
  DEF StartupNext

LEMMA SettingsInvSuffices == SettingsInv => SettingsInRange
<1> SUFFICES ASSUME SettingsInv PROVE SettingsInRange
  OBVIOUS
<1>1. CASE at # "started"
  BY <1>1 DEF SettingsInRange
<1>2. CASE at = "started"
  <2>1. expiry \in Int /\ interval \in Int /\ cfg.drainWait \in Int
    BY DEF SettingsInv
  <2>2. 0 < interval /\ interval <= expiry /\ expiry <= 2 * 65535 /\ cfg.drainWait >= 0
    BY <1>2 DEF SettingsInv, AfterFlags
  <2>3. defaultTTL = expiry \div 2
    BY <1>2, <2>1, <2>2 DEF SettingsInv, Seconds
  <2> QED
    BY <2>1, <2>2, <2>3 DEF SettingsInRange
<1> QED
  BY <1>1, <1>2

\* Whatever the flags, a router that starts has a default TTL that fits a route's
\* 16 bits, an interval of the pruner within it and a drain wait: the checks of
\* config.go:80 and main.go:194 and 199 together, with the truncation of main.go:248.
THEOREM SettingsAreInRange == StartupSpec => []SettingsInRange
<1>1. SettingsInv /\ [StartupNext]_startupVars => SettingsInv'
  BY SettingsInvStep
<1> QED
  BY <1>1, SettingsInvInit, SettingsInvSuffices, PTL DEF StartupSpec

-----------------------------------------------------------------------------
LEMMA GroupsInvInit == StartupInit => GroupsInv
BY DEF StartupInit, GroupsInv, validateRouterGroups

LEMMA GroupsInvStep == GroupsInv /\ [StartupNext]_startupVars => GroupsInv'
<1> SUFFICES ASSUME GroupsInv, [StartupNext]_startupVars
             PROVE  GroupsInv'
  OBVIOUS
<1> USE DEF GroupsInv, Goto, GoOnIf
<1>1. ASSUME ReadConfigError PROVE GroupsInv'
  BY <1>1 DEF ReadConfigError
<1>2. ASSUME NEW c \in Config, ReadConfig(c) PROVE GroupsInv'
  BY <1>2 DEF ReadConfig, validateRouterGroups
<1>3. ASSUME NEW file, CheckCA(file) PROVE GroupsInv'
  BY <1>3 DEF CheckCA
<1>4. ASSUME NEW file, CheckClient(file) PROVE GroupsInv'
  BY <1>4 DEF CheckClient
<1>5. ASSUME NewConfigurer PROVE GroupsInv'
  BY <1>5 DEF NewConfigurer
<1>6. ASSUME NEW e \in Durations, NEW i \in Durations, CheckFlags(e, i) PROVE GroupsInv'
  BY <1>6 DEF CheckFlags
<1>7. ASSUME NewTokenFetcher PROVE GroupsInv'
  BY <1>7 DEF NewTokenFetcher
<1>8. ASSUME FetchKey PROVE GroupsInv'
  BY <1>8 DEF FetchKey
<1>9. ASSUME FetchToken PROVE GroupsInv'
  BY <1>9 DEF FetchToken
<1>10. ASSUME FetchTokenFails PROVE GroupsInv'
  BY <1>10 DEF FetchTokenFails, AttemptFails
<1>11. ASSUME RouterGroupsFails PROVE GroupsInv'
  BY <1>11 DEF RouterGroupsFails, AttemptFails
<1>12. ASSUME NEW ranges \in SUBSET PortRange, RouterGroups(ranges) PROVE GroupsInv'
  BY <1>12 DEF RouterGroups
<1>13. ASSUME StartGroup PROVE GroupsInv'
  BY <1>13 DEF StartGroup
<1>14. ASSUME UNCHANGED startupVars PROVE GroupsInv'
  BY <1>14 DEF startupVars
<1> HIDE DEF GroupsInv
<1> QED
  BY <1>1, <1>2, <1>3, <1>4, <1>5, <1>6, <1>7, <1>8, <1>9, <1>10, <1>11, <1>12, <1>13, <1>14
  DEF StartupNext

LEMMA GroupsInvSuffices == GroupsInv => NoReservedPortRouted
<1> SUFFICES ASSUME GroupsInv, at = "started", routingGroupCheckExit,
                    NEW r \in groups
             PROVE  (r[1] .. r[2]) \cap cfg.reserved = {}
  BY DEF NoReservedPortRouted
<1>1. \A port \in cfg.reserved : ~(port >= r[1] /\ port <= r[2])
  BY DEF GroupsInv, validateRouterGroups
<1> QED
  BY <1>1

\* With routingGroupCheckExit no router starts that has read a router group with a
\* reserved port in its range, whatever attempts failed before (checkPorts).
THEOREM ReservedPortsAreFree == StartupSpec => []NoReservedPortRouted
<1>1. GroupsInv /\ [StartupNext]_startupVars => GroupsInv'
  BY GroupsInvStep
<1> QED
  BY <1>1, GroupsInvInit, GroupsInvSuffices, PTL DEF StartupSpec

-----------------------------------------------------------------------------
(* The files of the backend TLS.                                           *)

\* A set of numbers that is not empty has a least element.
LEMMA LeastNumber ==
  ASSUME NEW T \in SUBSET Nat, T # {}
  PROVE  \E i \in T : \A j \in T : i <= j
<1>1. PICK i \in T : \A j \in T : <<j, i>> \notin OpToRel(<, Nat)
  BY NatLessThanWellFounded, WFMin
<1>2. ASSUME NEW j \in T PROVE i <= j
  <2>1. <<j, i>> \in Nat \X Nat /\ ~(j < i)
    BY <1>1 DEF OpToRel
  <2> QED
    BY <2>1
<1> QED
  BY <1>2

\* pem.Decode returns the first block and all that follows it, or no block.
LEMMA DecodeFirst ==
  ASSUME NEW file \in Seq(Part), Decode(file).block # "nil"
  PROVE  LET rest == Decode(file).rest
         IN  \E i \in 1 .. Len(file) :
               /\ Decode(file).block = file[i]
               /\ file[i] # "text" /\ \A j \in 1 .. (i - 1) : file[j] = "text"
               /\ rest \in Seq(Part) /\ Len(rest) = Len(file) - i
               /\ \A k \in 1 .. Len(rest) : rest[k] = file[i + k]
<1>1. Len(file) \in Nat /\ \A k \in 1 .. Len(file) : file[k] \in Part
  BY LenProperties, ElementOfSeq
<1>d. DOMAIN file = 1 .. Len(file)
  BY LenProperties
<1>2. Blocks(file) # {}
  BY DEF Decode
<1> DEFINE first == CHOOSE i \in Blocks(file) : \A j \in Blocks(file) : i <= j
           rest  == SubSeq(file, first + 1, Len(file))
<1>3. first \in Blocks(file) /\ \A j \in Blocks(file) : first <= j
  <2>1. Blocks(file) \in SUBSET Nat
    BY <1>1, <1>d DEF Blocks
  <2>2. \E i \in Blocks(file) : \A j \in Blocks(file) : i <= j
    BY <1>2, <2>1, LeastNumber
  <2> QED
    BY <2>2
<1>4. Decode(file) = [block |-> file[first], rest |-> rest]
  BY <1>2 DEF Decode
<1> HIDE DEF first
<1>5. first \in 1 .. Len(file) /\ file[first] # "text"
  BY <1>1, <1>3, <1>d DEF Blocks
<1>6. ASSUME NEW j \in 1 .. (first - 1) PROVE file[j] = "text"
  <2>1. j \in 1 .. Len(file) /\ ~(first <= j)
    BY <1>1, <1>5
  <2> QED
    BY <1>3, <1>d, <2>1 DEF Blocks
<1>7. /\ rest \in Seq(Part)
      /\ Len(rest) = IF first + 1 <= Len(file) THEN Len(file) - (first + 1) + 1 ELSE 0
      /\ \A k \in 1 .. (Len(file) - (first + 1) + 1) : rest[k] = file[(first + 1) + k - 1]
  <2>1. first + 1 \in Int /\ Len(file) \in Int
    BY <1>1, <1>5
  <2>2. \A k \in (first + 1) .. Len(file) : file[k] \in Part
    BY <1>1, <1>5
  <2> QED
    BY <2>1, <2>2, SubSeqProperties
<1> HIDE DEF rest
<1>8. Len(rest) = Len(file) - first /\ \A k \in 1 .. Len(rest) : rest[k] = file[first + k]
  <2>1. Len(rest) = Len(file) - first
    BY <1>1, <1>5, <1>7
  <2>2. ASSUME NEW k \in 1 .. Len(rest) PROVE rest[k] = file[first + k]
    <3>1. /\ k \in 1 .. (Len(file) - (first + 1) + 1)
          /\ (first + 1) + k - 1 = first + k
      BY <1>1, <1>5, <2>1
    <3> QED
      BY <1>7, <3>1
  <2> QED
    BY <2>1, <2>2
<1>9. Decode(file).block = file[first] /\ Decode(file).rest = rest
  BY <1>4
<1> QED
  BY <1>5, <1>6, <1>7, <1>8, <1>9

\* The blocks of the file are a certificate and its key, and the key is its end.
Pair(file) ==
  \E i, j \in DOMAIN file :
    /\ i < j /\ {k \in DOMAIN file : file[k] # "text"} = {i, j}
    /\ file[i] \in {"cert", "headers"} /\ file[j] = "key"
    /\ j = Len(file)

LEMMA AcceptedIsPair ==
  ASSUME NEW file \in Seq(Part), ClientAccepted(file), file # NoPath
  PROVE  Pair(file)
<1> DEFINE rest  == Decode(file).rest
           block == Decode(rest).block
           end   == Decode(rest).rest
<1>1. end = <<>> /\ block = "key" /\ Decode(file).block \in {"cert", "headers"}
  BY DEF ClientAccepted
<1>2. PICK i \in 1 .. Len(file) :
        /\ Decode(file).block = file[i]
        /\ file[i] # "text" /\ \A j \in 1 .. (i - 1) : file[j] = "text"
        /\ rest \in Seq(Part) /\ Len(rest) = Len(file) - i
        /\ \A k \in 1 .. Len(rest) : rest[k] = file[i + k]
  BY <1>1, DecodeFirst
<1>3. PICK m \in 1 .. Len(rest) :
        /\ block = rest[m]
        /\ rest[m] # "text" /\ \A j \in 1 .. (m - 1) : rest[j] = "text"
        /\ Len(end) = Len(rest) - m
  BY <1>1, <1>2, DecodeFirst
<1>4. Len(file) \in Nat /\ Len(rest) \in Nat
  BY <1>2, LenProperties
<1>d. DOMAIN file = 1 .. Len(file)
  BY LenProperties
<1> HIDE DEF rest, block, end
<1>5. Len(rest) = m
  BY <1>1, <1>3, <1>4
<1>6. i < Len(file) /\ file[Len(file)] = "key" /\ file[i] \in {"cert", "headers"}
  <2>0. Len(rest) = Len(file) - i
    BY <1>2
  <2>1. i < Len(file) /\ i + m = Len(file) /\ m \in 1 .. Len(rest)
    BY <1>4, <1>5, <2>0
  <2>2. file[i + m] = "key"
    BY <1>1, <1>2, <1>3, <2>1
  <2> QED
    BY <1>1, <1>2, <2>1, <2>2
<1>7. ASSUME NEW k \in 1 .. Len(file), file[k] # "text" PROVE k = i \/ k = Len(file)
  <2>1. CASE k < i
    BY <1>2, <1>4, <1>7, <2>1
  <2>2. CASE i < k /\ k < Len(file)
    <3>1. k - i \in 1 .. (m - 1) /\ k - i \in 1 .. Len(rest) /\ i + (k - i) = k
      BY <1>2, <1>4, <1>5, <2>2
    <3> QED
      BY <1>2, <1>3, <1>7, <3>1
  <2>3. k < i \/ (i < k /\ k < Len(file)) \/ k = i \/ k = Len(file)
    BY <1>4
  <2> QED
    BY <2>1, <2>2, <2>3
<1>8. {k \in DOMAIN file : file[k] # "text"} = {i, Len(file)}
  BY <1>2, <1>d, <1>4, <1>6, <1>7
<1> QED
  BY <1>d, <1>4, <1>6, <1>8 DEF Pair

\* The paths are set in the order of main's steps, and each is checked before main
\* goes on.
BackendTLSInv ==
  /\ at \in {"config", "ca"} => caPath = NoPath
  /\ at \in {"config", "ca", "client"} => clientPath = NoPath
  /\ at \in {"ca", "client"} => cfg.tls
  /\ at \notin {"config", "ca", "exited"} => (cfg.tls <=> caPath # NoPath)
  /\ at # "exited" => clientPath = NoPath \/ (cfg.tls /\ Pair(clientPath))

LEMMA BackendTLSInvStep == BackendTLSInv /\ [StartupNext]_startupVars => BackendTLSInv'
<1> SUFFICES ASSUME BackendTLSInv, [StartupNext]_startupVars PROVE BackendTLSInv'
  OBVIOUS
<1>1. ASSUME NEW c \in Config, ReadConfig(c) PROVE BackendTLSInv'
  <2>1. cfg'.tls = c.tls
    BY <1>1 DEF ReadConfig, Config
  <2>2. /\ at = "config" /\ at' = IF c.tls THEN "ca" ELSE "configurer"
        /\ UNCHANGED <<caPath, clientPath>>
    BY <1>1 DEF ReadConfig, Goto
  <2> QED
    BY <2>1, <2>2 DEF BackendTLSInv
<1>2. ASSUME NEW file, CheckCA(file) PROVE BackendTLSInv'
  BY <1>2 DEF CheckCA, GoOnIf, Goto, CAAccepted, BackendTLSInv
<1>3. ASSUME NEW file \in Contents \cup {NoFile, NoPath}, CheckClient(file)
      PROVE  BackendTLSInv'
  <2>1. /\ at = "client" /\ at' = IF ClientAccepted(file) THEN "configurer" ELSE "exited"
        /\ clientPath' = file /\ UNCHANGED <<cfg, caPath>>
    BY <1>3 DEF CheckClient, GoOnIf, Goto
  <2>2. CASE ClientAccepted(file)
    <3>1. file = NoPath \/ file \in Contents
      BY <2>2 DEF ClientAccepted
    <3>2. file = NoPath \/ Pair(file)
      BY <2>2, <3>1, ContentsAssumption, AcceptedIsPair DEF ContentsAssumption
    <3>3. Pair(file) => Pair(clientPath)'
      BY <2>1 DEF Pair
    <3> QED
      BY <2>1, <2>2, <3>2, <3>3 DEF BackendTLSInv
  <2>3. CASE ~ClientAccepted(file)
    BY <2>1, <2>3 DEF BackendTLSInv
  <2> QED
    BY <2>2, <2>3
<1>4. ASSUME \/ ReadConfigError \/ NewConfigurer \/ \E e, i \in Durations : CheckFlags(e, i)
             \/ NewTokenFetcher \/ FetchKey \/ FetchToken \/ FetchTokenFails
             \/ RouterGroupsFails \/ (\E ranges \in SUBSET PortRange : RouterGroups(ranges))
             \/ StartGroup \/ UNCHANGED startupVars
      PROVE  BackendTLSInv'
  <2>1. /\ UNCHANGED <<cfg, caPath, clientPath>>
        /\ at' = "exited" \/ at' = at \/ {at, at'} \cap {"config", "ca", "client"} = {}
    BY <1>4 DEF ReadConfigError, NewConfigurer, CheckFlags, NewTokenFetcher, FetchKey,
                FetchToken, FetchTokenFails, RouterGroupsFails, AttemptFails, RouterGroups,
                StartGroup, startupVars, GoOnIf, Goto
  <2>2. Pair(clientPath)' <=> Pair(clientPath)
    BY <2>1 DEF Pair
  <2>3. at' = "exited" \/ at' = at \/ at \notin {"config", "ca", "client", "exited"}
    BY <1>4, <2>1 DEF ReadConfigError, NewConfigurer, CheckFlags, NewTokenFetcher, FetchKey,
                FetchToken, FetchTokenFails, RouterGroupsFails, AttemptFails, RouterGroups,
                StartGroup, startupVars, GoOnIf, Goto
  <2> QED
    BY <2>1, <2>2, <2>3 DEF BackendTLSInv
<1> QED
  BY <1>1, <1>2, <1>3, <1>4 DEF StartupNext

\* A router that gets past the checks of config.New has a CA file exactly when
\* backend TLS is on, and of the client no file or one whose blocks are a certificate
\* and its key with nothing behind them, whatever the files (config.go).
THEOREM BackendTLSIsChecked == StartupSpec => []BackendTLSChecked
<1>1. StartupInit => BackendTLSInv
  BY DEF StartupInit, BackendTLSInv
<1>2. BackendTLSInv => BackendTLSChecked
  BY DEF BackendTLSInv, BackendTLSChecked, Pair
<1> QED
  BY <1>1, <1>2, BackendTLSInvStep, PTL DEF StartupSpec
=============================================================================
