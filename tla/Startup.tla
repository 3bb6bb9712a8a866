------------------------------- MODULE Startup -------------------------------
(***************************************************************************)
(* What main() does before it starts the group of Lifecycle: it reads and   *)
(* checks the configuration file (config/config.go), the load balancer's    *)
(* files (configurer), its flags, the connection to UAA, and the reserved   *)
(* ports against those of the router groups (router_group_port_checker).    *)
(* Every step may end the process.                                          *)
(*                                                                         *)
(* A PEM file is the sequence of its parts: blocks, and text around them.   *)
(* Durations are in half seconds.                                           *)
(***************************************************************************)
EXTENDS Integers, Sequences

CONSTANTS
  Ports,      \* ports that may be reserved for system components
  Contents,   \* the PEM files there may be
  Durations   \* values of the flags defaultRouteExpiry and staleRouteCheckInterval

\* The kinds of parts: a headerless certificate, one with headers, one that does
\* not parse; the certificate's key, another key; text that is no PEM block.
Part == {"cert", "headers", "badCert", "key", "otherKey", "text"}

\* Router groups by the ranges of their reservable ports.
PortRange == {r \in Ports \X Ports : r[1] <= r[2]}

ASSUME PortsAssumption     == Ports \subseteq 0 .. 65535
ASSUME ContentsAssumption  == Contents \subseteq Seq(Part)
ASSUME DurationsAssumption == Durations \subseteq Int

NoFile == <<"no file">>   \* a path that is set and cannot be read
NoPath == <<"no path">>   \* a path that is not set

VARIABLES
  at,         \* the step main is at, or "started", "exited"
  cfg,        \* the configuration: drainWait, tls, reserved
  caPath, clientPath,   \* what is at the two paths of the backend TLS
  expiry, interval, defaultTTL,
  routingGroupCheckExit,
  tries,      \* failed attempts of the loop that getRouterGroups is in
  groups      \* the ranges of the router groups, as far as they parse

startupVars == <<at, cfg, caPath, clientPath, expiry, interval, defaultTTL,
                 routingGroupCheckExit, tries, groups>>

\* What the file may say.
Config == [drainWait : {-1, 5}, tls : BOOLEAN, reserved : SUBSET Ports]
DrainWaitDefault == 40

StartupInit ==
  /\ at = "config"
  /\ cfg = [drainWait |-> 0, tls |-> FALSE, reserved |-> {}]
  /\ caPath = NoPath /\ clientPath = NoPath
  /\ expiry = 240 /\ interval = 60 /\ defaultTTL = 0
  /\ routingGroupCheckExit \in BOOLEAN
  /\ tries = 0 /\ groups = {}

\* The step is over: main goes on or exits.
Goto(from, to) == at = from /\ at' = to
GoOnIf(ok, from, to) == Goto(from, IF ok THEN to ELSE "exited")

-----------------------------------------------------------------------------
(* config.New.                                                             *)

DrainWait(d) == IF d < 0 THEN DrainWaitDefault ELSE d

\* The file cannot be read or is no YAML, or it has no PID file.
ReadConfigError ==
  /\ Goto("config", "exited")
  /\ UNCHANGED <<cfg, caPath, clientPath, expiry, interval, defaultTTL,
                 routingGroupCheckExit, tries, groups>>

\* Without backend TLS both paths are dropped.
ReadConfig(c) ==
  /\ Goto("config", IF c.tls THEN "ca" ELSE "configurer")
  /\ cfg' = [c EXCEPT !.drainWait = DrainWait(@)]
  /\ UNCHANGED <<caPath, clientPath, expiry, interval, defaultTTL,
                 routingGroupCheckExit, tries, groups>>

\* pem.Decode: the first block, whatever text is before it, and what follows it.
Blocks(file) == {i \in DOMAIN file : file[i] # "text"}
Decode(file) ==
  LET first == CHOOSE i \in Blocks(file) : \A j \in Blocks(file) : i <= j
  IN  IF Blocks(file) = {} THEN [block |-> "nil", rest |-> file]
      ELSE [block |-> file[first], rest |-> SubSeq(file, first + 1, Len(file))]

\* An empty file is accepted, and of several blocks only the first is looked at.
CAAccepted(file) ==
  file \notin {NoFile, NoPath} /\ (file # <<>> => Decode(file).block = "cert")

\* What follows the key is not looked at.
ClientAcceptedWithTrailer(file) ==
  LET first  == Decode(file)
      second == Decode(first.rest)
  IN  \/ file = NoPath
      \/ /\ file # NoFile
         /\ first.block \in {"cert", "headers"} /\ second.block = "key"

\* tls.X509KeyPair: a certificate and its key.
ClientAccepted(file) ==
  LET first  == Decode(file)
      second == Decode(first.rest)
  IN  \/ file = NoPath
      \/ /\ file # NoFile
         /\ second.rest = <<>>
         /\ first.block \in {"cert", "headers"} /\ second.block = "key"

CheckCA(file) ==
  /\ GoOnIf(CAAccepted(file), "ca", "client")
  /\ caPath' = file
  /\ UNCHANGED <<cfg, clientPath, expiry, interval, defaultTTL,
                 routingGroupCheckExit, tries, groups>>

CheckClient(file) ==
  /\ GoOnIf(ClientAccepted(file), "client", "configurer")
  /\ clientPath' = file
  /\ UNCHANGED <<cfg, caPath, expiry, interval, defaultTTL,
                 routingGroupCheckExit, tries, groups>>

-----------------------------------------------------------------------------
(* The configurer, the flags, UAA and the routing API.                     *)

\* FileExists of the files that the configurer is given a path for.
FilesNeeded ==
  {"base", "config"} \cup (IF caPath = NoPath THEN {} ELSE {"ca"})
                     \cup (IF clientPath = NoPath THEN {} ELSE {"client"})

\* Another load balancer than HAProxy is not supported.  A file that config.New
\* has read a moment ago may be gone.
NewConfigurer ==
  /\ \E tcpLoadBalancer \in {"HAProxy", "other"}, missing \in SUBSET FilesNeeded :
       GoOnIf(tcpLoadBalancer = "HAProxy" /\ missing = {}, "configurer", "flags")
  /\ UNCHANGED <<cfg, caPath, clientPath, expiry, interval, defaultTTL,
                 routingGroupCheckExit, tries, groups>>

\* int() drops the fraction of a second, towards zero.
Seconds(d) == IF d < 0 THEN -((-d) \div 2) ELSE d \div 2

\* The interval is not compared with the expiry.
CheckExpiryOnly(e, i) ==
  /\ GoOnIf(e <= 2 * 65535, "flags", "fetcher")
  /\ expiry' = e /\ interval' = i
  /\ UNCHANGED <<cfg, caPath, clientPath, defaultTTL, routingGroupCheckExit, tries, groups>>

CheckFlags(e, i) ==
  /\ GoOnIf(e <= 2 * 65535 /\ i <= e, "flags", "fetcher")
  /\ expiry' = e /\ interval' = i
  /\ UNCHANGED <<cfg, caPath, clientPath, defaultTTL, routingGroupCheckExit, tries, groups>>

\* A buffer time above MaxInt64, or settings that the client refuses.
NewTokenFetcher ==
  /\ \E tooLarge, refused \in BOOLEAN : GoOnIf(~tooLarge /\ ~refused, "fetcher", "key")
  /\ UNCHANGED <<cfg, caPath, clientPath, expiry, interval, defaultTTL,
                 routingGroupCheckExit, tries, groups>>

\* UAA cannot be reached, or the files of the client's TLS do not fit.
FetchKey ==
  /\ \E reached, filesFit \in BOOLEAN : GoOnIf(reached /\ filesFit, "key", "token")
  /\ UNCHANGED <<cfg, caPath, clientPath, expiry, interval, defaultTTL,
                 routingGroupCheckExit, tries, groups>>

-----------------------------------------------------------------------------
(* checkPorts: a token, then the router groups, three attempts each.  When  *)
(* they fail main logs it and goes on.                                      *)

numRetries == 3

FetchToken ==
  /\ Goto("token", "groups")
  /\ tries' = 0
  /\ UNCHANGED <<cfg, caPath, clientPath, expiry, interval, defaultTTL,
                 routingGroupCheckExit, groups>>

\* One attempt of a loop fails; after the last one the check gives up.
AttemptFails(loop) ==
  /\ Goto(loop, IF tries + 1 < numRetries THEN loop ELSE "tickers")
  /\ tries' = (tries + 1) % numRetries
  /\ UNCHANGED <<cfg, caPath, clientPath, expiry, interval, defaultTTL,
                 routingGroupCheckExit, groups>>

FetchTokenFails == AttemptFails("token")

\* A failed request is made again with a new token, which has its own attempts.
RouterGroupsAgain ==
  /\ Goto("groups", "token")
  /\ tries' = 0
  /\ UNCHANGED <<cfg, caPath, clientPath, expiry, interval, defaultTTL,
                 routingGroupCheckExit, groups>>

RouterGroupsFails == AttemptFails("groups")

\* The ends of a range are compared as if they were not in it.
ConflictInside(ranges, reserved) ==
  \E r \in ranges : \E port \in reserved : port > r[1] /\ port <= r[2]

validateRouterGroups(ranges, reserved) ==
  \E r \in ranges : \E port \in reserved : port >= r[1] /\ port <= r[2]

\* A group whose ports do not parse has no ranges.
RouterGroups(ranges) ==
  /\ GoOnIf(~(validateRouterGroups(ranges, cfg.reserved) /\ routingGroupCheckExit),
            "groups", "tickers")
  /\ groups' = ranges
  /\ UNCHANGED <<cfg, caPath, clientPath, expiry, interval, defaultTTL,
                 routingGroupCheckExit, tries>>

\* NewUpdater and the ticker of the pruner, which panics unless its interval is
\* positive; then the group is started.
StartGroup ==
  /\ GoOnIf(interval > 0, "tickers", "started")
  /\ defaultTTL' = Seconds(expiry)
  /\ UNCHANGED <<cfg, caPath, clientPath, expiry, interval, routingGroupCheckExit,
                 tries, groups>>

-----------------------------------------------------------------------------
StartupNext ==
  \/ ReadConfigError \/ \E c \in Config : ReadConfig(c)
  \/ \E file \in Contents \cup {NoFile, NoPath} : CheckCA(file) \/ CheckClient(file)
  \/ NewConfigurer
  \/ \E e, i \in Durations : CheckFlags(e, i)
  \/ NewTokenFetcher \/ FetchKey
  \/ FetchToken \/ FetchTokenFails \/ RouterGroupsFails
  \/ \E ranges \in SUBSET PortRange : RouterGroups(ranges)
  \/ StartGroup

\* main runs; no call of UAA and the routing API blocks for ever.
StartupSpec == StartupInit /\ [][StartupNext]_startupVars /\ WF_startupVars(StartupNext)

-----------------------------------------------------------------------------
(* Properties.                                                             *)

\* The updater is given a default TTL that is a number of seconds a route's own
\* TTL (16 bits) may be, whatever the two flags, and a drain wait of no less
\* than nothing: three checks in different places have to work together.  The sync and
\* statistics intervals are checked nowhere and not part of it.
SettingsInRange ==
  at = "started" =>
    /\ defaultTTL \in 0 .. 65535 /\ 2 * defaultTTL <= expiry
    /\ interval <= expiry
    /\ cfg.drainWait >= 0

\* The file of the client is accepted only when its blocks are a certificate and
\* its key and the key is its end, whatever text is before and between them;
\* there is a CA file when backend TLS is on, and none of the two when it is off.
BackendTLSChecked ==
  LET pair(file) == \E i, j \in DOMAIN file :
                      /\ i < j /\ {k \in DOMAIN file : file[k] # "text"} = {i, j}
                      /\ file[i] \in {"cert", "headers"} /\ file[j] = "key"
                      /\ j = Len(file)
  IN  at \notin {"config", "ca", "client", "exited"} =>
        /\ cfg.tls <=> caPath # NoPath
        /\ ~cfg.tls => clientPath = NoPath
        /\ clientPath = NoPath \/ pair(clientPath)

\* With routingGroupCheckExit the router starts only when no router group that
\* it could read has a port of a system component.
NoReservedPortRouted ==
  at = "started" /\ routingGroupCheckExit =>
    \A r \in groups : (r[1] .. r[2]) \cap cfg.reserved = {}

\* Whatever fails, main starts the group or exits: its retries come to an end.
StartupEnds == <>(at \in {"started", "exited"})
=============================================================================
