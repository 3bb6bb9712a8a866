--------------------------- MODULE HAProxyConfig ---------------------------
(***************************************************************************)
(* What Configure writes for a routing table: NewHAProxyConfig of           *)
(* models/haproxy_config.go, which visits the keys and the backends in      *)
(* whatever order Go iterates over a map, and Marshal of                    *)
(* configurer/haproxy/config_marshaller.go.                                 *)
(*                                                                         *)
(* A name (SNI hostname, address, instance id) is a number, its place in    *)
(* the order of strings; 0 is the empty string.  A line of the file is a    *)
(* record of what HAProxy reads in it.                                      *)
(***************************************************************************)
EXTENDS Integers, FiniteSets, Sequences, Functions

CONSTANTS
  Keys,         \* routing keys
  Backends,     \* backend server keys
  ValidNames,   \* the names isValidDNSName accepts
  MaxKeys,      \* bound: keys of the table
  MaxBackends   \* bound: backends of a key

ASSUME KeysAssumption == Keys \subseteq [port : Nat, sniHostname : Nat]
ASSUME BackendsAssumption ==
  Backends \subseteq [address : Nat, port : Nat, tlsPort : Int, instanceID : Nat]
ASSUME NamesAssumption == ValidNames \subseteq Nat \ {0}
ASSUME BoundsAssumption == MaxKeys \in Nat /\ MaxBackends \in Nat

VARIABLES
  backendTls, \* backend_tls.enabled of the configuration
  entries,    \* the routing table: the backends of each of its keys
  unvisited,  \* keys NewHAProxyConfig has not come to
  conf,       \* the HAProxyConfig: port to frontend, hostname to servers
  marshalled, \* ports Marshal has written
  output      \* what it has written: of each port its frontend and its backends

configVars == <<backendTls, entries, unvisited, conf, marshalled, output>>

Empty == 0

Entry == {s \in SUBSET Backends : IsFiniteSet(s) /\ Cardinality(s) \in 1..MaxBackends}

ConfigInit ==
  /\ backendTls \in BOOLEAN
  /\ entries \in UNION {[ks -> Entry] :
                          ks \in {s \in SUBSET Keys : IsFiniteSet(s) /\ Cardinality(s) <= MaxKeys}}
  /\ unvisited = DOMAIN entries
  /\ conf = <<>>
  /\ marshalled = {}
  /\ output = <<>>

-----------------------------------------------------------------------------
(* NewHAProxyConfig.                                                       *)

ValidKey(k) == k.port # 0 /\ (k.sniHostname # Empty => k.sniHostname \in ValidNames)

ValidBackend(b) ==
  /\ b.port # 0 \/ b.tlsPort > 0
  /\ b.address \in ValidNames
  /\ b.tlsPort > 0 => b.instanceID # Empty

Usable(backends) == {b \in backends : ValidBackend(b)}

Less(b, c) == IF b.address = c.address THEN b.port < c.port ELSE b.address < c.address

\* The servers are left in the order of the iteration.
InAnyOrder(s) == TRUE

Sorted(s) == \A i, j \in DOMAIN s : i < j => ~Less(s[j], s[i])

\* What the backends of a key may become: they are met in any order, and the
\* sort leaves those that it does not tell apart in that order.
Servers(backends) ==
  {s \in Bijection(1 .. Cardinality(Usable(backends)), Usable(backends)) : Sorted(s)}

SetTo(map, key, x) == [k \in DOMAIN map \cup {key} |-> IF k = key THEN x ELSE map[k]]

\* The frontend of a port starts anew with each of its keys.
SetFrontendAnew(k, servers) == conf' = SetTo(conf, k.port, SetTo(<<>>, k.sniHostname, servers))

SetFrontend(k, servers) ==
  LET frontend == IF k.port \in DOMAIN conf THEN conf[k.port] ELSE <<>>
  IN  conf' = SetTo(conf, k.port, SetTo(frontend, k.sniHostname, servers))

VisitKey(k) ==
  /\ unvisited' = unvisited \ {k}
  /\ IF ValidKey(k) /\ Usable(entries[k]) # {}
       THEN \E servers \in Servers(entries[k]) : SetFrontend(k, servers)
       ELSE UNCHANGED conf
  /\ UNCHANGED <<backendTls, entries, marshalled, output>>

-----------------------------------------------------------------------------
(* Marshal.                                                                *)

ContainsSNIRoutes(frontend) == \E h \in DOMAIN frontend : h # Empty

\* The server line of a backend: TLS goes to its TLS port.
ServerLine(b) ==
  IF b.tlsPort > 0
    THEN [address |-> b.address, port |-> b.tlsPort, verifyhost |-> b.instanceID]
    ELSE [address |-> b.address, port |-> b.port, verifyhost |-> Empty]

\* Servers with a TLS port are skipped while backend TLS is off.
Written(b, tls) == b.tlsPort > 0 => tls

\* The name of a backend stanza is its port and hostname; each server adds its
\* line or none.
marshalHAProxyBackend(name, servers, tls) ==
  [name |-> name,
   servers |-> [i \in DOMAIN servers |->
                  {ServerLine(b) : b \in {c \in {servers[i]} : Written(c, tls)}}]]

sortedSniHostnames(frontend) ==
  CHOOSE s \in Bijection(1 .. Cardinality(DOMAIN frontend), DOMAIN frontend) :
    \A i, j \in DOMAIN s : i < j => s[i] < s[j]

\* Its rules: use_backend for a hostname, default_backend for the empty one.
marshalHAProxyFrontend(port, frontend, tls) ==
  LET hosts == sortedSniHostnames(frontend)
  IN  [bind     |-> port,
       inspect  |-> ContainsSNIRoutes(frontend),
       rules    |-> [i \in DOMAIN hosts |-> [sni |-> hosts[i], backend |-> <<port, hosts[i]>>]],
       backends |-> [i \in DOMAIN hosts |->
                       marshalHAProxyBackend(<<port, hosts[i]>>, frontend[hosts[i]], tls)]]

\* The loop of Marshal, over the ports in ascending order.
Marshal(port) ==
  /\ unvisited = {}
  /\ port \in DOMAIN conf \ marshalled
  /\ \A p \in DOMAIN conf \ marshalled : port <= p
  /\ output' = Append(output, marshalHAProxyFrontend(port, conf[port], backendTls))
  /\ marshalled' = marshalled \cup {port}
  /\ UNCHANGED <<backendTls, entries, unvisited, conf>>

ConfigNext ==
  \/ \E k \in unvisited : VisitKey(k)
  \/ \E port \in DOMAIN conf : Marshal(port)

ConfigSpec == ConfigInit /\ [][ConfigNext]_configVars

-----------------------------------------------------------------------------
(* Properties.                                                             *)

Done == unvisited = {} /\ marshalled = DOMAIN conf

\* HAProxy's choice for a connection to a port with a server name (Empty for
\* none), over every frontend on the port: the rule of the name, else the
\* default rule, then the servers of the backend stanzas of that name.
RulesFor(port, sni) ==
  {r \in UNION {Range(f.rules) : f \in {g \in Range(output) :
                                          g.bind = port /\ (sni # Empty => g.inspect)}} :
     r.sni = sni}

HAProxyServes(port, sni) ==
  LET chosen == IF RulesFor(port, sni) # {} THEN RulesFor(port, sni) ELSE RulesFor(port, Empty)
      stanzas == UNION {Range(f.backends) : f \in Range(output)}
  IN  UNION UNION {Range(b.servers) : b \in {s \in stanzas : \E r \in chosen : r.backend = s.name}}

\* What the table asks for: the usable backends of the key, and of the key
\* without a hostname where the key has none that is valid.
TableBackends(k) ==
  IF k \in DOMAIN entries /\ ValidKey(k) THEN Usable(entries[k]) ELSE {}

TableServes(port, sni) ==
  LET own == TableBackends([port |-> port, sniHostname |-> sni])
      all == TableBackends([port |-> port, sniHostname |-> Empty])
  IN  {ServerLine(b) : b \in {c \in IF own # {} THEN own ELSE all : c.tlsPort > 0 => backendTls}}

\* Once the file is written, HAProxy sends a connection to exactly the servers
\* the routing table names for its port and server name: NewHAProxyConfig and
\* Marshal together lose no valid route, leak no invalid or unencrypted one
\* and let no key hide another.  A server is what its line says, its
\* name left out: two backends with equal address and port count as served by one.
RoutesAsInTable ==
  Done => \A p \in {k.port : k \in Keys}, h \in {k.sniHostname : k \in Keys} \cup {Empty} :
            HAProxyServes(p, h) = TableServes(p, h)

ToldApart(backends) == \A b, c \in Usable(backends) : b # c => Less(b, c) \/ Less(c, b)

\* The file depends on the table only: ports and hostnames ascend, and a backend
\* stanza is the one any other order of Go's map iteration had produced ("for
\* determinism's sake", says the sort of NewHAProxyConfig), unless the key has
\* two backends with the same address and port, which the sort leaves as it met
\* them.
Deterministic ==
  Done =>
    /\ \A i, j \in DOMAIN output : i < j => output[i].bind < output[j].bind
    /\ \A f \in Range(output) : \A i \in DOMAIN f.backends :
         LET k == [port |-> f.bind, sniHostname |-> f.rules[i].sni]
             b == f.backends[i]
         IN  /\ \A j \in DOMAIN f.rules : i < j => f.rules[i].sni < f.rules[j].sni
             /\ ToldApart(entries[k]) =>
                  \A servers \in Servers(entries[k]) :
                    b = marshalHAProxyBackend(<<f.bind, f.rules[i].sni>>, servers, backendTls)
=============================================================================
