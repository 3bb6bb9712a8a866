------------------------ MODULE HAProxyConfigProofs ------------------------
(***************************************************************************)
(* Proofs about HAProxyConfig, for all keys, backends and valid names and    *)
(* for tables of any size.                                                  *)
(***************************************************************************)
EXTENDS HAProxyConfig, FiniteSetTheorems, NaturalsInduction, WellFoundedInduction, TLAPS

RoutingKey(port, host) == [port |-> port, sniHostname |-> host]

\* The table is finite, and what is visited are keys of it.
TableInv ==
  /\ DOMAIN entries \subseteq Keys /\ unvisited \subseteq DOMAIN entries
  /\ \A k \in DOMAIN entries : entries[k] \subseteq Backends /\ IsFiniteSet(entries[k])

\* A frontend has the finitely many hostnames of its port's routes, and the
\* servers of each in an order the sort allows.
FrontendInv ==
  \A p \in DOMAIN conf :
    /\ p \in Nat /\ DOMAIN conf[p] \subseteq Nat /\ IsFiniteSet(DOMAIN conf[p])
    /\ \A h \in DOMAIN conf[p] :
         /\ TableBackends(RoutingKey(p, h)) # {}
         /\ conf[p][h] \in Servers(entries[RoutingKey(p, h)])

\* No key that was visited and has a usable backend is missing.
VisitedInv ==
  \A k \in DOMAIN entries \ unvisited :
    TableBackends(k) # {} => k.port \in DOMAIN conf /\ k.sniHostname \in DOMAIN conf[k.port]

FrontendLines == {marshalHAProxyFrontend(p, conf[p], backendTls) : p \in DOMAIN conf}

\* What is written is what the ports so far make, in ascending order, and the
\* ports that are left come behind them.
OutputInv ==
  /\ marshalled \subseteq DOMAIN conf /\ (marshalled # {} => unvisited = {})
  /\ output \in Seq(FrontendLines)
  /\ Range(output) = {marshalHAProxyFrontend(p, conf[p], backendTls) : p \in marshalled}
  /\ \A p \in marshalled, q \in DOMAIN conf \ marshalled : p < q
  /\ \A i, j \in DOMAIN output : i < j => output[i].bind < output[j].bind

ConfigInv == TableInv /\ FrontendInv /\ VisitedInv /\ OutputInv
-----------------------------------------------------------------------------
(* Sorting.                                                                *)

\* A set of numbers that is not empty has a least element.
LEMMA LeastNumber ==
  ASSUME NEW T \in SUBSET Nat, T # {}
  PROVE  \E i \in T : \A j \in T : i <= j
<1>1. PICK i \in T : \A j \in T : <<j, i>> \notin OpToRel(<, Nat)
  BY NatLessThanWellFounded, WFMin
<1>2. ASSUME NEW j \in T PROVE i <= j
  <2>1. <<j, i>> \in Nat \X Nat /\ ~(j < i)
    BY <1>1 DEF OpToRel
  <2> QED
    BY <2>1
<1> QED
  BY <1>2

\* An order that need not tell all elements apart.
TotalPreorder(R, T) ==
  /\ \A x, y \in T : <<x, y>> \in R \/ <<y, x>> \in R
  /\ \A x, y, z \in T : <<x, y>> \in R /\ <<y, z>> \in R => <<x, z>> \in R

\* A finite set that is not empty has an element that no other has to follow: the
\* smallest set without one would have one with any of its elements taken out.
LEMMA LastExists ==
  ASSUME NEW T, NEW R, TotalPreorder(R, T),
         NEW S \in SUBSET T, IsFiniteSet(S), S # {}
  PROVE  \E m \in S : \A x \in S : <<x, m>> \in R
<1> DEFINE Last(U) == \E m \in U : \A x \in U : <<x, m>> \in R
           Bad == {n \in Nat : \E U \in SUBSET T :
                     IsFiniteSet(U) /\ U # {} /\ Cardinality(U) = n /\ ~Last(U)}
<1>1. SUFFICES ASSUME Bad # {} PROVE FALSE
  <2>1. Cardinality(S) \in Nat
    BY FS_CardinalityType
  <2> QED
    BY <1>1, <2>1
<1>2. PICK n \in Bad : \A j \in Bad : n <= j
  BY <1>1, LeastNumber
<1>3. PICK U \in SUBSET T : IsFiniteSet(U) /\ U # {} /\ Cardinality(U) = n /\ ~Last(U)
  BY <1>2
<1>4. PICK a \in U : TRUE
  BY <1>3
<1> DEFINE V == U \ {a}
<1>5. IsFiniteSet(V) /\ Cardinality(V) = n - 1 /\ n \in Nat
  BY <1>2, <1>3, FS_RemoveElement
<1>6. V # {}
  <2>1. V = {} => U = {a}
    OBVIOUS
  <2>2. \A x \in T : <<x, x>> \in R
    BY DEF TotalPreorder
  <2> QED
    BY <1>3, <2>1, <2>2
<1>7. n - 1 \in Nat
  BY <1>5, FS_CardinalityType
<1>8. n - 1 \notin Bad
  BY <1>2, <1>5, <1>7
<1>9. Last(V)
  BY <1>5, <1>6, <1>7, <1>8
<1>10. PICK m \in V : \A x \in V : <<x, m>> \in R
  BY <1>9
<1>11. CASE <<a, m>> \in R
  BY <1>3, <1>10, <1>11
<1>12. CASE <<m, a>> \in R
  <2>1. ASSUME NEW x \in U PROVE <<x, a>> \in R
    <3>1. x \in T /\ m \in T /\ a \in T
      OBVIOUS
    <3>2. CASE x = a
      BY <3>1, <3>2 DEF TotalPreorder
    <3>3. CASE x # a
      BY <1>10, <1>12, <3>1, <3>3 DEF TotalPreorder
    <3> QED
      BY <3>2, <3>3
  <2> QED
    BY <1>3, <2>1
<1> QED
  BY <1>11, <1>12 DEF TotalPreorder

Arranged(s, R) == \A i, j \in DOMAIN s : i < j => <<s[i], s[j]>> \in R

\* A finite set can be sorted: the smallest one that could not would be sorted
\* once its last element is taken out, and that element goes to the end.
LEMMA SortedExists ==
  ASSUME NEW T, NEW R, TotalPreorder(R, T), NEW S \in SUBSET T, IsFiniteSet(S)
  PROVE  \E s \in Bijection(1 .. Cardinality(S), S) : Arranged(s, R)
<1> DEFINE Sort(U) == \E s \in Bijection(1 .. Cardinality(U), U) : Arranged(s, R)
           Bad == {n \in Nat : \E U \in SUBSET T :
                     IsFiniteSet(U) /\ Cardinality(U) = n /\ ~Sort(U)}
<1>1. SUFFICES ASSUME Bad # {} PROVE FALSE
  <2>1. Cardinality(S) \in Nat
    BY FS_CardinalityType
  <2>2. Sort(S)
    BY <1>1, <2>1
  <2> QED
    BY <2>2
<1>2. PICK n \in Bad : \A j \in Bad : n <= j
  BY <1>1, LeastNumber
<1>3. PICK U \in SUBSET T : IsFiniteSet(U) /\ Cardinality(U) = n /\ ~Sort(U)
  BY <1>2
<1>4. U # {}
  <2>1. SUFFICES ASSUME U = {} PROVE FALSE
    OBVIOUS
  <2>2. n = 0
    BY <1>3, <2>1, FS_EmptySet
  <2> DEFINE s == [i \in 1 .. 0 |-> i]
  <2>3. s \in Bijection(1 .. 0, {})
    BY DEF Bijection, Injection, Surjection, IsInjective
  <2>4. Arranged(s, R)
    BY DEF Arranged
  <2> QED
    BY <1>3, <2>1, <2>2, <2>3, <2>4
<1>5. PICK m \in U : \A x \in U : <<x, m>> \in R
  BY <1>3, <1>4, LastExists
<1> DEFINE V == U \ {m}
<1>6. IsFiniteSet(V) /\ Cardinality(V) = n - 1 /\ n \in Nat
  BY <1>2, <1>3, FS_RemoveElement
<1>7. n - 1 \in Nat
  BY <1>6, FS_CardinalityType
<1>8. Sort(V)
  BY <1>2, <1>6, <1>7
<1>9. PICK t \in Bijection(1 .. (n - 1), V) : Arranged(t, R)
  BY <1>6, <1>8
<1> DEFINE s == [i \in 1 .. n |-> IF i = n THEN m ELSE t[i]]
<1>10. /\ t \in [1 .. (n - 1) -> V]
       /\ \A i, j \in 1 .. (n - 1) : t[i] = t[j] => i = j
       /\ \A x \in V : \E i \in 1 .. (n - 1) : t[i] = x
  BY <1>9 DEF Bijection, Injection, Surjection, IsInjective
<1>11. \A i \in 1 .. n : i = n \/ i \in 1 .. (n - 1)
  BY <1>6
<1>12. n \in 1 .. n /\ \A i \in 1 .. (n - 1) : i \in 1 .. n /\ i # n
  BY <1>6, <1>7
<1>13. s \in [1 .. n -> U]
  BY <1>10, <1>11
<1>14. \A i, j \in 1 .. n : s[i] = s[j] => i = j
  BY <1>10, <1>11
<1>15. \A x \in U : \E i \in 1 .. n : s[i] = x
  <2> SUFFICES ASSUME NEW x \in U PROVE \E i \in 1 .. n : s[i] = x
    OBVIOUS
  <2>1. CASE x = m
    BY <1>12, <2>1
  <2>2. CASE x # m
    BY <1>10, <1>12, <2>2
  <2> QED
    BY <2>1, <2>2
<1>16. s \in Bijection(1 .. n, U)
  BY <1>13, <1>14, <1>15 DEF Bijection, Injection, Surjection, IsInjective
<1>17. Arranged(s, R)
  <2> SUFFICES ASSUME NEW i \in 1 .. n, NEW j \in 1 .. n, i < j PROVE <<s[i], s[j]>> \in R
    BY DEF Arranged
  <2>1. i \in 1 .. (n - 1)
    BY <1>6
  <2>2. s[i] = t[i] /\ t[i] \in U
    BY <1>10, <1>12, <2>1
  <2>3. CASE j = n
    BY <1>5, <2>2, <2>3
  <2>4. CASE j # n
    <3>1. j \in 1 .. (n - 1) /\ s[j] = t[j]
      BY <1>11, <1>12, <2>4
    <3>2. DOMAIN t = 1 .. (n - 1)
      BY <1>10
    <3> QED
      BY <1>9, <2>1, <2>2, <3>1, <3>2 DEF Arranged
  <2> QED
    BY <2>3, <2>4
<1> QED
  BY <1>3, <1>16, <1>17

\* The hostnames of a frontend, in ascending order.
LEMMA HostnamesSorted ==
  ASSUME NEW f, DOMAIN f \subseteq Nat, IsFiniteSet(DOMAIN f)
  PROVE  LET hosts == sortedSniHostnames(f)
         IN  /\ Range(hosts) = DOMAIN f
             /\ \A i, j \in DOMAIN hosts : i < j => hosts[i] < hosts[j]
<1> DEFINE D == DOMAIN f
           N == 1 .. Cardinality(D)
           R == {r \in Nat \X Nat : r[1] <= r[2]}
           Up(s) == \A i, j \in DOMAIN s : i < j => s[i] < s[j]
<1>1. TotalPreorder(R, Nat)
  <2>1. \A x, y \in Nat : <<x, y>> \in R <=> x <= y
    OBVIOUS
  <2> HIDE DEF R
  <2> QED
    BY <2>1 DEF TotalPreorder
<1>2. PICK s \in Bijection(N, D) : Arranged(s, R)
  BY <1>1, SortedExists
<1>3. /\ s \in [N -> D]
      /\ \A i, j \in N : s[i] = s[j] => i = j
  BY <1>2 DEF Bijection, Injection, IsInjective
<1>4. Up(s)
  <2> SUFFICES ASSUME NEW i \in N, NEW j \in N, i < j PROVE s[i] < s[j]
    BY <1>3
  <2>1. s[i] \in Nat /\ s[j] \in Nat
    BY <1>3
  <2>2. i \in Int /\ j \in Int
    OBVIOUS
  <2>3. s[i] # s[j]
    BY <1>3, <2>2
  <2>4. <<s[i], s[j]>> \in R
    BY <1>2, <1>3 DEF Arranged
  <2> QED
    BY <2>1, <2>3, <2>4
<1> DEFINE hosts == sortedSniHostnames(f)
<1>5. hosts \in Bijection(N, D) /\ Up(hosts)
  <2>1. hosts = CHOOSE t \in Bijection(N, D) : Up(t)
    BY DEF sortedSniHostnames
  <2> HIDE DEF hosts, Up, N, D
  <2> QED
    BY <1>2, <1>4, <2>1
<1>6. Range(hosts) = D
  <2> HIDE DEF hosts, D, N
  <2> QED
    BY <1>5 DEF Bijection, Surjection, Injection, Range
<1> QED
  BY <1>5, <1>6

\* The sort of the servers always has a result, so that NewHAProxyConfig gets past
\* every key.
LEMMA ServersExist ==
  ASSUME NEW backends \in SUBSET Backends, IsFiniteSet(backends)
  PROVE  Servers(backends) # {}
<1> DEFINE U == Usable(backends)
           R == {r \in Backends \X Backends : ~Less(r[2], r[1])}
<1>1. U \in SUBSET Backends /\ IsFiniteSet(U)
  BY FS_Subset DEF Usable
<1>2. TotalPreorder(R, Backends)
  <2>1. \A x, y \in Backends : <<x, y>> \in R <=> ~Less(y, x)
    OBVIOUS
  <2>2. \A x \in Backends : x.address \in Nat /\ x.port \in Nat
    BY BackendsAssumption
  <2> HIDE DEF R
  <2>3. ASSUME NEW x \in Backends, NEW y \in Backends PROVE <<x, y>> \in R \/ <<y, x>> \in R
    <3>1. ~(Less(x, y) /\ Less(y, x))
      BY <2>2 DEF Less
    <3> QED
      BY <2>1, <3>1
  <2>4. ASSUME NEW x \in Backends, NEW y \in Backends, NEW z \in Backends,
               <<x, y>> \in R, <<y, z>> \in R
        PROVE  <<x, z>> \in R
    BY <2>1, <2>2, <2>4 DEF Less
  <2> QED
    BY <2>3, <2>4 DEF TotalPreorder
<1>3. PICK s \in Bijection(1 .. Cardinality(U), U) : Arranged(s, R)
  BY <1>1, <1>2, SortedExists
<1>4. Sorted(s)
  <2> SUFFICES ASSUME NEW i \in DOMAIN s, NEW j \in DOMAIN s, i < j PROVE ~Less(s[j], s[i])
    BY DEF Sorted
  <2>1. <<s[i], s[j]>> \in R
    BY <1>3 DEF Arranged
  <2> QED
    BY <2>1
<1> QED
  BY <1>3, <1>4 DEF Servers

\* Where the order tells the usable backends apart there is one result: two of
\* them would differ first at some place, and the servers that the two have
\* there would each have to come behind the other.
LEMMA ServersUnique ==
  ASSUME NEW backends, IsFiniteSet(backends), ToldApart(backends),
         NEW s \in Servers(backends), NEW t \in Servers(backends)
  PROVE  s = t
<1> DEFINE U == Usable(backends)
           N == 1 .. Cardinality(U)
           Bad == {i \in N : s[i] # t[i]}
<1>1. /\ s \in [N -> U] /\ t \in [N -> U]
      /\ \A i, j \in N : (s[i] = s[j] => i = j) /\ (t[i] = t[j] => i = j)
      /\ \A b \in U : \E i \in N : s[i] = b
      /\ \A b \in U : \E i \in N : t[i] = b
  BY DEF Servers, Bijection, Injection, Surjection, IsInjective
<1>2. \A i, j \in N : i < j => ~Less(s[j], s[i]) /\ ~Less(t[j], t[i])
  <2>1. DOMAIN s = N /\ DOMAIN t = N
    BY <1>1
  <2> QED
    BY <2>1 DEF Servers, Sorted
<1>3. Cardinality(U) \in Nat
  BY FS_Subset, FS_CardinalityType DEF Usable
<1> HIDE DEF U
<1>4. SUFFICES ASSUME Bad # {} PROVE FALSE
  <2>1. CASE Bad = {}
    <3>1. \A i \in N : s[i] = t[i]
      BY <2>1
    <3> HIDE DEF N, Bad
    <3> QED
      BY <1>1, <3>1
  <2> QED
    BY <1>4, <2>1
<1>5. Bad \in SUBSET Nat
  BY <1>3
<1>6. PICK i \in Bad : \A j \in Bad : i <= j
  BY <1>4, <1>5, LeastNumber
<1>7. i \in N /\ s[i] \in U /\ t[i] \in U /\ s[i] # t[i]
  BY <1>1, <1>6
<1>8. \A j \in N : j < i => s[j] = t[j]
  BY <1>3, <1>6, <1>7
<1>9. PICK j \in N : t[j] = s[i]
  BY <1>1, <1>7
<1>10. PICK k \in N : s[k] = t[i]
  BY <1>1, <1>7
<1>11. \A x, y \in N : x \in Int /\ y \in Int /\ (x < y \/ x = y \/ y < x)
  BY <1>3
<1>12. i < j
  BY <1>1, <1>7, <1>8, <1>9, <1>11
<1>13. i < k
  BY <1>1, <1>7, <1>8, <1>10, <1>11
<1>14. ~Less(s[i], t[i]) /\ ~Less(t[i], s[i])
  BY <1>2, <1>7, <1>9, <1>10, <1>12, <1>13
<1> QED
  BY <1>7, <1>14 DEF ToldApart, U

-----------------------------------------------------------------------------
(* The invariant.                                                          *)

LEMMA ConfigInvInit == ConfigInit => ConfigInv
<1> SUFFICES ASSUME ConfigInit PROVE ConfigInv
  OBVIOUS
<1>1. PICK ks \in SUBSET Keys : entries \in [ks -> Entry]
  BY DEF ConfigInit
<1>2. TableInv
  BY <1>1 DEF ConfigInit, TableInv, Entry
<1>3. FrontendInv
  BY DEF ConfigInit, FrontendInv
<1>4. VisitedInv
  BY DEF ConfigInit, VisitedInv
<1>5. OutputInv
  BY DEF ConfigInit, OutputInv, Range
<1> QED
  BY <1>2, <1>3, <1>4, <1>5 DEF ConfigInv

\* What SetFrontend makes of conf.
LEMMA SetFrontendIs ==
  ASSUME NEW k, NEW servers, SetFrontend(k, servers)
  PROVE  LET p == k.port
             before == IF p \in DOMAIN conf THEN DOMAIN conf[p] ELSE {}
         IN  /\ DOMAIN conf' = DOMAIN conf \cup {p}
             /\ \A q \in DOMAIN conf : q # p => conf'[q] = conf[q]
             /\ DOMAIN conf'[p] = before \cup {k.sniHostname}
             /\ conf'[p][k.sniHostname] = servers
             /\ \A h \in before : h # k.sniHostname => conf'[p][h] = conf[p][h]
<1> DEFINE p == k.port
           frontend == IF p \in DOMAIN conf THEN conf[p] ELSE <<>>
           new == SetTo(frontend, k.sniHostname, servers)
<1>1. conf' = SetTo(conf, p, new)
  BY DEF SetFrontend
<1>2. DOMAIN frontend = IF p \in DOMAIN conf THEN DOMAIN conf[p] ELSE {}
  OBVIOUS
<1>3. /\ DOMAIN new = DOMAIN frontend \cup {k.sniHostname}
      /\ new[k.sniHostname] = servers
      /\ \A h \in DOMAIN frontend : h # k.sniHostname => new[h] = frontend[h]
  <2> HIDE DEF frontend
  <2> QED
    BY DEF SetTo
<1> HIDE DEF new, p
<1>4. /\ DOMAIN conf' = DOMAIN conf \cup {p}
      /\ conf'[p] = new
      /\ \A q \in DOMAIN conf : q # p => conf'[q] = conf[q]
  BY <1>1 DEF SetTo
<1> QED
  BY <1>2, <1>3, <1>4 DEF p

LEMMA VisitKeepsTable ==
  ASSUME TableInv, NEW k \in unvisited, VisitKey(k)
  PROVE  TableInv' /\ \A j : TableBackends(j)' = TableBackends(j)
BY DEF TableInv, VisitKey, TableBackends

LEMMA VisitKeepsFrontends ==
  ASSUME TableInv, FrontendInv, NEW k \in unvisited, VisitKey(k)
  PROVE  FrontendInv'
<1>1. entries' = entries /\ \A j : TableBackends(j)' = TableBackends(j)
  BY VisitKeepsTable DEF VisitKey
<1>2. CASE UNCHANGED conf
  BY <1>1, <1>2 DEF FrontendInv
<1>3. CASE ValidKey(k) /\ Usable(entries[k]) # {}
  <2>1. PICK servers \in Servers(entries[k]) : SetFrontend(k, servers)
    BY <1>3 DEF VisitKey
  <2>2. /\ k \in DOMAIN entries /\ k.port \in Nat /\ k.sniHostname \in Nat
        /\ RoutingKey(k.port, k.sniHostname) = k
    BY KeysAssumption DEF TableInv, RoutingKey
  <2>3. TableBackends(k) # {}
    BY <1>3, <2>2 DEF TableBackends
  <2> DEFINE before == IF k.port \in DOMAIN conf THEN DOMAIN conf[k.port] ELSE {}
  <2>4. /\ DOMAIN conf' = DOMAIN conf \cup {k.port}
        /\ \A q \in DOMAIN conf : q # k.port => conf'[q] = conf[q]
        /\ DOMAIN conf'[k.port] = before \cup {k.sniHostname}
        /\ conf'[k.port][k.sniHostname] = servers
        /\ \A h \in before : h # k.sniHostname => conf'[k.port][h] = conf[k.port][h]
    BY <2>1, SetFrontendIs
  <2>5. before \subseteq Nat /\ IsFiniteSet(before)
    BY FS_EmptySet DEF FrontendInv
  <2>6. \A h \in before : /\ TableBackends(RoutingKey(k.port, h)) # {}
                          /\ conf[k.port][h] \in Servers(entries[RoutingKey(k.port, h)])
    BY DEF FrontendInv
  <2> HIDE DEF before
  <2>7. ASSUME NEW p \in DOMAIN conf'
        PROVE  /\ p \in Nat /\ DOMAIN conf'[p] \subseteq Nat /\ IsFiniteSet(DOMAIN conf'[p])
               /\ \A h \in DOMAIN conf'[p] :
                    /\ TableBackends(RoutingKey(p, h)) # {}
                    /\ conf'[p][h] \in Servers(entries[RoutingKey(p, h)])
    <3>1. CASE p # k.port
      BY <2>4, <2>7, <3>1 DEF FrontendInv
    <3>2. CASE p = k.port
      <4>1. DOMAIN conf'[p] \subseteq Nat
        BY <2>2, <2>4, <2>5, <3>2
      <4>2. IsFiniteSet(DOMAIN conf'[p])
        BY <2>4, <2>5, <3>2, FS_AddElement
      <4>3. ASSUME NEW h \in DOMAIN conf'[p]
            PROVE  /\ TableBackends(RoutingKey(p, h)) # {}
                   /\ conf'[p][h] \in Servers(entries[RoutingKey(p, h)])
        <5>1. CASE h = k.sniHostname
          BY <2>2, <2>3, <2>4, <3>2, <5>1
        <5>2. CASE h # k.sniHostname
          BY <2>4, <2>6, <3>2, <5>2
        <5> QED
          BY <5>1, <5>2
      <4> QED
        BY <2>2, <3>2, <4>1, <4>2, <4>3
    <3> QED
      BY <3>1, <3>2
  <2> QED
    BY <1>1, <2>7 DEF FrontendInv
<1> QED
  BY <1>2, <1>3 DEF VisitKey

LEMMA VisitKeepsVisited ==
  ASSUME TableInv, VisitedInv, NEW k \in unvisited, VisitKey(k)
  PROVE  VisitedInv'
<1>1. /\ entries' = entries /\ unvisited' = unvisited \ {k}
      /\ \A j : TableBackends(j)' = TableBackends(j)
  BY VisitKeepsTable DEF VisitKey
<1>2. CASE ValidKey(k) /\ Usable(entries[k]) # {}
  <2>1. PICK servers \in Servers(entries[k]) : SetFrontend(k, servers)
    BY <1>2 DEF VisitKey
  <2> DEFINE before == IF k.port \in DOMAIN conf THEN DOMAIN conf[k.port] ELSE {}
  <2>2. /\ DOMAIN conf' = DOMAIN conf \cup {k.port}
        /\ \A q \in DOMAIN conf : q # k.port => conf'[q] = conf[q]
        /\ DOMAIN conf'[k.port] = before \cup {k.sniHostname}
    BY <2>1, SetFrontendIs
  <2>3. ASSUME NEW j \in DOMAIN entries \ unvisited', TableBackends(j) # {}
        PROVE  j.port \in DOMAIN conf' /\ j.sniHostname \in DOMAIN conf'[j.port]
    <3>1. CASE j = k
      BY <2>2, <3>1
    <3>2. CASE j # k
      <4>1. j.port \in DOMAIN conf /\ j.sniHostname \in DOMAIN conf[j.port]
        BY <1>1, <2>3, <3>2 DEF VisitedInv
      <4>2. CASE j.port = k.port
        BY <2>2, <4>1, <4>2
      <4>3. CASE j.port # k.port
        BY <2>2, <4>1, <4>3
      <4> QED
        BY <4>2, <4>3
    <3> QED
      BY <3>1, <3>2
  <2> QED
    BY <1>1, <2>3 DEF VisitedInv
<1>3. CASE ~(ValidKey(k) /\ Usable(entries[k]) # {})
  <2>1. conf' = conf
    BY <1>3 DEF VisitKey
  <2>2. TableBackends(k) = {}
    BY <1>3 DEF TableBackends
  <2> QED
    BY <1>1, <2>1, <2>2 DEF VisitedInv
<1> QED
  BY <1>2, <1>3

\* Nothing is written while keys are visited.
LEMMA VisitKeepsOutput ==
  ASSUME OutputInv, NEW k \in unvisited, VisitKey(k)
  PROVE  OutputInv'
<1>1. marshalled = {} /\ Range(output) = {} /\ output \in Seq(FrontendLines)
  BY DEF OutputInv
<1>2. output = <<>>
  <2>1. DOMAIN output = {}
    BY <1>1 DEF Range
  <2>2. Len(output) = 0
    BY <1>1, <2>1
  <2> QED
    BY <1>1, <2>2
<1>3. output' = <<>> /\ marshalled' = {}
  BY <1>1, <1>2 DEF VisitKey
<1> QED
  BY <1>3 DEF OutputInv, Range

LEMMA MarshalKeepsOutput ==
  ASSUME FrontendInv, OutputInv, NEW port \in DOMAIN conf, Marshal(port)
  PROVE  OutputInv'
<1> DEFINE line == marshalHAProxyFrontend(port, conf[port], backendTls)
           n == Len(output)
<1>1. /\ unvisited = {} /\ unvisited' = unvisited /\ conf' = conf /\ backendTls' = backendTls
      /\ port \in DOMAIN conf \ marshalled
      /\ \A p \in DOMAIN conf \ marshalled : port <= p
      /\ output' = Append(output, line)
      /\ marshalled' = marshalled \cup {port}
  BY DEF Marshal
<1>2. FrontendLines' = FrontendLines /\ line \in FrontendLines
  BY <1>1 DEF FrontendLines
<1>3. line.bind = port
  BY DEF marshalHAProxyFrontend
<1>4. \A p \in marshalled : marshalHAProxyFrontend(p, conf[p], backendTls).bind = p
  BY DEF marshalHAProxyFrontend
<1>5. /\ output \in Seq(FrontendLines)
      /\ Range(output) = {marshalHAProxyFrontend(p, conf[p], backendTls) : p \in marshalled}
      /\ marshalled \subseteq DOMAIN conf
      /\ \A p \in marshalled, q \in DOMAIN conf \ marshalled : p < q
      /\ \A i, j \in DOMAIN output : i < j => output[i].bind < output[j].bind
  BY DEF OutputInv
<1>6. \A p \in DOMAIN conf : p \in Nat
  BY DEF FrontendInv
<1> HIDE DEF line
<1>7. /\ output' \in Seq(FrontendLines) /\ n \in Nat
      /\ DOMAIN output' = 1 .. (n + 1) /\ DOMAIN output = 1 .. n
      /\ output'[n + 1] = line
      /\ \A i \in 1 .. n : output'[i] = output[i]
  BY <1>1, <1>2, <1>5
<1> HIDE DEF n
<1>8. \A i \in 1 .. (n + 1) : i = n + 1 \/ i \in 1 .. n
  BY <1>7
<1>9. n + 1 \in 1 .. (n + 1) /\ \A i \in 1 .. n : i \in 1 .. (n + 1)
  BY <1>7
<1>10. Range(output') = Range(output) \cup {line}
  BY <1>7, <1>8, <1>9 DEF Range
<1>11. Range(output') = {marshalHAProxyFrontend(p, conf[p], backendTls) : p \in marshalled'}
  BY <1>1, <1>5, <1>10 DEF line
<1>12. \A p \in marshalled', q \in DOMAIN conf \ marshalled' : p < q
  BY <1>1, <1>5, <1>6
<1>13. ASSUME NEW i \in 1 .. (n + 1), NEW j \in 1 .. (n + 1), i < j
       PROVE  output'[i].bind < output'[j].bind
  <2>1. i \in 1 .. n
    BY <1>7, <1>13
  <2>2. CASE j \in 1 .. n
    BY <1>5, <1>7, <1>13, <2>1, <2>2
  <2>3. CASE j = n + 1
    <3>1. output[i] \in Range(output)
      BY <1>7, <2>1 DEF Range
    <3>2. output[i].bind \in marshalled
      BY <1>4, <1>5, <3>1
    <3> QED
      BY <1>1, <1>3, <1>5, <1>7, <2>1, <2>3, <3>2
  <2> QED
    BY <1>8, <2>2, <2>3
<1> QED
  BY <1>1, <1>2, <1>5, <1>7, <1>11, <1>12, <1>13 DEF OutputInv

LEMMA MarshalKeepsConf ==
  ASSUME TableInv, FrontendInv, VisitedInv, NEW port, Marshal(port)
  PROVE  TableInv' /\ FrontendInv' /\ VisitedInv'
<1>1. conf' = conf /\ entries' = entries /\ unvisited' = unvisited
  BY DEF Marshal
<1>2. \A j : TableBackends(j)' = TableBackends(j)
  BY <1>1 DEF TableBackends
<1>3. TableInv'
  BY <1>1 DEF TableInv
<1>4. FrontendInv'
  BY <1>1, <1>2 DEF FrontendInv
<1>5. VisitedInv'
  BY <1>1, <1>2 DEF VisitedInv
<1> QED
  BY <1>3, <1>4, <1>5

LEMMA ConfigInvStep == ConfigInv /\ [ConfigNext]_configVars => ConfigInv'
<1> SUFFICES ASSUME ConfigInv, [ConfigNext]_configVars PROVE ConfigInv'
  OBVIOUS
<1> USE DEF ConfigInv
<1>1. ASSUME NEW k \in unvisited, VisitKey(k) PROVE ConfigInv'
  BY <1>1, VisitKeepsTable, VisitKeepsFrontends, VisitKeepsVisited, VisitKeepsOutput
<1>2. ASSUME NEW port \in DOMAIN conf, Marshal(port) PROVE ConfigInv'
  BY <1>2, MarshalKeepsConf, MarshalKeepsOutput
<1>3. ASSUME UNCHANGED configVars PROVE ConfigInv'
  BY <1>3 DEF configVars, TableInv, FrontendInv, VisitedInv, OutputInv, FrontendLines, TableBackends
<1> HIDE DEF ConfigInv
<1> QED
  BY <1>1, <1>2, <1>3 DEF ConfigNext

-----------------------------------------------------------------------------
(* What HAProxy serves.                                                    *)

Rule(port, host) == [sni |-> host, backend |-> <<port, host>>]

\* The frontend that is written for a port has a rule and a backend stanza for
\* each of its hostnames.
LEMMA FrontendIs ==
  ASSUME NEW port, NEW f, NEW tls, DOMAIN f \subseteq Nat, IsFiniteSet(DOMAIN f)
  PROVE  LET line == marshalHAProxyFrontend(port, f, tls)
         IN  /\ line.bind = port
             /\ line.inspect <=> \E h \in DOMAIN f : h # Empty
             /\ Range(line.rules) = {Rule(port, h) : h \in DOMAIN f}
             /\ \A b : b \in Range(line.backends)
                       <=> \E h \in DOMAIN f : b = marshalHAProxyBackend(<<port, h>>, f[h], tls)
<1> DEFINE hosts == sortedSniHostnames(f)
           rules == [i \in DOMAIN hosts |-> Rule(port, hosts[i])]
           stanza(h) == marshalHAProxyBackend(<<port, h>>, f[h], tls)
           stanzas == [i \in DOMAIN hosts |-> stanza(hosts[i])]
<1>1. marshalHAProxyFrontend(port, f, tls)
        = [bind |-> port, inspect |-> ContainsSNIRoutes(f), rules |-> rules, backends |-> stanzas]
  BY DEF marshalHAProxyFrontend, Rule
<1>2. Range(hosts) = DOMAIN f
  BY HostnamesSorted
<1> HIDE DEF hosts
<1>3. Range(rules) = {Rule(port, h) : h \in DOMAIN f}
  BY <1>2 DEF Range
<1>4. \A b : b \in Range(stanzas) <=> \E h \in DOMAIN f : b = stanza(h)
  <2> HIDE DEF stanza
  <2> QED
    BY <1>2 DEF Range
<1> HIDE DEF rules, stanzas
<1> QED
  BY <1>1, <1>3, <1>4 DEF ContainsSNIRoutes

LEMMA PortFrontend ==
  ASSUME ConfigInv, NEW q \in DOMAIN conf
  PROVE  LET line == marshalHAProxyFrontend(q, conf[q], backendTls)
         IN  /\ line.bind = q
             /\ line.inspect <=> \E g \in DOMAIN conf[q] : g # Empty
             /\ Range(line.rules) = {Rule(q, g) : g \in DOMAIN conf[q]}
             /\ \A b : b \in Range(line.backends)
                       <=> \E g \in DOMAIN conf[q] :
                             b = marshalHAProxyBackend(<<q, g>>, conf[q][g], backendTls)
<1> DEFINE f == conf[q]
           line == marshalHAProxyFrontend(q, f, backendTls)
<1>1. DOMAIN f \subseteq Nat /\ IsFiniteSet(DOMAIN f)
  BY DEF ConfigInv, FrontendInv
<1> HIDE DEF f
<1>2. line.bind = q /\ (line.inspect <=> \E g \in DOMAIN f : g # Empty)
  BY <1>1, FrontendIs
<1>3. Range(line.rules) = {Rule(q, g) : g \in DOMAIN f}
  BY <1>1, FrontendIs
<1>4. \A b : b \in Range(line.backends)
              <=> \E g \in DOMAIN f : b = marshalHAProxyBackend(<<q, g>>, f[g], backendTls)
  BY <1>1, FrontendIs
<1> QED
  BY <1>2, <1>3, <1>4 DEF f

\* The lines of the usable servers, without those that need a TLS that is off.
Lines(backends, tls) == {ServerLine(b) : b \in {c \in Usable(backends) : c.tlsPort > 0 => tls}}

\* A backend stanza has them in whatever order the servers are.
LEMMA StanzaIs ==
  ASSUME NEW name, NEW tls, NEW backends, NEW servers \in Servers(backends)
  PROVE  UNION Range(marshalHAProxyBackend(name, servers, tls).servers) = Lines(backends, tls)
<1> DEFINE U == Usable(backends)
           N == 1 .. Cardinality(U)
           line(b) == {ServerLine(x) : x \in {c \in {b} : Written(c, tls)}}
           lines == [i \in DOMAIN servers |-> line(servers[i])]
<1>1. marshalHAProxyBackend(name, servers, tls).servers = lines
  BY DEF marshalHAProxyBackend
<1>2. /\ servers \in [N -> U]
      /\ \A b \in U : \E i \in N : servers[i] = b
  BY DEF Servers, Bijection, Injection, Surjection
<1>3. \A b : line(b) = IF b.tlsPort > 0 => tls THEN {ServerLine(b)} ELSE {}
  BY DEF Written
<1> HIDE DEF line, U, N
<1>4. Range(lines) = {line(b) : b \in U}
  BY <1>2 DEF Range
<1>5. UNION {line(b) : b \in U} = {ServerLine(b) : b \in {c \in U : c.tlsPort > 0 => tls}}
  <2> HIDE DEF Usable
  <2> QED
    BY <1>3
<1> QED
  BY <1>1, <1>4, <1>5 DEF Lines, U

Has(port, host) == port \in DOMAIN conf /\ host \in DOMAIN conf[port]

\* Once all keys are visited, conf has exactly the keys with a usable backend.
LEMMA HasRoute ==
  ASSUME ConfigInv, unvisited = {}, NEW p, NEW h
  PROVE  Has(p, h) <=> TableBackends(RoutingKey(p, h)) # {}
<1>1. ASSUME Has(p, h) PROVE TableBackends(RoutingKey(p, h)) # {}
  BY <1>1 DEF Has, ConfigInv, FrontendInv
<1>2. ASSUME TableBackends(RoutingKey(p, h)) # {} PROVE Has(p, h)
  <2>1. RoutingKey(p, h) \in DOMAIN entries
    BY <1>2 DEF TableBackends
  <2>2. RoutingKey(p, h).port = p /\ RoutingKey(p, h).sniHostname = h
    BY DEF RoutingKey
  <2> QED
    BY <1>2, <2>1, <2>2 DEF Has, ConfigInv, VisitedInv
<1> QED
  BY <1>1, <1>2

LEMMA RulesForIs ==
  ASSUME ConfigInv, Done, NEW p, NEW h
  PROVE  RulesFor(p, h) = IF Has(p, h) THEN {Rule(p, h)} ELSE {}
<1> DEFINE F(q) == marshalHAProxyFrontend(q, conf[q], backendTls)
<1>1. Range(output) = {F(q) : q \in DOMAIN conf}
  BY DEF ConfigInv, OutputInv, Done
<1>2. ASSUME NEW q \in DOMAIN conf
      PROVE  /\ F(q).bind = q
             /\ F(q).inspect <=> \E g \in DOMAIN conf[q] : g # Empty
             /\ Range(F(q).rules) = {Rule(q, g) : g \in DOMAIN conf[q]}
  BY PortFrontend
<1>3. \A q, g : Rule(q, g).sni = g
  BY DEF Rule
<1> HIDE DEF F
<1>4. CASE Has(p, h)
  <2> DEFINE frontends == {g \in Range(output) : g.bind = p /\ (h # Empty => g.inspect)}
  <2>1. frontends = {F(p)}
    BY <1>1, <1>2, <1>4 DEF Has
  <2>2. RulesFor(p, h) = {r \in UNION {Range(f.rules) : f \in frontends} : r.sni = h}
    BY DEF RulesFor
  <2> HIDE DEF frontends
  <2>3. UNION {Range(f.rules) : f \in frontends} = {Rule(p, g) : g \in DOMAIN conf[p]}
    BY <1>2, <1>4, <2>1 DEF Has
  <2>4. RulesFor(p, h) = {r \in {Rule(p, g) : g \in DOMAIN conf[p]} : r.sni = h}
    BY <2>2, <2>3
  <2>5. {r \in {Rule(p, g) : g \in DOMAIN conf[p]} : r.sni = h} = {Rule(p, h)}
    BY <1>3, <1>4 DEF Has
  <2> QED
    BY <1>4, <2>4, <2>5
<1>5. CASE ~Has(p, h)
  <2>1. ASSUME NEW r \in RulesFor(p, h) PROVE FALSE
    <3>1. r.sni = h /\ \E f \in Range(output) : f.bind = p /\ r \in Range(f.rules)
      BY DEF RulesFor
    <3>2. PICK q \in DOMAIN conf : F(q).bind = p /\ r \in Range(F(q).rules)
      BY <1>1, <3>1
    <3>3. q = p /\ \E g \in DOMAIN conf[q] : r = Rule(q, g)
      BY <1>2, <3>2
    <3> QED
      BY <1>3, <1>5, <3>1, <3>3 DEF Has
  <2> QED
    BY <1>5, <2>1
<1> QED
  BY <1>4, <1>5

\* There is one backend stanza of the name of a port and hostname.
LEMMA StanzasOf ==
  ASSUME ConfigInv, Done, NEW p, NEW h, Has(p, h)
  PROVE  {s \in UNION {Range(f.backends) : f \in Range(output)} : s.name = <<p, h>>}
           = {marshalHAProxyBackend(<<p, h>>, conf[p][h], backendTls)}
<1> DEFINE F(q) == marshalHAProxyFrontend(q, conf[q], backendTls)
           B(q, g) == marshalHAProxyBackend(<<q, g>>, conf[q][g], backendTls)
           stanzas == UNION {Range(f.backends) : f \in Range(output)}
<1>1. Range(output) = {F(q) : q \in DOMAIN conf}
  BY DEF ConfigInv, OutputInv, Done
<1>2. ASSUME NEW q \in DOMAIN conf
      PROVE  \A b : b \in Range(F(q).backends) <=> \E g \in DOMAIN conf[q] : b = B(q, g)
  BY PortFrontend
<1>3. \A q, g : B(q, g).name = <<q, g>>
  BY DEF marshalHAProxyBackend
<1> HIDE DEF F, B
<1>4. B(p, h) \in stanzas
  BY <1>1, <1>2 DEF Has
<1>5. ASSUME NEW s \in stanzas, s.name = <<p, h>> PROVE s = B(p, h)
  <2>1. PICK q \in DOMAIN conf : s \in Range(F(q).backends)
    BY <1>1
  <2>2. PICK g \in DOMAIN conf[q] : s = B(q, g)
    BY <1>2, <2>1
  <2>3. <<q, g>> = <<p, h>>
    BY <1>3, <1>5, <2>2
  <2> QED
    BY <2>2, <2>3
<1> QED
  BY <1>3, <1>4, <1>5 DEF B

\* HAProxy serves a rule with the lines of its key.
LEMMA RuleServes ==
  ASSUME ConfigInv, Done, NEW p, NEW h, Has(p, h)
  PROVE  LET stanzas == UNION {Range(f.backends) : f \in Range(output)}
         IN  UNION UNION {Range(b.servers) :
                            b \in {s \in stanzas : \E r \in {Rule(p, h)} : r.backend = s.name}}
               = {ServerLine(b) :
                    b \in {c \in TableBackends(RoutingKey(p, h)) : c.tlsPort > 0 => backendTls}}
<1> DEFINE stanzas == UNION {Range(f.backends) : f \in Range(output)}
           B == marshalHAProxyBackend(<<p, h>>, conf[p][h], backendTls)
           k == RoutingKey(p, h)
           chosen == {s \in stanzas : \E r \in {Rule(p, h)} : r.backend = s.name}
<1>1. Rule(p, h).backend = <<p, h>>
  BY DEF Rule
<1>2. {s \in stanzas : s.name = <<p, h>>} = {B}
  BY StanzasOf
<1> HIDE DEF stanzas, B
<1>3. chosen = {B}
  BY <1>1, <1>2
<1> HIDE DEF chosen
<1>4. UNION UNION {Range(b.servers) : b \in chosen} = UNION Range(B.servers)
  BY <1>3
<1>5. conf[p][h] \in Servers(entries[k]) /\ TableBackends(k) = Usable(entries[k])
  <2>1. conf[p][h] \in Servers(entries[k]) /\ TableBackends(k) # {}
    BY DEF ConfigInv, FrontendInv, Has
  <2> QED
    BY <2>1 DEF TableBackends
<1>6. UNION Range(B.servers) = Lines(entries[k], backendTls)
  BY <1>5, StanzaIs DEF B
<1>7. Lines(entries[k], backendTls)
        = {ServerLine(b) : b \in {c \in TableBackends(k) : c.tlsPort > 0 => backendTls}}
  BY <1>5 DEF Lines
<1> QED
  BY <1>4, <1>6, <1>7 DEF chosen, stanzas

LEMMA RoutesFollow == ConfigInv => RoutesAsInTable
<1> SUFFICES ASSUME ConfigInv, Done, NEW p, NEW h
             PROVE  HAProxyServes(p, h) = TableServes(p, h)
  BY DEF RoutesAsInTable
<1> DEFINE stanzas == UNION {Range(f.backends) : f \in Range(output)}
           Serve(chosen) ==
             UNION UNION {Range(b.servers) :
                            b \in {s \in stanzas : \E r \in chosen : r.backend = s.name}}
           T(backends) == {ServerLine(b) : b \in {c \in backends : c.tlsPort > 0 => backendTls}}
           own == TableBackends(RoutingKey(p, h))
           all == TableBackends(RoutingKey(p, Empty))
<1>1. HAProxyServes(p, h)
        = Serve(IF RulesFor(p, h) # {} THEN RulesFor(p, h) ELSE RulesFor(p, Empty))
  BY DEF HAProxyServes
<1>2. TableServes(p, h) = T(IF own # {} THEN own ELSE all)
  BY DEF TableServes, RoutingKey
<1>3. unvisited = {}
  BY DEF Done
<1>4. (Has(p, h) <=> own # {}) /\ (Has(p, Empty) <=> all # {})
  BY <1>3, HasRoute
<1>5. /\ RulesFor(p, h) = IF Has(p, h) THEN {Rule(p, h)} ELSE {}
      /\ RulesFor(p, Empty) = IF Has(p, Empty) THEN {Rule(p, Empty)} ELSE {}
  BY RulesForIs
<1>6. /\ Has(p, h) => Serve({Rule(p, h)}) = T(own)
      /\ Has(p, Empty) => Serve({Rule(p, Empty)}) = T(all)
  BY RuleServes
<1>7. Serve({}) = {} /\ T({}) = {}
  BY Zenon
<1> HIDE DEF Serve, T, own, all
<1> QED
  BY <1>1, <1>2, <1>4, <1>5, <1>6, <1>7

\* Whatever the routing table holds and in whatever order NewHAProxyConfig meets
\* its keys and backends, HAProxy sends a connection to exactly the servers that
\* the table names for its port and server name (haproxy_config.go:18 to 78,
\* config_marshaller.go:26 to 107).
THEOREM FileRoutesAsTable == ConfigSpec => []RoutesAsInTable
<1>1. ConfigInv /\ [ConfigNext]_configVars => ConfigInv'
  BY ConfigInvStep
<1> QED
  BY <1>1, ConfigInvInit, RoutesFollow, PTL DEF ConfigSpec

\* The hostnames of a frontend ascend, and its backend stanzas are those any
\* sorted order of the servers makes.
LEMMA FrontendDetermined ==
  ASSUME ConfigInv, Done, NEW f \in Range(output), NEW i \in DOMAIN f.backends
  PROVE  LET h == f.rules[i].sni
             k == RoutingKey(f.bind, h)
         IN  /\ \A j \in DOMAIN f.rules : i < j => h < f.rules[j].sni
             /\ ToldApart(entries[k]) =>
                  \A servers \in Servers(entries[k]) :
                    f.backends[i] = marshalHAProxyBackend(<<f.bind, h>>, servers, backendTls)
<1>1. PICK p \in DOMAIN conf : f = marshalHAProxyFrontend(p, conf[p], backendTls)
  BY DEF ConfigInv, OutputInv, Done
<1> DEFINE hosts == sortedSniHostnames(conf[p])
           rules == [j \in DOMAIN hosts |-> Rule(p, hosts[j])]
           stanza(g) == marshalHAProxyBackend(<<p, g>>, conf[p][g], backendTls)
           stanzas == [j \in DOMAIN hosts |-> stanza(hosts[j])]
           k == RoutingKey(p, hosts[i])
<1>2. f = [bind |-> p, inspect |-> ContainsSNIRoutes(conf[p]),
           rules |-> rules, backends |-> stanzas]
  BY <1>1 DEF marshalHAProxyFrontend, Rule
<1>3. /\ Range(hosts) = DOMAIN conf[p]
      /\ \A j, m \in DOMAIN hosts : j < m => hosts[j] < hosts[m]
  BY HostnamesSorted DEF ConfigInv, FrontendInv
<1> HIDE DEF hosts
<1>4. \A j \in DOMAIN hosts : rules[j].sni = hosts[j]
  BY DEF Rule
<1>5. i \in DOMAIN hosts /\ f.backends[i] = stanza(hosts[i])
  <2> HIDE DEF stanza
  <2> QED
    BY <1>2
<1>6. f.bind = p /\ f.rules = rules
  BY <1>2
<1>7. DOMAIN rules = DOMAIN hosts
  OBVIOUS
<1>8. hosts[i] \in DOMAIN conf[p]
  BY <1>3, <1>5 DEF Range
<1>9. /\ conf[p][hosts[i]] \in Servers(entries[k])
      /\ IsFiniteSet(entries[k])
  <2>1. conf[p][hosts[i]] \in Servers(entries[k]) /\ TableBackends(k) # {}
    BY <1>8 DEF ConfigInv, FrontendInv
  <2>2. k \in DOMAIN entries
    BY <2>1 DEF TableBackends
  <2> QED
    BY <2>1, <2>2 DEF ConfigInv, TableInv
<1> HIDE DEF rules
<1>10. \A j \in DOMAIN f.rules : i < j => f.rules[i].sni < f.rules[j].sni
  BY <1>3, <1>4, <1>5, <1>6, <1>7
<1>11. ASSUME ToldApart(entries[k]), NEW servers \in Servers(entries[k])
       PROVE  f.backends[i] = marshalHAProxyBackend(<<p, hosts[i]>>, servers, backendTls)
  <2>1. servers = conf[p][hosts[i]]
    BY <1>9, <1>11, ServersUnique
  <2> QED
    BY <1>5, <2>1
<1>12. f.rules[i].sni = hosts[i]
  BY <1>4, <1>5, <1>6
<1> QED
  BY <1>6, <1>10, <1>11, <1>12

LEMMA DeterminismFollows == ConfigInv => Deterministic
<1> SUFFICES ASSUME ConfigInv, Done PROVE Deterministic
  BY DEF Deterministic
<1>1. \A i, j \in DOMAIN output : i < j => output[i].bind < output[j].bind
  BY DEF ConfigInv, OutputInv
<1> QED
  BY <1>1, FrontendDetermined DEF Deterministic, RoutingKey

\* The file depends on the routing table only, not on the order of Go's map
\* iteration, as far as the sort of haproxy_config.go:60 tells the backends of a
\* key apart; ports and hostnames come in ascending order.
THEOREM FileIsDeterministic == ConfigSpec => []Deterministic
<1>1. ConfigInv /\ [ConfigNext]_configVars => ConfigInv'
  BY ConfigInvStep
<1> QED
  BY <1>1, ConfigInvInit, DeterminismFollows, PTL DEF ConfigSpec
=============================================================================
