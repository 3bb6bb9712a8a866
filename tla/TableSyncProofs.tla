--------------------------- MODULE TableSyncProofs ---------------------------
(***************************************************************************)
(* Proofs about TableSync, for any routes, any number of changes in the    *)
(* routing API and of breaks, and any fetches, as long as syncs do not     *)
(* overlap.                                                                *)
(***************************************************************************)
EXTENDS TableSync, UpdaterProofs, SequenceTheorems

-----------------------------------------------------------------------------
(* The events that are still to be applied: first those the sync has cached *)
(* and not replayed, then those of the stream.                             *)

RouteOf(m) == <<toRoutingKey(m), m.backend>>

\* How many of the cached events the sync that holds the mutex has replayed.
Replayed == IF lock \in Syncs THEN replayed[lock] ELSE 0

Waiting == SubSeq(cachedEvents, Replayed + 1, Len(cachedEvents))
Pending == Waiting \o stream

\* Some event of q is about the route.
Mentions(q, r) == \E i \in 1..Len(q) : RouteOf(q[i].mapping) = r

\* The last event of q about the route has this action.
Settles(q, r, action) ==
  \E i \in 1..Len(q) :
    /\ RouteOf(q[i].mapping) = r
    /\ \A j \in i..Len(q) : RouteOf(q[j].mapping) = r => q[j].action = action

-----------------------------------------------------------------------------
(* The tags that are about: in tables, in fetches, in upserts and in events. *)

InTable(t, r, tag) == r \in Routes(t) /\ t[r[1]][r[2]].tag = tag

Held(r, tag) ==
  \/ InTable(table, r, tag)
  \/ \E s \in Syncs :
       \/ InTable(fresh[s], r, tag)
       \/ \E m \in todo[s] : RouteOf(m) = r /\ m.tag = tag
       \/ /\ spc[s] = "store"
          /\ <<upsert[s].key, upsert[s].backend>> = r /\ upsert[s].details.tag = tag

\* Some event of q has this action, route and tag.
Says(q, action, r, tag) ==
  \E i \in 1..Len(q) : /\ q[i].action = action
                       /\ RouteOf(q[i].mapping) = r /\ q[i].mapping.tag = tag

Known(r, tag) ==
  Held(r, tag) \/ \E action \in {"Upsert", "Delete", "Unknown"} :
                    Says(Pending, action, r, tag)

-----------------------------------------------------------------------------
(* The inductive invariant.                                                *)

\* The types of the variables of TableSync, what a sync leaves behind where it
\* does not use it, and what the history variables say.
ApiInv ==
  /\ DOMAIN api \subseteq Route /\ api \in [DOMAIN api -> ModificationTag]
  /\ changes \in 0..MaxChanges
  /\ \A r \in DOMAIN api : api[r].guid \in 0..changes
  /\ subscribed \in BOOLEAN /\ missed \in BOOLEAN /\ clean \in [Syncs -> BOOLEAN]
  /\ stream \in Seq(TcpEvent)
  /\ ~subscribed => stream = <<>>
  /\ \A s \in Syncs : clean[s] => subscribed
  /\ ~missed => subscribed /\ \A s \in Syncs : spc[s] # "idle" => clean[s]

RestInv ==
  /\ ~isDraining
  /\ \A s \in Syncs :
       /\ spc[s] \notin {"lookup", "store"} => todo[s] = {} /\ fresh[s] = NewRoutingTable
       /\ spc[s] \notin {"replay", "configure"} => replayed[s] = 0
       /\ spc[s] = "idle" => ~changed[s]
       /\ replayed[s] <= Len(cachedEvents)

BaseInv == LockedInv /\ SoleSyncInv /\ RoutesInv /\ ApiInv /\ RestInv

\* What HAProxy has is in the table, unless a reload is still to come or it has
\* had it since before the process started.
LoadedInv ==
  configOK /\ ~ChangePending => loaded \subseteq Routes(table) \cup inherited

\* No tag is from the future; none of the API's present guid is newer than the
\* API's; none of a pending Delete's guid is newer than the Delete, and the API
\* has no longer that guid.  So a Delete is never refused as outdated.
TagInv ==
  /\ \A r \in Route, tag \in ModificationTag : Known(r, tag) =>
       /\ tag.guid \in 0..changes
       /\ r \in DOMAIN api /\ tag.guid = api[r].guid => tag.index <= api[r].index
  /\ \A r \in Route, d \in ModificationTag : Says(Pending, "Delete", r, d) =>
       /\ r \in DOMAIN api => api[r].guid # d.guid
       /\ \A tag \in ModificationTag :
            Known(r, tag) /\ tag.guid = d.guid => tag.index <= d.index

\* A route that is gone from the API is gone everywhere, or the last pending
\* event about it is its Delete.
StaleInv ==
  \A r \in Route \ (DOMAIN api \cup unsent) :
    (\E tag \in ModificationTag : Held(r, tag)) \/ Mentions(Pending, r)
      => Settles(Pending, r, "Delete")

\* For a route of the API the stream, and under a sync that began with the stream
\* open what is pending, ends in an Upsert if it says anything.
UpsertInv ==
  \A r \in DOMAIN api :
    /\ Mentions(stream, r) => Settles(stream, r, "Upsert")
    /\ \A s \in Syncs : spc[s] # "idle" /\ clean[s] /\ Mentions(Pending, r)
         => Settles(Pending, r, "Upsert")

\* While a sync fills its fresh table, the table has the same routes, but for the
\* one it is about to store.
StoreInv ==
  \A s \in Syncs :
    /\ spc[s] = "store" =>
         /\ upsert[s].newKey <=> upsert[s].key \notin DOMAIN table
         /\ ~upsert[s].newKey /\ ~upsert[s].write
              => <<upsert[s].key, upsert[s].backend>> \in Routes(table)
    /\ spc[s] \in {"lookup", "store"} =>
         \A r \in Routes(fresh[s]) :
           \/ r \in Routes(table)
           \/ spc[s] = "store" /\ <<upsert[s].key, upsert[s].backend>> = r

\* A sync fills its tables, and the route is among what it has or is to fill in.
Filling == \E s \in Syncs : spc[s] \in {"lookup", "store"}
Coming(r) ==
  \E s \in Syncs : /\ spc[s] \in {"lookup", "store"}
                   /\ r \in Routes(fresh[s]) \/ \E m \in todo[s] : RouteOf(m) = r
Kept(r) == IF Filling THEN Coming(r) ELSE r \in Routes(table)

\* When nothing was missed, a route of the API will be in the table.
MissingInv ==
  ~missed => \A r \in DOMAIN api : Settles(Pending, r, "Upsert") \/ Kept(r)

-----------------------------------------------------------------------------
(* Sequences of events.                                                    *)

\* An event that is sent settles its own route and says nothing of the others.
LEMMA AppendSettles ==
  ASSUME NEW q \in Seq(TcpEvent), NEW e \in TcpEvent, NEW r
  PROVE  LET n == Append(q, e)
         IN  /\ n \in Seq(TcpEvent)
             /\ RouteOf(e.mapping) = r => Settles(n, r, e.action)
             /\ RouteOf(e.mapping) # r =>
                  /\ Mentions(n, r) <=> Mentions(q, r)
                  /\ \A a : Settles(q, r, a) => Settles(n, r, a)
<1> DEFINE n == Append(q, e)
<1>1. /\ n \in Seq(TcpEvent) /\ Len(n) = Len(q) + 1 /\ Len(q) \in Nat
      /\ \A i \in 1..Len(q) : n[i] = q[i]
      /\ n[Len(q) + 1] = e
  BY AppendProperties, LenProperties
<1> HIDE DEF n
<1>2. ASSUME RouteOf(e.mapping) = r PROVE Settles(n, r, e.action)
  <2>1. Len(n) \in 1..Len(n) /\ \A j \in Len(n)..Len(n) : j = Len(n)
    BY <1>1
  <2> QED
    BY <1>1, <1>2, <2>1 DEF Settles
<1>3. ASSUME RouteOf(e.mapping) # r PROVE Mentions(n, r) <=> Mentions(q, r)
  BY <1>1, <1>3 DEF Mentions
<1>4. ASSUME RouteOf(e.mapping) # r, NEW a, Settles(q, r, a) PROVE Settles(n, r, a)
  BY <1>1, <1>4 DEF Settles
<1> QED
  BY <1>1, <1>2, <1>3, <1>4 DEF n

\* An event that is taken from the front leaves the others to settle their routes;
\* if it was the last about its route, it was the one that settled it.
LEMMA TailSettles ==
  ASSUME NEW q \in Seq(TcpEvent), q # <<>>, NEW r
  PROVE  LET n == Tail(q)
             e == Head(q)
         IN  /\ n \in Seq(TcpEvent) /\ e \in TcpEvent /\ e = q[1]
             /\ \A i \in 1..Len(n) : i + 1 \in 1..Len(q) /\ n[i] = q[i + 1]
             /\ Mentions(n, r) => Mentions(q, r)
             /\ RouteOf(e.mapping) = r => Mentions(q, r)
             /\ \A a : Settles(q, r, a) =>
                  \/ Settles(n, r, a)
                  \/ ~Mentions(n, r) /\ RouteOf(e.mapping) = r /\ e.action = a
<1> DEFINE n == Tail(q)
           e == Head(q)
<1>1. /\ n \in Seq(TcpEvent) /\ Len(q) \in Nat \ {0} /\ Len(n) = Len(q) - 1
      /\ \A i \in 1..Len(n) : n[i] = q[i + 1]
      /\ e = q[1] /\ e \in TcpEvent
  BY HeadTailProperties, EmptySeq
<1> HIDE DEF n, e
<1>2. \A i \in 1..Len(n) : i + 1 \in 1..Len(q)
  BY <1>1
<1>3. Mentions(n, r) => Mentions(q, r)
  BY <1>1, <1>2 DEF Mentions
<1>4. RouteOf(e.mapping) = r => Mentions(q, r)
  BY <1>1 DEF Mentions
<1>5. ASSUME NEW a, Settles(q, r, a)
      PROVE  \/ Settles(n, r, a)
             \/ ~Mentions(n, r) /\ RouteOf(e.mapping) = r /\ e.action = a
  <2>1. PICK i \in 1..Len(q) :
          /\ RouteOf(q[i].mapping) = r
          /\ \A j \in i..Len(q) : RouteOf(q[j].mapping) = r => q[j].action = a
    BY <1>5 DEF Settles
  <2>2. CASE i > 1
    <3>1. i - 1 \in 1..Len(n) /\ n[i - 1] = q[i]
      BY <1>1, <2>2
    <3>2. \A j \in (i - 1)..Len(n) : j + 1 \in i..Len(q) /\ n[j] = q[j + 1]
      BY <1>1, <2>2
    <3> QED
      BY <2>1, <3>1, <3>2 DEF Settles
  <2>3. CASE i = 1
    <3>1. CASE Mentions(n, r)
      <4>1. PICK k \in 1..Len(n) : RouteOf(n[k].mapping) = r
        BY <3>1 DEF Mentions
      <4>2. \A j \in k..Len(n) : j + 1 \in i..Len(q) /\ n[j] = q[j + 1]
        BY <1>1, <2>3
      <4> QED
        BY <2>1, <4>1, <4>2 DEF Settles
    <3>2. CASE ~Mentions(n, r)
      BY <1>1, <2>1, <2>3, <3>2
    <3> QED
      BY <3>1, <3>2
  <2> QED
    BY <1>1, <2>2, <2>3
<1> QED
  BY <1>1, <1>2, <1>3, <1>4, <1>5 DEF n, e

\* What is left when the stream q breaks: the events w settle a route as before,
\* unless the event that settled it was in q.
LEMMA BreakSettles ==
  ASSUME NEW w \in Seq(TcpEvent), NEW q \in Seq(TcpEvent), NEW r, NEW a,
         \A i \in 1..Len(q) : RouteOf(q[i].mapping) = r => q[i].action # a
  PROVE  /\ Mentions(w, r) => Mentions(w \o q, r)
         /\ Settles(w \o q, r, a) => Settles(w, r, a)
<1> DEFINE c == w \o q
<1>1. /\ Len(c) = Len(w) + Len(q) /\ Len(w) \in Nat /\ Len(q) \in Nat
      /\ \A i \in 1..Len(c) : c[i] = IF i <= Len(w) THEN w[i] ELSE q[i - Len(w)]
  BY ConcatProperties, LenProperties
<1> HIDE DEF c
<1>2. Mentions(w, r) => Mentions(c, r)
  BY <1>1 DEF Mentions
<1>3. ASSUME Settles(c, r, a) PROVE Settles(w, r, a)
  <2>1. PICK i \in 1..Len(c) :
          /\ RouteOf(c[i].mapping) = r
          /\ \A j \in i..Len(c) : RouteOf(c[j].mapping) = r => c[j].action = a
    BY <1>3 DEF Settles
  <2>2. i <= Len(w)
    <3> SUFFICES ASSUME i > Len(w) PROVE FALSE
      BY <1>1
    <3>1. c[i] = q[i - Len(w)] /\ i - Len(w) \in 1..Len(q)
      BY <1>1
    <3>2. i \in i..Len(c)
      BY <1>1
    <3> QED
      BY <2>1, <3>1, <3>2
  <2>3. i \in 1..Len(w) /\ c[i] = w[i]
    BY <1>1, <2>2
  <2>4. \A j \in i..Len(w) : j \in i..Len(c) /\ c[j] = w[j]
    BY <1>1, <2>2
  <2> QED
    BY <2>1, <2>3, <2>4 DEF Settles
<1> QED
  BY <1>2, <1>3 DEF c

\* What a sequence says, and what it said before an event was sent, taken or lost.
LEMMA SaysLess ==
  ASSUME NEW q \in Seq(TcpEvent), NEW action, NEW r, NEW tag
  PROVE  /\ \A e \in TcpEvent : Says(Append(q, e), action, r, tag) =>
              \/ Says(q, action, r, tag)
              \/ action = e.action /\ r = RouteOf(e.mapping) /\ tag = e.mapping.tag
         /\ q # <<>> /\ Says(Tail(q), action, r, tag) => Says(q, action, r, tag)
         /\ \A w \in Seq(TcpEvent) :
              Says(w, action, r, tag) => Says(w \o q, action, r, tag)
<1>1. ASSUME NEW e \in TcpEvent, Says(Append(q, e), action, r, tag)
      PROVE  \/ Says(q, action, r, tag)
             \/ action = e.action /\ r = RouteOf(e.mapping) /\ tag = e.mapping.tag
  <2>1. /\ Len(Append(q, e)) = Len(q) + 1 /\ Len(q) \in Nat
        /\ \A i \in 1..Len(q) : Append(q, e)[i] = q[i]
        /\ Append(q, e)[Len(q) + 1] = e
    BY AppendProperties, LenProperties
  <2> QED
    BY <1>1, <2>1 DEF Says
<1>2. ASSUME q # <<>>, Says(Tail(q), action, r, tag) PROVE Says(q, action, r, tag)
  BY <1>2, TailSettles DEF Says
<1>3. ASSUME NEW w \in Seq(TcpEvent), Says(w, action, r, tag)
      PROVE  Says(w \o q, action, r, tag)
  <2>1. /\ Len(w \o q) = Len(w) + Len(q) /\ Len(w) \in Nat /\ Len(q) \in Nat
        /\ \A i \in 1..(Len(w) + Len(q)) :
             (w \o q)[i] = IF i <= Len(w) THEN w[i] ELSE q[i - Len(w)]
    BY ConcatProperties, LenProperties
  <2>2. \A i \in 1..Len(w) : i \in 1..Len(w \o q) /\ (w \o q)[i] = w[i]
    BY <2>1
  <2> QED
    BY <1>3, <2>2 DEF Says
<1> QED
  BY <1>1, <1>2, <1>3

\* The front of the stream moves to the end of the cache.
LEMMA MoveHead ==
  ASSUME NEW w \in Seq(TcpEvent), NEW q \in Seq(TcpEvent), q # <<>>
  PROVE  Append(w, Head(q)) \o Tail(q) = w \o q
<1>1. Head(q) \in TcpEvent /\ Tail(q) \in Seq(TcpEvent) /\ q = <<Head(q)>> \o Tail(q)
  BY HeadTailProperties, EmptySeq
<1>2. <<Head(q)>> \in Seq(TcpEvent)
  BY <1>1
<1> QED
  BY <1>1, <1>2, AppendIsConcat, ConcatAssociative

\* Events are appended to the end of the stream and taken from the front of the
\* cache.
LEMMA ConcatEnds ==
  ASSUME NEW w \in Seq(TcpEvent), NEW q \in Seq(TcpEvent)
  PROVE  /\ w \o q \in Seq(TcpEvent)
         /\ \A e \in TcpEvent : Append(w \o q, e) = w \o Append(q, e)
         /\ w # <<>> => /\ w \o q # <<>>
                        /\ Head(w \o q) = Head(w) /\ Tail(w \o q) = Tail(w) \o q
<1>1. w \o q \in Seq(TcpEvent)
  BY ConcatProperties
<1>2. ASSUME NEW e \in TcpEvent PROVE Append(w \o q, e) = w \o Append(q, e)
  <2>1. <<e>> \in Seq(TcpEvent)
    OBVIOUS
  <2>2. Append(w \o q, e) = (w \o q) \o <<e>>
    BY <1>1, AppendIsConcat
  <2>3. Append(q, e) = q \o <<e>>
    BY AppendIsConcat
  <2> QED
    BY <2>1, <2>2, <2>3, ConcatAssociative
<1>3. ASSUME w # <<>>
      PROVE  /\ w \o q # <<>>
             /\ Head(w \o q) = Head(w) /\ Tail(w \o q) = Tail(w) \o q
  <2> DEFINE h == <<Head(w)>>
             c == Tail(w) \o q
  <2>1. /\ h \in Seq(TcpEvent) /\ Tail(w) \in Seq(TcpEvent) /\ w = h \o Tail(w)
        /\ Head(w) \in TcpEvent
    BY <1>3, HeadTailProperties, EmptySeq
  <2>2. c \in Seq(TcpEvent) /\ w \o q = h \o c
    BY <2>1, ConcatProperties, ConcatAssociative
  <2> HIDE DEF c
  <2>3. /\ Len(h) = 1 /\ h[1] = Head(w)
        /\ h \o c \in Seq(TcpEvent) /\ Len(h \o c) = 1 + Len(c) /\ Len(c) \in Nat
        /\ \A i \in 1..(1 + Len(c)) : (h \o c)[i] = IF i <= 1 THEN h[i] ELSE c[i - 1]
    BY <2>1, <2>2, ConcatProperties, LenProperties
  <2> HIDE DEF h
  <2>4. h \o c # <<>> /\ Head(h \o c) = Head(w)
    BY <2>3
  <2>5. Tail(h \o c) = c
    <3>1. /\ Tail(h \o c) \in Seq(TcpEvent) /\ Len(Tail(h \o c)) = Len(c)
          /\ \A i \in 1..Len(c) : Tail(h \o c)[i] = (h \o c)[i + 1]
      BY <2>3, <2>4, HeadTailProperties
    <3>2. \A i \in 1..Len(c) : Tail(h \o c)[i] = c[i]
      BY <2>3, <3>1
    <3> QED
      BY <2>2, <3>1, <3>2, SeqEqual
  <2> QED
    BY <2>2, <2>4, <2>5 DEF c
<1> QED
  BY <1>1, <1>2, <1>3

-----------------------------------------------------------------------------
(* Tables.                                                                 *)

\* An upsert as it is looked up.
LEMMA LookupTags ==
  ASSUME NEW t, IsRoutingTable(t), NEW key \in RoutingKey,
         NEW info \in BackendServerInfo, NEW time \in Nat
  PROVE  LET u == UpsertLookup(t, key, info, time)
         IN  /\ u.key = key /\ u.backend = info.backend /\ u.details.tag = info.tag
             /\ u.newKey <=> u.key \notin DOMAIN t
             /\ ~u.newKey /\ ~u.write => <<u.key, u.backend>> \in Routes(t)
<1>1. info.backend \in Backends
  BY DEF BackendServerInfo
<1> QED
  BY <1>1 DEF UpsertLookup, serverDetailsFromInfo, Routes, Route

\* Storing an upsert brings its own tag and no other, and loses no route.
LEMMA StoreTags ==
  ASSUME NEW t, IsRoutingTable(t), NEW u \in PendingUpsert,
         ~u.newKey /\ u.write => u.key \in DOMAIN t
  PROVE  LET n == UpsertStore(t, u)
         IN  /\ \A r, tag : InTable(n, r, tag) =>
                  \/ InTable(t, r, tag)
                  \/ r = <<u.key, u.backend>> /\ tag = u.details.tag
             /\ (u.newKey <=> u.key \notin DOMAIN t) =>
                  /\ Routes(t) \subseteq Routes(n)
                  /\ u.newKey \/ u.write => <<u.key, u.backend>> \in Routes(n)
<1> DEFINE n == UpsertStore(t, u)
           route == <<u.key, u.backend>>
<1>0. /\ u.key \in RoutingKey /\ u.backend \in Backends
      /\ u.newKey \in BOOLEAN /\ u.write \in BOOLEAN
      /\ route \in Route /\ route[1] = u.key /\ route[2] = u.backend
      /\ \A r \in Route : r = <<r[1], r[2]>>
  BY DEF PendingUpsert, Route
<1>1. CASE u.newKey
  <2>1. /\ DOMAIN n = DOMAIN t \cup {u.key}
        /\ DOMAIN n[u.key] = {u.backend} /\ n[u.key][u.backend] = u.details
        /\ \A k \in DOMAIN t \ {u.key} : n[k] = t[k]
    BY <1>1 DEF UpsertStore
  <2> HIDE DEF n
  <2>2. ASSUME NEW r, NEW tag, InTable(n, r, tag)
        PROVE  InTable(t, r, tag) \/ (r = route /\ tag = u.details.tag)
    BY <1>0, <2>1, <2>2 DEF InTable, Routes
  <2>3. u.key \notin DOMAIN t => Routes(t) \subseteq Routes(n)
    BY <1>0, <2>1 DEF Routes
  <2>4. route \in Routes(n)
    BY <1>0, <2>1 DEF Routes
  <2> QED
    BY <1>1, <2>2, <2>3, <2>4 DEF n
<1>2. CASE ~u.newKey /\ u.write
  <2>1. /\ DOMAIN n = DOMAIN t /\ u.key \in DOMAIN t
        /\ DOMAIN n[u.key] = DOMAIN t[u.key] \cup {u.backend}
        /\ n[u.key][u.backend] = u.details
        /\ \A b \in DOMAIN t[u.key] \ {u.backend} : n[u.key][b] = t[u.key][b]
        /\ \A k \in DOMAIN t \ {u.key} : n[k] = t[k]
    BY <1>2 DEF UpsertStore, IsRoutingTable
  <2> HIDE DEF n
  <2>2. ASSUME NEW r, NEW tag, InTable(n, r, tag)
        PROVE  InTable(t, r, tag) \/ (r = route /\ tag = u.details.tag)
    BY <1>0, <2>1, <2>2 DEF InTable, Routes
  <2>3. Routes(t) \subseteq Routes(n)
    BY <1>0, <2>1 DEF Routes
  <2>4. route \in Routes(n)
    BY <1>0, <2>1 DEF Routes
  <2> QED
    BY <2>2, <2>3, <2>4 DEF n
<1>3. CASE ~u.newKey /\ ~u.write
  BY <1>3 DEF UpsertStore
<1> QED
  BY <1>0, <1>1, <1>2, <1>3

\* Deleting brings no tag and takes no route but its own, and that one if no tag
\* in the table is newer than the one it is called with.
LEMMA DeleteTags ==
  ASSUME NEW t, IsRoutingTable(t), NEW key \in RoutingKey,
         NEW info \in BackendServerInfo, NEW time \in Nat
  PROVE  LET n     == DeleteBackendServerKey(t, key, info, time).table
             route == <<key, info.backend>>
         IN  /\ \A r, tag : InTable(n, r, tag) => InTable(t, r, tag)
             /\ Routes(t) \ {route} \subseteq Routes(n)
             /\ (\A tag \in ModificationTag : InTable(t, route, tag)
                   /\ tag.guid = info.tag.guid => tag.index <= info.tag.index)
                  => route \notin Routes(n)
<1> DEFINE n     == DeleteBackendServerKey(t, key, info, time).table
           b     == info.backend
           route == <<key, b>>
<1>0. /\ b \in Backends /\ info.tag \in ModificationTag
      /\ route \in Route /\ route[1] = key /\ route[2] = b
      /\ \A r \in Route : r = <<r[1], r[2]>>
  BY DEF BackendServerInfo, Route
<1>1. CASE DeleteApplies(t, key, info, time)
  <2>1. /\ key \in DOMAIN t /\ b \in DOMAIN t[key]
        /\ n = WithoutBackend(t, key, b)
    BY <1>1 DEF DeleteApplies, DeleteBackendServerKey
  <2>2. \/ /\ DOMAIN n = DOMAIN t \ {key} /\ DOMAIN t[key] = {b}
           /\ \A k \in DOMAIN n : n[k] = t[k]
        \/ /\ DOMAIN n = DOMAIN t
           /\ DOMAIN n[key] = DOMAIN t[key] \ {b}
           /\ \A x \in DOMAIN n[key] : n[key][x] = t[key][x]
           /\ \A k \in DOMAIN n \ {key} : n[k] = t[k]
    BY <2>1 DEF WithoutBackend, IsRoutingTable
  <2> HIDE DEF n
  <2>3. ASSUME NEW r, NEW tag, InTable(n, r, tag) PROVE InTable(t, r, tag)
    BY <2>1, <2>2, <2>3 DEF InTable, Routes
  <2>4. Routes(t) \ {route} \subseteq Routes(n)
    BY <1>0, <2>1, <2>2 DEF Routes
  <2>5. route \notin Routes(n)
    BY <1>0, <2>1, <2>2 DEF Routes
  <2> QED
    BY <2>3, <2>4, <2>5 DEF n
<1>2. CASE ~DeleteApplies(t, key, info, time)
  <2>1. n = t
    BY <1>2 DEF DeleteBackendServerKey
  <2>2. ASSUME route \in Routes(t)
        PROVE  \E tag \in ModificationTag :
                 InTable(t, route, tag) /\ tag.guid = info.tag.guid
                   /\ ~(tag.index <= info.tag.index)
    <3> DEFINE tag == t[key][b].tag
    <3>1. key \in DOMAIN t /\ b \in DOMAIN t[key] /\ tag \in ModificationTag
      BY <1>0, <2>2 DEF Routes, IsRoutingTable, RoutingTableEntry, BackendServerDetails
    <3>2. tag # info.tag /\ ~SucceededBy(tag, info.tag)
      BY <1>2, <3>1 DEF DeleteApplies, DeleteSucceededBy, serverDetailsFromInfo
    <3>3. tag.guid = info.tag.guid /\ ~(tag.index < info.tag.index)
      BY <3>2 DEF SucceededBy
    <3>4. tag.index # info.tag.index
      BY <1>0, <3>1, <3>2, <3>3 DEF ModificationTag
    <3>5. ~(tag.index <= info.tag.index)
      BY <1>0, <3>1, <3>3, <3>4 DEF ModificationTag
    <3>6. InTable(t, route, tag)
      BY <1>0, <2>2 DEF InTable
    <3> HIDE DEF tag
    <3> QED
      BY <3>1, <3>3, <3>5, <3>6
  <2> QED
    BY <2>1, <2>2
<1> QED
  BY <1>1, <1>2

\* What one event does to a table: an Upsert brings its route and its tag, a Delete
\* that is not outdated takes its route away, and no other route changes.
LEMMA EventTags ==
  ASSUME NEW t, IsRoutingTable(t), NEW e \in TcpEvent, now \in Nat
  PROVE  LET n     == handleEvent(t, e).table
             route == RouteOf(e.mapping)
         IN  /\ \A r, tag : InTable(n, r, tag) =>
                  \/ InTable(t, r, tag)
                  \/ e.action = "Upsert" /\ r = route /\ tag = e.mapping.tag
             /\ Routes(t) \ {route} \subseteq Routes(n)
             /\ e.action = "Upsert" => route \in Routes(n)
             /\ e.action = "Delete" /\
                  (\A tag \in ModificationTag : InTable(t, route, tag)
                     /\ tag.guid = e.mapping.tag.guid => tag.index <= e.mapping.tag.index)
                  => route \notin Routes(n)
<1> DEFINE key  == toRoutingKey(e.mapping)
           info == toBackendServerInfo(e.mapping)
           u    == UpsertLookup(t, key, info, now)
<1>0. /\ e.mapping \in TcpRouteMapping
      /\ e.action = "Upsert" \/ e.action = "Delete" \/ e.action = "Unknown"
  BY DEF TcpEvent
<1>1. /\ key \in RoutingKey /\ info \in BackendServerInfo
      /\ RouteOf(e.mapping) = <<key, info.backend>> /\ info.tag = e.mapping.tag
  BY <1>0, MappingType DEF RouteOf, toBackendServerInfo
<1> HIDE DEF key, info
<1>2. CASE e.action = "Upsert"
  <2>1. handleEvent(t, e).table = UpsertStore(t, u)
    BY <1>2 DEF handleEvent, UpsertBackendServerKey, key, info
  <2>2. /\ u \in PendingUpsert
        /\ u.key = key /\ u.backend = info.backend /\ u.details.tag = info.tag
        /\ u.newKey <=> u.key \notin DOMAIN t
        /\ ~u.newKey /\ ~u.write => <<u.key, u.backend>> \in Routes(t)
    BY <1>1, UpsertLookupType, LookupTags
  <2> HIDE DEF u
  <2>3. /\ \A r, tag : InTable(UpsertStore(t, u), r, tag) =>
             InTable(t, r, tag) \/ (r = <<u.key, u.backend>> /\ tag = u.details.tag)
        /\ Routes(t) \subseteq Routes(UpsertStore(t, u))
        /\ u.newKey \/ u.write => <<u.key, u.backend>> \in Routes(UpsertStore(t, u))
    BY <2>2, StoreTags
  <2> QED
    BY <1>1, <1>2, <2>1, <2>2, <2>3
<1>3. CASE e.action = "Delete"
  <2>1. handleEvent(t, e) = DeleteBackendServerKey(t, key, info, now)
    BY <1>3 DEF handleEvent, key, info
  <2> QED
    BY <1>1, <1>3, <2>1, DeleteTags
<1>4. CASE e.action = "Unknown"
  BY <1>4 DEF handleEvent
<1> QED
  BY <1>0, <1>2, <1>3, <1>4

\* The mapping the API reports of a route is about that route.
LEMMA MappingOfRoute ==
  ASSUME NEW r \in Route, NEW tag \in ModificationTag
  PROVE  /\ MappingOf(r, tag) \in TcpRouteMapping
         /\ RouteOf(MappingOf(r, tag)) = r
         /\ MappingOf(r, tag).tag = tag
<1> USE RoutingTableAssumption DEF RoutingTableAssumption, Route, RoutingKey
<1>1. MappingOf(r, tag) \in TcpRouteMapping /\ MappingOf(r, tag).tag = tag
  BY DEF MappingOf, TcpRouteMapping
<1>2. r[1] = [port |-> r[1].port, sni |-> r[1].sni] /\ r = <<r[1], r[2]>>
  OBVIOUS
<1>3. toRoutingKey(MappingOf(r, tag)) = r[1] /\ MappingOf(r, tag).backend = r[2]
  BY <1>2 DEF MappingOf, toRoutingKey
<1> QED
  BY <1>1, <1>2, <1>3 DEF RouteOf

\* Every route in a table has a tag, and a mapping is about a route.
LEMMA TableHasTag ==
  ASSUME NEW t, IsRoutingTable(t), NEW r \in Routes(t)
  PROVE  r \in Route /\ \E tag \in ModificationTag : InTable(t, r, tag)
<1>1. r \in Route /\ t[r[1]][r[2]].tag \in ModificationTag
  BY DEF Routes, IsRoutingTable, RoutingTableEntry, BackendServerDetails
<1> QED
  BY <1>1 DEF InTable

LEMMA MappingHasRoute ==
  ASSUME NEW m \in TcpRouteMapping
  PROVE  RouteOf(m) \in Route /\ m.tag \in ModificationTag
BY MappingType DEF RouteOf, Route, toBackendServerInfo, BackendServerInfo, TcpRouteMapping

-----------------------------------------------------------------------------
(* Types, and what the updater proves of itself, hold here too.            *)

\* What the API sends and returns is typed.
LEMMA ApiMappings ==
  ASSUME ApiInv
  PROVE  /\ TcpRouteMappings \subseteq TcpRouteMapping
         /\ \A m \in TcpRouteMappings :
              RouteOf(m) \in DOMAIN api /\ m.tag = api[RouteOf(m)]
         /\ \A r \in DOMAIN api : \E m \in TcpRouteMappings : RouteOf(m) = r
<1>1. \A r \in DOMAIN api :
        /\ MappingOf(r, api[r]) \in TcpRouteMapping
        /\ RouteOf(MappingOf(r, api[r])) = r
        /\ MappingOf(r, api[r]).tag = api[r]
  BY MappingOfRoute DEF ApiInv
<1> QED
  BY <1>1 DEF TcpRouteMappings

\* A step here is a step of the updater or a restart.
LEMMA SyncNextIsAny ==
  ASSUME ApiInv, [SyncNext]_allVars
  PROVE  [AnyNext]_vars \/ Restart
<1>1. ASSUME NEW r \in Route, Register(r) \/ Unregister(r) PROVE UNCHANGED vars
  BY <1>1 DEF Register, Unregister, Publish
<1>2. CASE Subscribe \/ StreamBreaks \/ UNCHANGED allVars
  BY <1>2 DEF Subscribe, StreamBreaks, allVars
<1>3. CASE ReceiveEvent
  <2>1. Head(stream) \in TcpEvent
    BY <1>3, HeadTailProperties DEF ReceiveEvent, ApiInv
  <2> QED
    BY <1>3, <2>1 DEF ReceiveEvent, AnyNext
<1>4. ASSUME NEW s \in Syncs, BeginSync(s) PROVE AnyNext
  BY <1>4 DEF BeginSync, AnyNext
<1>5. ASSUME NEW s \in Syncs, FetchMappings(s) PROVE AnyNext
  BY <1>5, ApiMappings DEF FetchMappings, AnyNext
<1>6. CASE UpdaterStep
  BY <1>6 DEF UpdaterStep, AnyNext
<1> QED
  BY <1>1, <1>2, <1>3, <1>4, <1>5, <1>6 DEF SyncNext

LEMMA ApiInvInit == SyncInit => ApiInv /\ RestInv
<1> SUFFICES ASSUME SyncInit PROVE ApiInv /\ RestInv
  OBVIOUS
<1> USE DEF SyncInit, Init
<1>1. PICK R \in SUBSET Route : api = [r \in R |-> [guid |-> 0, index |-> 0]]
  OBVIOUS
<1>2. [guid |-> 0, index |-> 0] \in ModificationTag
  BY TableSyncAssumption DEF TableSyncAssumption, ModificationTag
<1>3. ApiInv
  <2>1. /\ DOMAIN api = R /\ api \in [DOMAIN api -> ModificationTag]
        /\ \A r \in DOMAIN api : api[r].guid = 0
    BY <1>1, <1>2
  <2>2. changes = 0 /\ 0 \in 0..MaxChanges /\ 0 \in 0..changes
    BY TableSyncAssumption DEF TableSyncAssumption
  <2>3. /\ subscribed = FALSE /\ missed = TRUE /\ stream = <<>>
        /\ clean = [s \in Syncs |-> FALSE]
    OBVIOUS
  <2> QED
    BY <2>1, <2>2, <2>3, EmptySeq DEF ApiInv
<1>4. RestInv
  BY DEF RestInv
<1> QED
  BY <1>3, <1>4

\* The API's own steps.
LEMMA ApiInvPublish ==
  ASSUME ApiInv, NEW r \in Route, Register(r) \/ Unregister(r)
  PROVE  ApiInv'
<1>0. /\ UNCHANGED <<subscribed, clean, spc>>
      /\ missed' = (missed \/ ~subscribed)
      /\ changes' = changes + 1 /\ changes \in 0..MaxChanges /\ changes < MaxChanges
      /\ MaxChanges \in Nat
  BY TableSyncAssumption
  DEF Register, Unregister, Publish, vars, syncVars, ApiInv, TableSyncAssumption
<1>1. ASSUME NEW action \in {"Upsert", "Delete"}, NEW tag \in ModificationTag,
             Publish(action, r, tag)
      PROVE  stream' \in Seq(TcpEvent) /\ (~subscribed => stream' = <<>>)
  <2>1. [action |-> action, mapping |-> MappingOf(r, tag)] \in TcpEvent
    BY MappingOfRoute DEF TcpEvent
  <2> QED
    BY <1>1, <2>1, AppendProperties DEF Publish, ApiInv
<1>2. CASE Register(r)
  <2> DEFINE tag == IF r \in DOMAIN api
                    THEN [api[r] EXCEPT !.index = @ + 1]
                    ELSE [guid |-> changes + 1, index |-> 0]
  <2>1. tag \in ModificationTag /\ tag.guid \in 0..changes'
    <3>1. CASE r \in DOMAIN api
      <4>1. /\ api[r] \in ModificationTag
            /\ api[r].guid \in 0..changes
        BY <3>1 DEF ApiInv
      <4>2. tag = [api[r] EXCEPT !.index = api[r].index + 1]
        BY <3>1
      <4> QED
        BY <1>0, <4>1, <4>2 DEF ModificationTag
    <3>2. CASE r \notin DOMAIN api
      <4>1. changes + 1 \in Guids
        BY <1>0, TableSyncAssumption DEF TableSyncAssumption
      <4> QED
        BY <1>0, <3>2, <4>1 DEF ModificationTag
    <3> QED
      BY <3>1, <3>2
  <2>2. /\ api' = [x \in DOMAIN api \cup {r} |-> IF x = r THEN tag ELSE api[x]]
        /\ Publish("Upsert", r, tag)
    BY <1>2 DEF Register
  <2> HIDE DEF tag
  <2>3. stream' \in Seq(TcpEvent) /\ (~subscribed => stream' = <<>>)
    BY <1>1, <2>1, <2>2
  <2>4. /\ DOMAIN api' \subseteq Route /\ api' \in [DOMAIN api' -> ModificationTag]
        /\ \A x \in DOMAIN api' : api'[x].guid \in 0..changes'
    BY <1>0, <2>1, <2>2 DEF ApiInv
  <2> QED
    BY <1>0, <2>3, <2>4 DEF ApiInv
<1>3. CASE Unregister(r)
  <2>1. /\ api' = [x \in DOMAIN api \ {r} |-> api[x]]
        /\ Publish("Delete", r, api[r]) /\ api[r] \in ModificationTag
    BY <1>3 DEF Unregister, ApiInv
  <2>2. stream' \in Seq(TcpEvent) /\ (~subscribed => stream' = <<>>)
    BY <1>1, <2>1
  <2>3. /\ DOMAIN api' \subseteq Route /\ api' \in [DOMAIN api' -> ModificationTag]
        /\ \A x \in DOMAIN api' : api'[x].guid \in 0..changes'
    BY <1>0, <2>1 DEF ApiInv
  <2> QED
    BY <1>0, <2>2, <2>3 DEF ApiInv
<1> QED
  BY <1>2, <1>3

\* A step of the updater's own starts no sync.
LEMMA UpdaterStepRuns ==
  ASSUME TypeOK, UpdaterStep
  PROVE  \A s \in Syncs : spc'[s] # "idle" => spc[s] # "idle"
<1>1. CASE HandlerConfigure
  BY <1>1 DEF HandlerConfigure, syncVars
<1>2. ASSUME NEW s \in Syncs, SyncStep(s)
      PROVE  spc[s] # "idle" /\ \E pc : spc' = [spc EXCEPT ![s] = pc]
  BY <1>2 DEF SyncStep, SyncFetchToken, SyncFetchTokenError, SyncFetchRoutesUnauthorized,
              SyncFetchRoutesError, SyncLookup, SyncStore, SyncReplace, SyncFinish,
              SyncReplay, SyncUnchanged, SyncChanged, SyncConfigure, EndSync, TypeOK
<1> QED
  BY <1>1, <1>2 DEF UpdaterStep, TypeOK

LEMMA ApiInvStep ==
  TypeOK /\ ApiInv /\ AtMostOneSync /\ [SyncNext]_allVars => ApiInv'
<1> SUFFICES ASSUME TypeOK, ApiInv, AtMostOneSync, [SyncNext]_allVars PROVE ApiInv'
  OBVIOUS
<1>1. CASE Subscribe
  BY <1>1 DEF Subscribe, ApiInv, historyVars, vars, syncVars
<1>2. CASE StreamBreaks
  <2>1. /\ subscribed' = FALSE /\ stream' = <<>> /\ missed' = TRUE
        /\ clean' = [s \in Syncs |-> FALSE] /\ UNCHANGED <<api, changes>>
    BY <1>2 DEF StreamBreaks
  <2> QED
    BY <2>1, EmptySeq DEF ApiInv
<1>3. CASE ReceiveEvent
  <2>1. /\ Tail(stream) \in Seq(TcpEvent) /\ stream' = Tail(stream)
        /\ UNCHANGED <<api, changes, subscribed, missed, clean>>
        /\ subscribed
    BY <1>3, HeadTailProperties DEF ReceiveEvent, ApiInv, historyVars
  <2>2. UNCHANGED spc
    BY <1>3 DEF ReceiveEvent, HandleEvent, CacheEvent, ApplyEvent, syncVars
  <2> QED
    BY <2>1, <2>2 DEF ApiInv
<1>4. ASSUME NEW s \in Syncs, BeginSync(s) PROVE ApiInv'
  BY <1>4 DEF BeginSync, SyncStart, ApiInv, TypeOK
<1>5. ASSUME NEW s \in Syncs, FetchMappings(s) PROVE ApiInv'
  <2>1. /\ spc' = [spc EXCEPT ![s] = "lookup"] /\ spc[s] # "idle"
        /\ missed' = (missed /\ ~clean[s])
        /\ UNCHANGED <<api, changes, subscribed, stream, clean>>
    BY <1>5 DEF FetchMappings, SyncFetchRoutes
  <2>2. \A r \in Syncs : spc'[r] # "idle" => spc[r] # "idle"
    BY <2>1 DEF TypeOK
  <2>3. clean[s] \in BOOLEAN /\ missed \in BOOLEAN
    BY DEF ApiInv
  <2>4. ~missed' => subscribed /\ \A r \in Syncs : spc[r] # "idle" => clean[r]
    BY <2>1, <2>3 DEF ApiInv, AtMostOneSync
  <2> QED
    BY <2>1, <2>2, <2>3, <2>4 DEF ApiInv
<1>6. CASE UpdaterStep
  BY <1>6, UpdaterStepRuns DEF UpdaterStep, ApiInv
<1>7. CASE Restart
  <2>1. /\ subscribed' = FALSE /\ stream' = <<>> /\ missed' = TRUE
        /\ clean' = [s \in Syncs |-> FALSE] /\ UNCHANGED <<api, changes>>
    BY <1>7 DEF Restart
  <2> QED
    BY <2>1, EmptySeq DEF ApiInv
<1>8. CASE UNCHANGED allVars
  BY <1>8 DEF allVars, apiVars, historyVars, vars, syncVars, ApiInv
<1> QED
  BY <1>1, <1>2, <1>3, <1>4, <1>5, <1>6, <1>7, <1>8, ApiInvPublish DEF SyncNext

\* A sync leaves its locals as it found them.
LEMMA RestInvStep ==
  LockedInv /\ SoleSyncInv /\ RestInv /\ AtMostOneSync /\ AtMostOneSync'
    /\ [SyncNext]_allVars => RestInv'
<1> SUFFICES ASSUME LockedInv, SoleSyncInv, RestInv, AtMostOneSync, AtMostOneSync',
                    [SyncNext]_allVars
             PROVE  RestInv'
  OBVIOUS
<1>t. TypeOK
  BY DEF LockedInv
<1>1. CASE UNCHANGED vars
  BY <1>1 DEF RestInv, vars, fieldVars, syncVars
<1>2. CASE ReceiveEvent
  <2>1. Len(cachedEvents') >= Len(cachedEvents) /\ Len(cachedEvents) \in Nat
    <3>1. Len(Append(cachedEvents, Head(stream))) = Len(cachedEvents) + 1
      BY <1>t DEF TypeOK
    <3> QED
      BY <1>2, <1>t, <3>1 DEF ReceiveEvent, HandleEvent, CacheEvent, ApplyEvent, TypeOK
  <2>2. UNCHANGED <<isDraining, spc, todo, fresh, replayed, changed>>
    BY <1>2 DEF ReceiveEvent, HandleEvent, CacheEvent, ApplyEvent, syncVars
  <2> QED
    BY <1>t, <2>1, <2>2 DEF RestInv, TypeOK
<1>3. ASSUME NEW s \in Syncs, BeginSync(s) PROVE RestInv'
  <2>1. \A r \in Syncs : spc[r] = "idle"
    BY <1>3, <1>t DEF BeginSync, SyncStart, AtMostOneSync, TypeOK
  <2>2. \A r \in Syncs : replayed[r] = 0
    BY <2>1 DEF RestInv
  <2> QED
    BY <1>3, <1>t, <2>1, <2>2 DEF BeginSync, SyncStart, RestInv, TypeOK
<1>4. ASSUME NEW s \in Syncs, FetchMappings(s) PROVE RestInv'
  BY <1>4, <1>t DEF FetchMappings, SyncFetchRoutes, RestInv, TypeOK, fieldVars
<1>5. ASSUME NEW s \in Syncs,
             \/ SyncFetchToken(s) \/ SyncFetchTokenError(s)
             \/ SyncFetchRoutesUnauthorized(s) \/ SyncFetchRoutesError(s)
      PROVE  RestInv'
  <2>1. /\ \E pc \in {"token", "routes", "finish"} : spc' = [spc EXCEPT ![s] = pc]
        /\ spc[s] \in {"token", "routes"}
        /\ UNCHANGED <<isDraining, todo, fresh, replayed, changed, cachedEvents>>
    BY <1>5, <1>t DEF SyncFetchToken, SyncFetchTokenError, SyncFetchRoutesUnauthorized,
                      SyncFetchRoutesError, fieldVars
  <2> QED
    BY <1>t, <2>1 DEF RestInv, TypeOK
<1>6. ASSUME NEW s \in Syncs, SyncLookup(s) PROVE RestInv'
  <2>1. PICK todos, freshes :
          todo' = [todo EXCEPT ![s] = todos] /\ fresh' = [fresh EXCEPT ![s] = freshes]
    BY <1>6 DEF SyncLookup
  <2>2. /\ spc' = [spc EXCEPT ![s] = "store"] /\ spc[s] = "lookup"
        /\ UNCHANGED <<isDraining, replayed, changed, cachedEvents>>
    BY <1>6 DEF SyncLookup, fieldVars
  <2> QED
    BY <1>t, <2>1, <2>2 DEF RestInv, TypeOK
<1>7. ASSUME NEW s \in Syncs, SyncStore(s) PROVE RestInv'
  BY <1>7, <1>t DEF SyncStore, RestInv, TypeOK
<1>8. ASSUME NEW s \in Syncs, SyncReplace(s) PROVE RestInv'
  <2>1. /\ spc[s] = "lookup" /\ todo[s] = {}
        /\ spc' = [spc EXCEPT ![s] = "finish"]
        /\ fresh' = [fresh EXCEPT ![s] = NewRoutingTable]
        /\ UNCHANGED <<isDraining, todo, replayed, cachedEvents>>
        /\ \A r \in Syncs \ {s} : changed'[r] = changed[r]
    BY <1>8, <1>t DEF SyncReplace, TypeOK
  <2> QED
    BY <1>t, <2>1 DEF RestInv, TypeOK
<1>9. ASSUME NEW s \in Syncs, SyncFinish(s) \/ SyncChanged(s) PROVE RestInv'
  <2>1. /\ \E pc \in {"replay", "configure"} : spc' = [spc EXCEPT ![s] = pc]
        /\ spc[s] \in {"finish", "replay"}
        /\ UNCHANGED <<isDraining, todo, fresh, replayed, changed, cachedEvents>>
    BY <1>9, <1>t DEF SyncFinish, SyncChanged, fieldVars
  <2> QED
    BY <1>t, <2>1 DEF RestInv, TypeOK
<1>10. ASSUME NEW s \in Syncs, SyncReplay(s) PROVE RestInv'
  <2>1. /\ spc[s] = "replay" /\ replayed[s] < Len(cachedEvents)
        /\ replayed' = [replayed EXCEPT ![s] = @ + 1]
        /\ UNCHANGED <<isDraining, spc, todo, fresh, cachedEvents>>
        /\ \A r \in Syncs \ {s} : changed'[r] = changed[r]
    BY <1>10, <1>t DEF SyncReplay, TypeOK
  <2>2. Len(cachedEvents) \in Nat /\ replayed \in [Syncs -> Nat]
    BY <1>t DEF TypeOK
  <2> QED
    BY <2>1, <2>2 DEF RestInv
<1>11. ASSUME NEW s \in Syncs, SyncUnchanged(s) \/ SyncConfigure(s) PROVE RestInv'
  <2>1. \A r \in Syncs \ {s} : spc[r] = "idle"
    BY <1>11 DEF SyncUnchanged, SyncConfigure, AtMostOneSync
  <2>2. spc[s] \in {"replay", "configure"}
    BY <1>11 DEF SyncUnchanged, SyncConfigure
  <2>3. /\ cachedEvents' = <<>>
        /\ spc' = [spc EXCEPT ![s] = "idle"]
        /\ changed' = [changed EXCEPT ![s] = FALSE]
        /\ replayed' = [replayed EXCEPT ![s] = 0]
        /\ UNCHANGED <<isDraining, todo, fresh>>
    BY <1>11 DEF SyncUnchanged, SyncConfigure, EndSync
  <2> QED
    BY <1>t, <2>1, <2>2, <2>3 DEF RestInv, TypeOK
<1>12. CASE HandlerConfigure
  BY <1>12 DEF HandlerConfigure, RestInv, syncVars
<1>13. CASE Restart
  BY <1>13 DEF Restart, RestInv
<1> HIDE DEF RestInv
<1>14. CASE UpdaterStep
  BY <1>5, <1>6, <1>7, <1>8, <1>9, <1>10, <1>11, <1>12, <1>14 DEF UpdaterStep, SyncStep
<1>15. ASSUME NEW r \in Route, Register(r) \/ Unregister(r) PROVE UNCHANGED vars
  BY <1>15 DEF Register, Unregister, Publish
<1>16. ASSUME Subscribe \/ StreamBreaks \/ UNCHANGED allVars PROVE UNCHANGED vars
  BY <1>16 DEF Subscribe, StreamBreaks, allVars
<1> QED
  BY <1>1, <1>2, <1>3, <1>4, <1>13, <1>14, <1>15, <1>16 DEF SyncNext

\* A new process starts as the first one did, with HAProxy as the old one left it.
LEMMA RestartBase ==
  ASSUME LockedInv, RestInv, Restart
  PROVE  LockedInv' /\ SoleSyncInv' /\ RoutesInv'
<1> USE UpdaterAssumption, NewRoutingTableType DEF UpdaterAssumption
<1>0. TypeOK /\ ~drainMode /\ \A d \in Drains : dpc[d] \notin {"call", "configure"}
  BY DEF LockedInv, DrainInv, RestInv
<1>1. /\ IsRoutingTable(table') /\ cachedEvents' \in Seq(TcpEvent) /\ cachedEvents' = <<>>
      /\ Routes(table)' = {}
  BY DEF Restart, Routes
<1>2. /\ syncing' = FALSE /\ isDraining' = FALSE /\ forced' = FALSE
      /\ lock' = NoOne /\ wpc' = "idle"
      /\ UNCHANGED <<now, dpc, detached, loaded, drainMode, configOK>>
  BY DEF Restart, drainVars, haproxyVars
<1>3. /\ spc' \in [Syncs -> {"idle", "token", "routes", "lookup", "store",
                             "finish", "replay", "configure"}]
      /\ \A s \in Syncs : spc'[s] = "idle"
      /\ attempt' \in [Syncs -> {0, 1}]
      /\ todo' \in [Syncs -> SUBSET TcpRouteMapping]
      /\ changed' \in [Syncs -> BOOLEAN]
      /\ upsert' \in [Syncs -> PendingUpsert \cup {Nil}]
      /\ replayed' \in [Syncs -> Nat]
  BY DEF Restart
<1>4. /\ fresh' = [s \in Syncs |-> fresh'[s]]
      /\ \A s \in Syncs : IsRoutingTable(fresh'[s])
  BY DEF Restart
<1>5. TypeOK'
  BY <1>0, <1>1, <1>2, <1>3, <1>4 DEF TypeOK
<1>6. LockInv' /\ CacheOnlyWhileSyncing' /\ DrainInv'
  BY <1>0, <1>1, <1>2, <1>3 DEF LockInv, CacheOnlyWhileSyncing, DrainInv
<1>7. SoleSyncInv' /\ RoutesInv'
  BY <1>1, <1>2, <1>3 DEF SoleSyncInv, RoutesInv, Served, StoreServed
<1> QED
  BY <1>5, <1>6, <1>7 DEF LockedInv

LEMMA BaseInvInit == SyncInit => BaseInv
BY ApiInvInit, LockedInvInit, SoleSyncInvInit, RoutesInvInit DEF SyncInit, BaseInv

LEMMA BaseInvStep ==
  BaseInv /\ AtMostOneSync /\ AtMostOneSync' /\ [SyncNext]_allVars => BaseInv'
<1> SUFFICES ASSUME BaseInv, AtMostOneSync, AtMostOneSync', [SyncNext]_allVars
             PROVE  BaseInv'
  OBVIOUS
<1>1. ApiInv' /\ RestInv'
  BY ApiInvStep, RestInvStep DEF BaseInv, LockedInv
<1>2. CASE Restart
  BY <1>1, <1>2, RestartBase DEF BaseInv
<1>3. CASE [AnyNext]_vars
  BY <1>1, <1>3, LockedInvStep, SoleSyncInvStep, RoutesInvStep DEF BaseInv
<1> QED
  BY <1>2, <1>3, SyncNextIsAny DEF BaseInv

-----------------------------------------------------------------------------
(* A sync's fresh table and the table.                                     *)

\* When no sync fills its tables, or none of them is touched.
LEMMA StoreInvKept ==
  ASSUME StoreInv,
         \A s \in Syncs : spc'[s] \in {"lookup", "store"} =>
           spc'[s] = spc[s] /\ UNCHANGED <<table, upsert, fresh>>
  PROVE  StoreInv'
BY DEF StoreInv, Routes

LEMMA StoreInvInit == SyncInit => StoreInv
BY DEF SyncInit, Init, StoreInv

LEMMA StoreInvStep ==
  BaseInv /\ StoreInv /\ AtMostOneSync /\ [SyncNext]_allVars => StoreInv'
<1> SUFFICES ASSUME BaseInv, StoreInv, AtMostOneSync, [SyncNext]_allVars PROVE StoreInv'
  OBVIOUS
<1>t. TypeOK
  BY DEF BaseInv, LockedInv
<1>1. CASE UNCHANGED vars
  BY <1>1, StoreInvKept DEF vars, fieldVars, syncVars
<1>2. CASE ReceiveEvent
  <2>1. CASE CacheEvent(Head(stream))
    BY <2>1, StoreInvKept DEF CacheEvent, syncVars
  <2>2. CASE ApplyEvent(Head(stream))
    BY <2>2, StoreInvKept DEF ApplyEvent, BaseInv, SoleSyncInv
  <2> QED
    BY <1>2, <2>1, <2>2 DEF ReceiveEvent, HandleEvent
<1>3. ASSUME NEW s \in Syncs, BeginSync(s) PROVE StoreInv'
  BY <1>3, <1>t, StoreInvKept DEF BeginSync, SyncStart, TypeOK
<1>4. ASSUME NEW s \in Syncs, FetchMappings(s) PROVE StoreInv'
  <2>1. /\ spc[s] = "routes" /\ spc' = [spc EXCEPT ![s] = "lookup"]
        /\ UNCHANGED <<table, upsert, fresh>>
    BY <1>4 DEF FetchMappings, SyncFetchRoutes, fieldVars
  <2>2. Routes(fresh'[s]) = {}
    BY <2>1, NewRoutingTableType DEF BaseInv, RestInv, Routes
  <2>3. \A r \in Syncs \ {s} : spc'[r] = spc[r]
    BY <1>t, <2>1 DEF TypeOK
  <2>4. spc'[s] = "lookup"
    BY <1>t, <2>1 DEF TypeOK
  <2>5. Routes(table)' = Routes(table) /\ \A r \in Syncs : Routes(fresh'[r]) = Routes(fresh[r])
    BY <2>1 DEF Routes
  <2> QED
    BY <2>1, <2>2, <2>3, <2>4, <2>5 DEF StoreInv
<1>5. ASSUME NEW s \in Syncs,
             \/ SyncFetchToken(s) \/ SyncFetchTokenError(s)
             \/ SyncFetchRoutesUnauthorized(s) \/ SyncFetchRoutesError(s)
      PROVE  StoreInv'
  <2>1. /\ \E pc \in {"token", "routes", "finish"} : spc' = [spc EXCEPT ![s] = pc]
        /\ UNCHANGED <<table, upsert, fresh>>
    BY <1>5 DEF SyncFetchToken, SyncFetchTokenError, SyncFetchRoutesUnauthorized,
                SyncFetchRoutesError, fieldVars
  <2> QED
    BY <1>t, <2>1, StoreInvKept DEF TypeOK
<1>6. ASSUME NEW s \in Syncs, SyncLookup(s) PROVE StoreInv'
  <2>1. PICK m \in todo[s] :
          LET key  == toRoutingKey(m)
              info == toBackendServerInfo(m)
          IN  /\ upsert' = [upsert EXCEPT ![s] = UpsertLookup(table, key, info, now)]
              /\ fresh' = [fresh EXCEPT ![s] = UpsertBackendServerKey(@, key, info, now).table]
    BY <1>6 DEF SyncLookup
  <2> DEFINE key  == toRoutingKey(m)
             info == toBackendServerInfo(m)
             u    == UpsertLookup(table, key, info, now)
             f    == UpsertLookup(fresh[s], key, info, now)
             n    == UpsertStore(fresh[s], f)
  <2>2. key \in RoutingKey /\ info \in BackendServerInfo
    BY <1>t, MappingType DEF TypeOK
  <2>3. /\ u.key = key /\ u.backend = info.backend
        /\ u.newKey <=> u.key \notin DOMAIN table
        /\ ~u.newKey /\ ~u.write => <<u.key, u.backend>> \in Routes(table)
    BY <1>t, <2>2, LookupTags DEF TypeOK
  <2>4. /\ f \in PendingUpsert /\ (~f.newKey => f.key \in DOMAIN fresh[s])
        /\ f.key = key /\ f.backend = info.backend
    BY <1>t, <2>2, UpsertLookupType DEF TypeOK
  <2>5. Routes(n) \subseteq Routes(fresh[s]) \cup {<<key, info.backend>>}
    BY <1>t, <2>4, UpsertStoreRoutes DEF TypeOK
  <2>6. upsert' = [upsert EXCEPT ![s] = u] /\ fresh' = [fresh EXCEPT ![s] = n]
    BY <2>1 DEF UpsertBackendServerKey
  <2> HIDE DEF key, info, u, f, n
  <2>7. /\ table' = table /\ Routes(table)' = Routes(table)
        /\ spc[s] = "lookup" /\ spc' = [spc EXCEPT ![s] = "store"]
    BY <1>6 DEF SyncLookup, fieldVars, Routes
  <2>8. /\ upsert'[s] = u /\ fresh'[s] = n /\ spc'[s] = "store"
        /\ \A r \in Syncs \ {s} : spc'[r] = spc[r] /\ spc[r] = "idle"
    BY <1>t, <2>6, <2>7 DEF TypeOK, AtMostOneSync
  <2> QED
    BY <2>3, <2>5, <2>7, <2>8 DEF StoreInv
<1>7. ASSUME NEW s \in Syncs, SyncStore(s) PROVE StoreInv'
  <2> DEFINE u == upsert[s]
             n == UpsertStore(table, u)
  <2>1. /\ u \in PendingUpsert /\ (~u.newKey /\ u.write => u.key \in DOMAIN table)
        /\ u.newKey \in BOOLEAN /\ u.write \in BOOLEAN
        /\ spc[s] = "store"
    BY <1>7, <1>t DEF SyncStore, TypeOK, PendingUpsert
  <2>2. /\ u.newKey <=> u.key \notin DOMAIN table
        /\ ~u.newKey /\ ~u.write => <<u.key, u.backend>> \in Routes(table)
        /\ \A r \in Routes(fresh[s]) : r \in Routes(table) \/ <<u.key, u.backend>> = r
    BY <2>1 DEF StoreInv
  <2>3. /\ Routes(table) \subseteq Routes(n)
        /\ u.newKey \/ u.write => <<u.key, u.backend>> \in Routes(n)
    BY <1>t, <2>1, <2>2, StoreTags DEF TypeOK
  <2>4. table' = n /\ spc' = [spc EXCEPT ![s] = "lookup"] /\ UNCHANGED fresh
    BY <1>7 DEF SyncStore
  <2> HIDE DEF u, n
  <2>5. Routes(table)' = Routes(n) /\ Routes(fresh'[s]) = Routes(fresh[s])
    BY <2>4 DEF Routes
  <2>6. spc'[s] = "lookup" /\ \A r \in Syncs \ {s} : spc'[r] = "idle"
    BY <1>t, <2>1, <2>4 DEF TypeOK, AtMostOneSync
  <2> QED
    BY <2>1, <2>2, <2>3, <2>5, <2>6 DEF StoreInv
<1>8. ASSUME NEW s \in Syncs,
             \/ SyncReplace(s) \/ SyncFinish(s) \/ SyncReplay(s)
             \/ SyncUnchanged(s) \/ SyncChanged(s) \/ SyncConfigure(s)
      PROVE  StoreInv'
  <2>1. /\ spc[s] # "idle"
        /\ \/ UNCHANGED spc /\ spc[s] = "replay"
           \/ \E pc \in {"idle", "finish", "replay", "configure"} :
                spc' = [spc EXCEPT ![s] = pc]
    BY <1>8 DEF SyncReplace, SyncFinish, SyncReplay, SyncUnchanged, SyncChanged,
                SyncConfigure, EndSync
  <2>2. \A r \in Syncs : spc'[r] \notin {"lookup", "store"}
    BY <1>t, <2>1 DEF TypeOK, AtMostOneSync
  <2> QED
    BY <2>2, StoreInvKept
<1>9. CASE HandlerConfigure
  BY <1>9, StoreInvKept DEF HandlerConfigure, syncVars
<1>10. CASE Restart
  BY <1>10, StoreInvKept DEF Restart
<1>11. CASE UpdaterStep
  BY <1>5, <1>6, <1>7, <1>8, <1>9, <1>11 DEF UpdaterStep, SyncStep
<1>12. ASSUME NEW r \in Route, Register(r) \/ Unregister(r) PROVE UNCHANGED vars
  BY <1>12 DEF Register, Unregister, Publish
<1>13. ASSUME Subscribe \/ StreamBreaks \/ UNCHANGED allVars PROVE UNCHANGED vars
  BY <1>13 DEF Subscribe, StreamBreaks, allVars
<1> QED
  BY <1>1, <1>2, <1>3, <1>4, <1>10, <1>11, <1>12, <1>13 DEF SyncNext

-----------------------------------------------------------------------------
(* The table and HAProxy.                                                  *)

\* An event that reports no change takes no route away.
LEMMA HandleEventKeeps ==
  ASSUME NEW t, IsRoutingTable(t), NEW e \in TcpEvent, now \in Nat,
         ~handleEvent(t, e).changed
  PROVE  Routes(t) \subseteq Routes(handleEvent(t, e).table)
<1> DEFINE key  == toRoutingKey(e.mapping)
           info == toBackendServerInfo(e.mapping)
<1>0. e.action = "Upsert" \/ e.action = "Delete" \/ e.action = "Unknown"
  BY DEF TcpEvent
<1>1. CASE e.action = "Upsert"
  BY <1>1, EventTags
<1>2. CASE e.action = "Delete"
  <2>1. handleEvent(t, e) = DeleteBackendServerKey(t, key, info, now)
    BY <1>2 DEF handleEvent
  <2>2. key \in RoutingKey /\ info \in BackendServerInfo
    BY MappingType DEF TcpEvent
  <2> QED
    BY <2>1, <2>2, DeleteType
<1>3. CASE e.action = "Unknown"
  BY <1>3 DEF handleEvent
<1> QED
  BY <1>0, <1>1, <1>2, <1>3

LEMMA LoadedInvInit == SyncInit => LoadedInv
BY DEF SyncInit, Init, LoadedInv

\* A step that does not reload, and takes a route from the table only if a reload
\* is to come.
LEMMA LoadedInvKept ==
  ASSUME LoadedInv, UNCHANGED <<loaded, configOK, inherited>>,
         ~ChangePending' => ~ChangePending /\ Routes(table) \subseteq Routes(table)'
  PROVE  LoadedInv'
BY DEF LoadedInv

LEMMA LoadedInvStep == BaseInv /\ StoreInv /\ LoadedInv /\ [SyncNext]_allVars => LoadedInv'
<1> SUFFICES ASSUME BaseInv, StoreInv, LoadedInv, [SyncNext]_allVars PROVE LoadedInv'
  OBVIOUS
<1>t. TypeOK
  BY DEF BaseInv, LockedInv
<1>0. table' = table => Routes(table) \subseteq Routes(table)'
  BY DEF Routes
<1>1. ASSUME UNCHANGED vars, inherited' = inherited PROVE LoadedInv'
  BY <1>0, <1>1, LoadedInvKept
  DEF vars, fieldVars, syncVars, haproxyVars, ChangePending
<1>2. CASE ReceiveEvent
  <2>1. inherited' = inherited /\ Head(stream) \in TcpEvent
    BY <1>2, HeadTailProperties DEF ReceiveEvent, historyVars, BaseInv, ApiInv
  <2>2. CASE CacheEvent(Head(stream))
    BY <1>0, <2>1, <2>2, LoadedInvKept DEF CacheEvent, syncVars, haproxyVars, ChangePending
  <2>3. CASE ApplyEvent(Head(stream))
    <3> DEFINE r == handleEvent(table, Head(stream))
    <3>1. /\ r.changed \in BOOLEAN
          /\ ~r.changed => Routes(table) \subseteq Routes(r.table)
      BY <1>t, <2>1, HandleEventType, HandleEventKeeps DEF TypeOK
    <3>2. /\ wpc = "idle" /\ wpc' = (IF r.changed THEN "configure" ELSE "idle")
          /\ table' = r.table /\ UNCHANGED <<changed, loaded, configOK>>
      BY <2>3 DEF ApplyEvent, haproxyVars
    <3> HIDE DEF r
    <3>3. Routes(table)' = Routes(r.table)
      BY <3>2 DEF Routes
    <3> QED
      BY <2>1, <3>1, <3>2, <3>3, LoadedInvKept DEF ChangePending
  <2> QED
    BY <1>2, <2>2, <2>3 DEF ReceiveEvent, HandleEvent
<1>3. ASSUME NEW s \in Syncs, BeginSync(s) \/ FetchMappings(s) PROVE LoadedInv'
  <2>1. UNCHANGED <<table, wpc, changed, loaded, configOK, inherited>>
    BY <1>3 DEF BeginSync, FetchMappings, SyncStart, SyncFetchRoutes, fieldVars, haproxyVars
  <2> QED
    BY <1>0, <2>1, LoadedInvKept DEF ChangePending
<1>4. CASE UpdaterStep
  <2>0. loaded' = loaded => inherited' = inherited
    BY <1>4 DEF UpdaterStep
  <2>1. ASSUME NEW s \in Syncs,
               \/ SyncFetchToken(s) \/ SyncFetchTokenError(s)
               \/ SyncFetchRoutesUnauthorized(s) \/ SyncFetchRoutesError(s)
               \/ SyncLookup(s) \/ SyncFinish(s) \/ SyncChanged(s)
        PROVE  LoadedInv'
    <3>1. UNCHANGED <<table, wpc, changed, loaded, configOK>>
      BY <2>1 DEF SyncFetchToken, SyncFetchTokenError, SyncFetchRoutesUnauthorized,
                  SyncFetchRoutesError, SyncLookup, SyncFinish, SyncChanged,
                  fieldVars, haproxyVars
    <3> QED
      BY <1>0, <2>0, <3>1, LoadedInvKept DEF ChangePending
  <2>2. ASSUME NEW s \in Syncs, SyncStore(s) PROVE LoadedInv'
    <3>1. /\ upsert[s] \in PendingUpsert
          /\ ~upsert[s].newKey /\ upsert[s].write => upsert[s].key \in DOMAIN table
          /\ upsert[s].reload \in BOOLEAN /\ changed \in [Syncs -> BOOLEAN]
          /\ upsert[s].newKey <=> upsert[s].key \notin DOMAIN table
      BY <1>t, <2>2 DEF SyncStore, TypeOK, PendingUpsert, StoreInv
    <3>2. Routes(table) \subseteq Routes(UpsertStore(table, upsert[s]))
      BY <1>t, <3>1, StoreTags DEF TypeOK
    <3>3. /\ table' = UpsertStore(table, upsert[s])
          /\ changed' = [changed EXCEPT ![s] = @ \/ upsert[s].reload]
          /\ UNCHANGED <<wpc, loaded, configOK>>
      BY <2>2 DEF SyncStore, haproxyVars
    <3>4. Routes(table)' = Routes(UpsertStore(table, upsert[s]))
      BY <3>3 DEF Routes
    <3>5. ~ChangePending' => ~ChangePending
      BY <3>1, <3>3 DEF ChangePending
    <3> QED
      BY <2>0, <3>2, <3>3, <3>4, <3>5, LoadedInvKept
  <2>3. ASSUME NEW s \in Syncs, SyncReplace(s) PROVE LoadedInv'
    <3>1. /\ UNCHANGED <<wpc, loaded, configOK>>
          /\ UNCHANGED <<table, changed>> \/ changed' = [changed EXCEPT ![s] = TRUE]
      BY <2>3 DEF SyncReplace, haproxyVars
    <3>2. ~ChangePending' => ~ChangePending /\ UNCHANGED table
      BY <1>t, <3>1 DEF ChangePending, TypeOK
    <3> QED
      BY <1>0, <2>0, <3>1, <3>2, LoadedInvKept
  <2>4. ASSUME NEW s \in Syncs, SyncReplay(s) PROVE LoadedInv'
    <3> DEFINE e == cachedEvents[replayed[s] + 1]
               r == handleEvent(table, e)
    <3>1. e \in TcpEvent
      BY <1>t, <2>4 DEF SyncReplay, TypeOK
    <3>2. /\ r.changed \in BOOLEAN /\ changed \in [Syncs -> BOOLEAN]
          /\ ~r.changed => Routes(table) \subseteq Routes(r.table)
      BY <1>t, <3>1, HandleEventType, HandleEventKeeps DEF TypeOK
    <3>3. /\ changed' = [changed EXCEPT ![s] = @ \/ r.changed]
          /\ table' = r.table /\ UNCHANGED <<wpc, loaded, configOK>>
      BY <2>4 DEF SyncReplay, haproxyVars
    <3> HIDE DEF r, e
    <3>4. Routes(table)' = Routes(r.table)
      BY <3>3 DEF Routes
    <3>5. ~ChangePending' => ~ChangePending /\ ~r.changed
      BY <3>2, <3>3 DEF ChangePending
    <3> QED
      BY <2>0, <3>2, <3>3, <3>4, <3>5, LoadedInvKept
  <2>5. ASSUME NEW s \in Syncs, SyncUnchanged(s) PROVE LoadedInv'
    <3>1. /\ changed' = [changed EXCEPT ![s] = FALSE] /\ ~changed[s]
          /\ UNCHANGED <<table, wpc, loaded, configOK>>
      BY <2>5 DEF SyncUnchanged, EndSync, haproxyVars
    <3>2. ~ChangePending' => ~ChangePending
      BY <1>t, <3>1 DEF ChangePending, TypeOK
    <3> QED
      BY <1>0, <2>0, <3>1, <3>2, LoadedInvKept
  <2>6. ASSUME HandlerConfigure \/ \E s \in Syncs : SyncConfigure(s) PROVE LoadedInv'
    <3>1. configOK' => loaded' = Routes(table) /\ table' = table
      BY <2>6 DEF HandlerConfigure, SyncConfigure, Configure
    <3> QED
      BY <3>1 DEF LoadedInv, Routes
  <2> QED
    BY <1>4, <2>1, <2>2, <2>3, <2>4, <2>5, <2>6 DEF UpdaterStep, SyncStep
<1>5. CASE Restart
  BY <1>5 DEF Restart, LoadedInv, haproxyVars
<1>6. ASSUME NEW r \in Route, Register(r) \/ Unregister(r)
      PROVE  UNCHANGED vars /\ inherited' = inherited
  BY <1>6 DEF Register, Unregister, Publish
<1>7. ASSUME Subscribe \/ StreamBreaks \/ UNCHANGED allVars
      PROVE  UNCHANGED vars /\ inherited' = inherited
  BY <1>7 DEF Subscribe, StreamBreaks, allVars, apiVars, historyVars
<1> QED
  BY <1>1, <1>2, <1>3, <1>4, <1>5, <1>6, <1>7 DEF SyncNext

-----------------------------------------------------------------------------
(* What a step does to the pending events and to the tags that are held.   *)

WaitingInv ==
  /\ Waiting \in Seq(TcpEvent) /\ Pending \in Seq(TcpEvent)
  /\ lock \notin Syncs => Waiting = cachedEvents
  /\ cachedEvents = <<>> => Waiting = <<>> /\ Pending = stream

LEMMA WaitingType == BaseInv => WaitingInv
<1> SUFFICES ASSUME BaseInv PROVE WaitingInv
  OBVIOUS
<1>1. /\ cachedEvents \in Seq(TcpEvent) /\ Len(cachedEvents) \in Nat
      /\ Replayed \in Nat /\ stream \in Seq(TcpEvent)
  BY DEF BaseInv, LockedInv, ApiInv, TypeOK, Replayed
<1>2. Waiting \in Seq(TcpEvent)
  <2>1. \A i \in (Replayed + 1)..Len(cachedEvents) : cachedEvents[i] \in TcpEvent
    BY <1>1
  <2>2. Replayed + 1 \in Int /\ Len(cachedEvents) \in Int
    BY <1>1
  <2> HIDE DEF Replayed
  <2> QED
    BY <2>1, <2>2, SubSeqProperties DEF Waiting
<1>3. ASSUME lock \notin Syncs PROVE Waiting = cachedEvents
  <2>1. Replayed + 1 = 1
    BY <1>3 DEF Replayed
  <2> QED
    BY <1>1, <2>1, SubSeqFull DEF Waiting
<1>4. ASSUME cachedEvents = <<>> PROVE Waiting = <<>> /\ Pending = stream
  <2>1. Len(cachedEvents) = 0 /\ Replayed + 1 \in Int /\ 0 < Replayed + 1
    BY <1>1, <1>4
  <2>2. Waiting = <<>>
    BY <2>1, SubSeqEmpty DEF Waiting
  <2> QED
    BY <1>1, <2>2, ConcatEmptySeq DEF Pending
<1> QED
  BY <1>1, <1>2, <1>3, <1>4, ConcatProperties DEF Pending, WaitingInv

LEMMA WaitingTypeNext == BaseInv' => WaitingInv'
BY WaitingType, PTL

\* No event is cached while no sync runs.
LEMMA NothingWaits ==
  ASSUME BaseInv, ~syncing \/ \A s \in Syncs : spc[s] = "idle"
  PROVE  /\ cachedEvents = <<>> /\ Waiting = <<>> /\ Pending = stream
         /\ \A s \in Syncs : spc[s] = "idle"
<1>1. ~syncing /\ \A s \in Syncs : spc[s] = "idle"
  BY DEF BaseInv, SoleSyncInv
<1>2. cachedEvents = <<>>
  BY <1>1 DEF BaseInv, LockedInv, CacheOnlyWhileSyncing
<1> QED
  BY <1>1, <1>2, WaitingType DEF WaitingInv

\* Nothing but the tables changes what waits, as long as the cache, the mutex and
\* the place of the sync in the cache are what they are.
LEMMA PendingKept ==
  ASSUME UNCHANGED <<cachedEvents, lock, replayed>>
  PROVE  Waiting' = Waiting /\ (stream' = stream => Pending' = Pending)
BY DEF Waiting, Pending, Replayed

\* The steps that apply no event.
QuietStep(s) ==
  \/ SyncFetchToken(s) \/ SyncFetchTokenError(s)
  \/ SyncFetchRoutesUnauthorized(s) \/ SyncFetchRoutesError(s)
  \/ SyncLookup(s) \/ SyncStore(s) \/ SyncReplace(s) \/ SyncFinish(s)
  \/ SyncUnchanged(s) \/ SyncChanged(s) \/ SyncConfigure(s)

Quiet ==
  \/ ReceiveEvent /\ CacheEvent(Head(stream))
  \/ UpdaterStep /\ (HandlerConfigure \/ \E s \in Syncs : QuietStep(s))
  \/ \E s \in Syncs : BeginSync(s)
  \/ Subscribe \/ UNCHANGED allVars

\* The steps that apply one.
Applies ==
  \/ ReceiveEvent /\ ApplyEvent(Head(stream))
  \/ UpdaterStep /\ \E s \in Syncs : SyncReplay(s)

LEMMA StepCases ==
  ASSUME [SyncNext]_allVars
  PROVE  \/ \E r \in Route : Register(r) \/ Unregister(r)
         \/ StreamBreaks \/ \E s \in Syncs : FetchMappings(s)
         \/ Quiet \/ Applies \/ Restart
<1>1. CASE ReceiveEvent
  BY <1>1 DEF ReceiveEvent, HandleEvent, Quiet, Applies
<1>2. CASE UpdaterStep
  <2>1. HandlerConfigure \/ \E s \in Syncs : QuietStep(s) \/ SyncReplay(s)
    BY <1>2 DEF UpdaterStep, SyncStep, QuietStep
  <2> QED
    BY <1>2, <2>1 DEF Quiet, Applies
<1> QED
  BY <1>1, <1>2 DEF SyncNext, Quiet

\* Events only move from the stream to the cache.
LEMMA QuietPending ==
  ASSUME BaseInv, BaseInv', AtMostOneSync, AtMostOneSync', Quiet
  PROVE  Pending' = Pending
<1>t. TypeOK
  BY DEF BaseInv, LockedInv
<1>1. CASE ReceiveEvent /\ CacheEvent(Head(stream))
  <2>1. /\ stream # <<>> /\ stream' = Tail(stream) /\ stream \in Seq(TcpEvent)
        /\ lock = NoOne /\ lock' = NoOne
        /\ cachedEvents' = Append(cachedEvents, Head(stream))
        /\ cachedEvents \in Seq(TcpEvent)
    BY <1>1, <1>t DEF ReceiveEvent, CacheEvent, BaseInv, ApiInv, TypeOK
  <2>2. NoOne \notin Syncs
    BY UpdaterAssumption DEF UpdaterAssumption
  <2>3. Waiting = cachedEvents /\ Waiting' = cachedEvents'
    BY <2>1, <2>2, WaitingType, WaitingTypeNext DEF WaitingInv
  <2> QED
    BY <2>1, <2>3, MoveHead DEF Pending
<1>2. ASSUME UpdaterStep, HandlerConfigure \/ \E s \in Syncs : QuietStep(s)
      PROVE  Pending' = Pending
  <2>0. UNCHANGED stream
    BY <1>2 DEF UpdaterStep
  <2>1. CASE HandlerConfigure
    <3>1. lock = Watcher /\ lock' = NoOne /\ UNCHANGED cachedEvents
      BY <2>1 DEF HandlerConfigure, BaseInv, LockedInv, LockInv
    <3>2. Watcher \notin Syncs /\ NoOne \notin Syncs
      BY UpdaterAssumption DEF UpdaterAssumption
    <3> QED
      BY <2>0, <3>1, <3>2, WaitingType, WaitingTypeNext DEF Pending, WaitingInv
  <2>2. ASSUME NEW s \in Syncs,
               \/ SyncFetchToken(s) \/ SyncFetchTokenError(s)
               \/ SyncFetchRoutesUnauthorized(s) \/ SyncFetchRoutesError(s)
               \/ SyncLookup(s) \/ SyncStore(s) \/ SyncReplace(s) \/ SyncChanged(s)
        PROVE  Pending' = Pending
    <3>1. UNCHANGED <<cachedEvents, lock, replayed>>
      BY <2>2 DEF SyncFetchToken, SyncFetchTokenError, SyncFetchRoutesUnauthorized,
                  SyncFetchRoutesError, SyncLookup, SyncStore, SyncReplace, SyncChanged,
                  fieldVars
    <3> QED
      BY <2>0, <3>1, PendingKept
  <2>3. ASSUME NEW s \in Syncs, SyncFinish(s) PROVE Pending' = Pending
    <3>1. /\ lock = NoOne /\ lock' = s /\ replayed'[s] = 0
          /\ cachedEvents' = cachedEvents /\ cachedEvents \in Seq(TcpEvent)
      BY <1>t, <2>3 DEF SyncFinish, BaseInv, RestInv, TypeOK
    <3>2. NoOne \notin Syncs
      BY UpdaterAssumption DEF UpdaterAssumption
    <3>3. Waiting = cachedEvents
      BY <3>1, <3>2, WaitingType DEF WaitingInv
    <3>4. Waiting' = SubSeq(cachedEvents', 1, Len(cachedEvents'))
      BY <3>1 DEF Waiting, Replayed
    <3> QED
      BY <2>0, <3>1, <3>3, <3>4, SubSeqFull DEF Pending
  <2>4. ASSUME NEW s \in Syncs, SyncUnchanged(s) \/ SyncConfigure(s)
        PROVE  Pending' = Pending
    <3>1. /\ replayed[s] = Len(cachedEvents) /\ spc[s] \in {"replay", "configure"}
          /\ cachedEvents' = <<>>
      BY <2>4 DEF SyncUnchanged, SyncConfigure, EndSync, BaseInv, SoleSyncInv
    <3>2. lock = s /\ Len(cachedEvents) \in Nat
      BY <1>t, <3>1 DEF BaseInv, LockedInv, LockInv, TypeOK
    <3>3. Waiting = SubSeq(cachedEvents, Len(cachedEvents) + 1, Len(cachedEvents))
      BY <3>1, <3>2 DEF Waiting, Replayed
    <3>4. Waiting = <<>>
      BY <3>2, <3>3, SubSeqEmpty
    <3>5. Waiting' = <<>>
      BY <3>1, WaitingTypeNext DEF WaitingInv
    <3> QED
      BY <2>0, <3>4, <3>5 DEF Pending
  <2> QED
    BY <1>2, <2>1, <2>2, <2>3, <2>4 DEF QuietStep
<1>3. ASSUME NEW s \in Syncs, BeginSync(s) PROVE Pending' = Pending
  <2>1. \A r \in Syncs : spc[r] = "idle"
    BY <1>3, <1>t DEF BeginSync, SyncStart, AtMostOneSync, TypeOK
  <2>2. cachedEvents' = <<>> /\ UNCHANGED stream
    BY <1>3 DEF BeginSync, SyncStart
  <2>3. Pending = stream
    BY <2>1, NothingWaits
  <2>4. Pending' = stream'
    BY <2>2, WaitingTypeNext DEF WaitingInv
  <2> QED
    BY <2>2, <2>3, <2>4
<1>4. CASE Subscribe \/ UNCHANGED allVars
  BY <1>4, PendingKept DEF Subscribe, allVars, vars, fieldVars, syncVars, apiVars
<1> QED
  BY <1>1, <1>2, <1>3, <1>4 DEF Quiet

LEMMA HeldKept ==
  ASSUME NEW r, NEW tag, Held(r, tag)', UNCHANGED <<table, fresh, todo, upsert>>,
         \A s \in Syncs : spc'[s] = "store" => spc[s] = "store"
  PROVE  Held(r, tag)
BY DEF Held, InTable, Routes

\* Every tag comes from where it was before.
LEMMA QuietHeld ==
  ASSUME BaseInv, AtMostOneSync, Quiet, NEW r, NEW tag, Held(r, tag)'
  PROVE  Held(r, tag)
<1>t. TypeOK
  BY DEF BaseInv, LockedInv
<1>1. CASE \/ ReceiveEvent /\ CacheEvent(Head(stream))
           \/ Subscribe \/ UNCHANGED allVars \/ HandlerConfigure
  <2>1. UNCHANGED <<table, fresh, todo, upsert, spc>>
    BY <1>1 DEF CacheEvent, Subscribe, allVars, vars, fieldVars, syncVars, HandlerConfigure
  <2> QED
    BY <2>1, HeldKept
<1>2. ASSUME NEW s \in Syncs,
             \/ BeginSync(s)
             \/ SyncFetchToken(s) \/ SyncFetchTokenError(s)
             \/ SyncFetchRoutesUnauthorized(s) \/ SyncFetchRoutesError(s)
             \/ SyncFinish(s) \/ SyncUnchanged(s) \/ SyncChanged(s) \/ SyncConfigure(s)
      PROVE  Held(r, tag)
  <2>1. /\ UNCHANGED <<table, fresh, todo, upsert>>
        /\ \E pc \in {"idle", "token", "routes", "finish", "replay", "configure"} :
             spc' = [spc EXCEPT ![s] = pc]
    BY <1>2 DEF BeginSync, SyncStart, SyncFetchToken, SyncFetchTokenError,
                SyncFetchRoutesUnauthorized, SyncFetchRoutesError, SyncFinish,
                SyncUnchanged, SyncChanged, SyncConfigure, EndSync, fieldVars
  <2> QED
    BY <1>t, <2>1, HeldKept DEF TypeOK
<1>3. ASSUME NEW s \in Syncs, SyncLookup(s) PROVE Held(r, tag)
  <2>1. PICK m \in todo[s] :
          LET key  == toRoutingKey(m)
              info == toBackendServerInfo(m)
          IN  /\ todo' = [todo EXCEPT ![s] = @ \ {m}]
              /\ upsert' = [upsert EXCEPT ![s] = UpsertLookup(table, key, info, now)]
              /\ fresh' = [fresh EXCEPT ![s] = UpsertBackendServerKey(@, key, info, now).table]
    BY <1>3 DEF SyncLookup
  <2> DEFINE key  == toRoutingKey(m)
             info == toBackendServerInfo(m)
             u    == UpsertLookup(table, key, info, now)
             f    == UpsertLookup(fresh[s], key, info, now)
             n    == UpsertStore(fresh[s], f)
  <2>2. /\ key \in RoutingKey /\ info \in BackendServerInfo
        /\ RouteOf(m) = <<key, info.backend>> /\ m.tag = info.tag
    BY <1>t, MappingType DEF TypeOK, RouteOf, toBackendServerInfo
  <2> HIDE DEF key, info
  <2>0. IsRoutingTable(table) /\ IsRoutingTable(fresh[s]) /\ now \in Nat
    BY <1>t DEF TypeOK
  <2>3. /\ u \in PendingUpsert
        /\ u.key = key /\ u.backend = info.backend /\ u.details.tag = info.tag
    BY <2>0, <2>2, UpsertLookupType, LookupTags
  <2>4. /\ f \in PendingUpsert /\ (~f.newKey => f.key \in DOMAIN fresh[s])
        /\ f.key = key /\ f.backend = info.backend /\ f.details.tag = info.tag
    BY <2>0, <2>2, UpsertLookupType, LookupTags
  <2> HIDE DEF u, f
  <2>5. InTable(n, r, tag) => InTable(fresh[s], r, tag) \/ (r = RouteOf(m) /\ tag = m.tag)
    BY <2>0, <2>2, <2>4, StoreTags
  <2>6. /\ upsert' = [upsert EXCEPT ![s] = u] /\ fresh' = [fresh EXCEPT ![s] = n]
        /\ todo' = [todo EXCEPT ![s] = @ \ {m}] /\ spc' = [spc EXCEPT ![s] = "store"]
        /\ UNCHANGED table
    BY <1>3, <2>1 DEF UpsertBackendServerKey, SyncLookup, fieldVars, key, info, u, f
  <2> HIDE DEF n
  <2>7. /\ upsert'[s] = u /\ fresh'[s] = n /\ todo'[s] \subseteq todo[s]
        /\ \A q \in Syncs \ {s} : /\ upsert'[q] = upsert[q] /\ fresh'[q] = fresh[q]
                                  /\ todo'[q] = todo[q] /\ spc'[q] = spc[q]
    BY <1>t, <2>6 DEF TypeOK
  <2>8. InTable(table, r, tag)' = InTable(table, r, tag)
    BY <2>6 DEF InTable, Routes
  <2>9. ASSUME r = RouteOf(m), tag = m.tag PROVE Held(r, tag)
    BY <2>9 DEF Held
  <2>10. ASSUME NEW q \in Syncs,
                \/ InTable(fresh'[q], r, tag)
                \/ \E x \in todo'[q] : RouteOf(x) = r /\ x.tag = tag
                \/ /\ spc'[q] = "store" /\ <<upsert'[q].key, upsert'[q].backend>> = r
                   /\ upsert'[q].details.tag = tag
         PROVE  Held(r, tag)
    <3>1. CASE q = s
      BY <2>2, <2>3, <2>5, <2>7, <2>9, <2>10, <3>1 DEF Held
    <3>2. CASE q # s
      BY <2>7, <2>10, <3>2 DEF Held
    <3> QED
      BY <3>1, <3>2
  <2>11. CASE InTable(table, r, tag)
    BY <2>11 DEF Held
  <2> QED
    BY <2>8, <2>10, <2>11 DEF Held, InTable, Routes
<1>4. ASSUME NEW s \in Syncs, SyncStore(s) PROVE Held(r, tag)
  <2> DEFINE u == upsert[s]
             n == UpsertStore(table, u)
  <2>1. /\ u \in PendingUpsert /\ (~u.newKey /\ u.write => u.key \in DOMAIN table)
        /\ spc[s] = "store"
    BY <1>4, <1>t DEF SyncStore, TypeOK
  <2>2. InTable(n, r, tag) =>
          InTable(table, r, tag) \/ (r = <<u.key, u.backend>> /\ tag = u.details.tag)
    BY <1>t, <2>1, StoreTags DEF TypeOK
  <2>3. table' = n /\ spc' = [spc EXCEPT ![s] = "lookup"] /\ UNCHANGED <<fresh, todo>>
    BY <1>4 DEF SyncStore
  <2> HIDE DEF n
  <2>4. InTable(table, r, tag)' = InTable(n, r, tag)
    BY <2>3 DEF InTable, Routes
  <2>5. \A q \in Syncs : spc'[q] # "store"
    BY <1>t, <2>1, <2>3 DEF TypeOK, AtMostOneSync
  <2> QED
    BY <2>1, <2>2, <2>3, <2>4, <2>5 DEF Held, InTable, Routes
<1>5. ASSUME NEW s \in Syncs, SyncReplace(s) PROVE Held(r, tag)
  <2>1. /\ spc[s] = "lookup" /\ spc' = [spc EXCEPT ![s] = "finish"]
        /\ table' = table \/ table' = fresh[s]
        /\ fresh' = [fresh EXCEPT ![s] = NewRoutingTable] /\ UNCHANGED todo
    BY <1>5 DEF SyncReplace
  <2>2. \A q \in Syncs : spc'[q] # "store"
    BY <1>t, <2>1 DEF TypeOK, AtMostOneSync
  <2>3. ~InTable(fresh'[s], r, tag) /\ \A q \in Syncs \ {s} : fresh'[q] = fresh[q]
    BY <1>t, <2>1, NewRoutingTableType DEF TypeOK, InTable, Routes
  <2>4. InTable(table, r, tag)' => InTable(table, r, tag) \/ InTable(fresh[s], r, tag)
    BY <2>1 DEF InTable, Routes
  <2>5. ASSUME NEW q \in Syncs, InTable(fresh[q], r, tag)' PROVE InTable(fresh[q], r, tag)
    BY <2>3, <2>5 DEF InTable, Routes
  <2> QED
    BY <2>1, <2>2, <2>4, <2>5 DEF Held
<1> QED
  BY <1>1, <1>2, <1>3, <1>4, <1>5 DEF Quiet, QuietStep

\* The event that is applied is the first of the pending ones, also when the stream
\* has others that are to be applied by the watcher, and no sync is filling tables.
LEMMA AppliesFirst ==
  ASSUME BaseInv, BaseInv', AtMostOneSync, Applies
  PROVE  /\ Pending # <<>> /\ Pending' = Tail(Pending)
         /\ table' = handleEvent(table, Head(Pending)).table
         /\ stream' = stream \/ (stream # <<>> /\ stream' = Tail(stream))
         /\ \A s \in Syncs : spc[s] \notin {"lookup", "store"}
         /\ UNCHANGED <<spc, todo, fresh, api, changes, unsent, missed, clean>>
<1>t. TypeOK
  BY DEF BaseInv, LockedInv
<1>1. CASE ReceiveEvent /\ ApplyEvent(Head(stream))
  <2>1. /\ stream # <<>> /\ stream' = Tail(stream)
        /\ lock = NoOne /\ ~syncing
        /\ table' = handleEvent(table, Head(stream)).table
        /\ UNCHANGED <<cachedEvents, spc, todo, fresh, api, changes, unsent, missed, clean>>
    BY <1>1 DEF ReceiveEvent, ApplyEvent, historyVars
  <2>2. cachedEvents = <<>> /\ Pending = stream /\ \A s \in Syncs : spc[s] = "idle"
    BY <2>1, NothingWaits
  <2>3. Pending' = stream'
    BY <2>1, <2>2, WaitingTypeNext DEF WaitingInv
  <2> QED
    BY <2>1, <2>2, <2>3
<1>2. ASSUME UpdaterStep, NEW s \in Syncs, SyncReplay(s)
      PROVE  /\ Pending # <<>> /\ Pending' = Tail(Pending)
             /\ table' = handleEvent(table, Head(Pending)).table
             /\ stream' = stream \/ (stream # <<>> /\ stream' = Tail(stream))
             /\ \A q \in Syncs : spc[q] \notin {"lookup", "store"}
             /\ UNCHANGED <<spc, todo, fresh, api, changes, unsent, missed, clean>>
  <2> DEFINE n == replayed[s] + 1
             c == cachedEvents
  <2>1. /\ spc[s] = "replay" /\ replayed[s] < Len(c)
        /\ table' = handleEvent(table, c[n]).table
        /\ replayed' = [replayed EXCEPT ![s] = @ + 1]
        /\ UNCHANGED <<cachedEvents, lock, spc, todo, fresh, stream, api, changes, unsent,
                       missed, clean>>
    BY <1>2 DEF SyncReplay, UpdaterStep
  <2>2. lock = s /\ \A q \in Syncs \ {s} : spc[q] = "idle"
    BY <2>1 DEF BaseInv, LockedInv, LockInv, AtMostOneSync
  <2>3. /\ c \in Seq(TcpEvent) /\ Len(c) \in Nat /\ n \in 1..Len(c) /\ Len(c) \in n..Len(c)
        /\ replayed'[s] + 1 = n + 1
    BY <1>t, <2>1 DEF TypeOK
  <2>4. Waiting = SubSeq(c, n, Len(c)) /\ Waiting' = SubSeq(c, n + 1, Len(c))
    BY <2>1, <2>2, <2>3 DEF Waiting, Replayed
  <2> HIDE DEF n, c
  <2>5. Head(Waiting) = c[n] /\ Tail(Waiting) = Waiting'
    BY <2>3, <2>4, HeadTailOfSubSeq
  <2>6. Waiting # <<>>
    <3>1. /\ n \in Int /\ Len(c) \in Int /\ n <= Len(c) /\ Len(c) - n + 1 # 0
          /\ \A i \in n..Len(c) : c[i] \in TcpEvent
      BY <2>3
    <3>2. Len(Waiting) = Len(c) - n + 1
      BY <2>4, <3>1, SubSeqProperties
    <3> QED
      BY <3>1, <3>2
  <2>7. Waiting \in Seq(TcpEvent) /\ stream \in Seq(TcpEvent)
    BY WaitingType DEF WaitingInv, BaseInv, ApiInv
  <2>8. Pending # <<>> /\ Head(Pending) = c[n] /\ Tail(Pending) = Waiting' \o stream
    BY <2>5, <2>6, <2>7, ConcatEnds DEF Pending
  <2>9. Pending' = Waiting' \o stream
    BY <2>1 DEF Pending
  <2> QED
    BY <2>1, <2>2, <2>8, <2>9 DEF c, n
<1> QED
  BY <1>1, <1>2 DEF Applies

\* Where no sync fills its tables, only the table holds tags.
LEMMA AppliesHeld ==
  ASSUME BaseInv, BaseInv', AtMostOneSync, Applies, NEW r, NEW tag
  PROVE  /\ Held(r, tag) <=> InTable(table, r, tag)
         /\ Held(r, tag)' <=> InTable(handleEvent(table, Head(Pending)).table, r, tag)
<1>1. /\ \A s \in Syncs : spc[s] \notin {"lookup", "store"}
      /\ table' = handleEvent(table, Head(Pending)).table
      /\ UNCHANGED <<spc, todo, fresh>>
  BY AppliesFirst
<1>2. \A s \in Syncs : todo[s] = {} /\ ~InTable(fresh[s], r, tag)
  BY <1>1, NewRoutingTableType DEF BaseInv, RestInv, InTable, Routes
<1>3. Held(r, tag) <=> InTable(table, r, tag)
  BY <1>1, <1>2 DEF Held
<1>4. Held(r, tag)' <=> InTable(table, r, tag)'
  BY <1>1, <1>2 DEF Held, InTable, Routes
<1>5. InTable(table, r, tag)' <=> InTable(handleEvent(table, Head(Pending)).table, r, tag)
  BY <1>1 DEF InTable, Routes
<1> QED
  BY <1>3, <1>4, <1>5

\* A fetch brings the tags of the API.
LEMMA FetchHeld ==
  ASSUME BaseInv, NEW s \in Syncs, FetchMappings(s)
  PROVE  /\ Pending' = Pending
         /\ \A r, tag : Held(r, tag)' =>
              Held(r, tag) \/ (r \in DOMAIN api /\ tag = api[r])
<1>t. TypeOK
  BY DEF BaseInv, LockedInv
<1>1. /\ todo' = [todo EXCEPT ![s] = TcpRouteMappings]
      /\ spc' = [spc EXCEPT ![s] = "lookup"]
      /\ UNCHANGED <<table, fresh, upsert, cachedEvents, lock, replayed, stream>>
  BY DEF FetchMappings, SyncFetchRoutes, fieldVars
<1>2. \A q \in Syncs : /\ spc'[q] = "store" => spc[q] = "store"
                       /\ todo'[q] = todo[q] \/ todo'[q] = TcpRouteMappings
  BY <1>t, <1>1 DEF TypeOK
<1>3. \A m \in TcpRouteMappings : RouteOf(m) \in DOMAIN api /\ m.tag = api[RouteOf(m)]
  BY ApiMappings DEF BaseInv
<1>4. ASSUME NEW r, NEW tag, Held(r, tag)'
      PROVE  Held(r, tag) \/ (r \in DOMAIN api /\ tag = api[r])
  <2>1. CASE \E q \in Syncs : \E m \in todo'[q] : RouteOf(m) = r /\ m.tag = tag
    BY <1>2, <1>3, <2>1 DEF Held
  <2>2. CASE ~\E q \in Syncs : \E m \in todo'[q] : RouteOf(m) = r /\ m.tag = tag
    BY <1>1, <1>2, <1>4, <2>2 DEF Held, InTable, Routes
  <2> QED
    BY <2>1, <2>2
<1> QED
  BY <1>1, <1>4, PendingKept

\* Nothing is held or pending after a restart.
LEMMA RestartHeld ==
  ASSUME BaseInv', Restart
  PROVE  Pending' = <<>> /\ \A r, tag : ~Held(r, tag)'
<1>1. cachedEvents' = <<>> /\ stream' = <<>>
  BY DEF Restart
<1>2. /\ table' = NewRoutingTable
      /\ \A s \in Syncs : spc'[s] = "idle" /\ todo'[s] = {} /\ fresh'[s] = NewRoutingTable
  BY DEF Restart
<1>3. \A r, tag : ~Held(r, tag)'
  BY <1>2, NewRoutingTableType DEF Held, InTable, Routes
<1> QED
  BY <1>1, <1>3, WaitingTypeNext DEF WaitingInv

\* A change in the API is sent if the stream is open.
LEMMA PublishPending ==
  ASSUME BaseInv, NEW r \in Route, NEW tag \in ModificationTag,
         NEW action \in {"Upsert", "Delete"}, Publish(action, r, tag)
  PROVE  LET e == [action |-> action, mapping |-> MappingOf(r, tag)]
         IN  /\ e \in TcpEvent /\ e.action = action
             /\ RouteOf(e.mapping) = r /\ e.mapping.tag = tag
             /\ subscribed => /\ Pending' = Append(Pending, e)
                              /\ stream' = Append(stream, e)
             /\ ~subscribed => Pending' = Pending /\ stream' = stream
             /\ \A x, y : Held(x, y)' => Held(x, y)
             /\ changes' = changes + 1
             /\ missed' = (missed \/ ~subscribed)
             /\ UNCHANGED <<table, fresh, todo, spc, clean>>
<1> DEFINE e == [action |-> action, mapping |-> MappingOf(r, tag)]
<1>1. e \in TcpEvent /\ e.action = action /\ RouteOf(e.mapping) = r /\ e.mapping.tag = tag
  BY MappingOfRoute DEF TcpEvent
<1>2. /\ UNCHANGED <<table, fresh, todo, upsert, spc, cachedEvents, lock, replayed, clean>>
      /\ stream' = IF subscribed THEN Append(stream, e) ELSE stream
      /\ changes' = changes + 1 /\ missed' = (missed \/ ~subscribed)
  BY DEF Publish, vars, fieldVars, syncVars
<1> HIDE DEF e
<1>3. Waiting' = Waiting
  BY <1>2, PendingKept
<1>4. Waiting \in Seq(TcpEvent) /\ stream \in Seq(TcpEvent)
  BY WaitingType DEF WaitingInv, BaseInv, ApiInv
<1>5. subscribed => Pending' = Append(Pending, e)
  BY <1>1, <1>2, <1>3, <1>4, ConcatEnds DEF Pending
<1>6. ~subscribed => Pending' = Pending
  BY <1>2, <1>3 DEF Pending
<1>7. \A x, y : Held(x, y)' => Held(x, y)
  BY <1>2, HeldKept
<1> QED
  BY <1>1, <1>2, <1>5, <1>6, <1>7 DEF e

\* A stream that breaks takes its events with it.
LEMMA BreakPending ==
  ASSUME BaseInv, BaseInv', StreamBreaks
  PROVE  /\ Waiting \in Seq(TcpEvent) /\ stream \in Seq(TcpEvent)
         /\ Pending = Waiting \o stream /\ Pending' = Waiting
         /\ \A x, y : Held(x, y)' => Held(x, y)
<1>1. /\ UNCHANGED <<table, fresh, todo, upsert, spc, cachedEvents, lock, replayed>>
      /\ stream' = <<>>
  BY DEF StreamBreaks, vars, fieldVars, syncVars
<1>2. Waiting' = Waiting
  BY <1>1, PendingKept
<1>3. Waiting \in Seq(TcpEvent) /\ stream \in Seq(TcpEvent)
  BY WaitingType DEF WaitingInv, BaseInv, ApiInv
<1>4. Pending' = Waiting \o <<>>
  BY <1>1, <1>2 DEF Pending
<1>5. \A x, y : Held(x, y)' => Held(x, y)
  BY <1>1, HeldKept
<1> QED
  BY <1>3, <1>4, <1>5, ConcatEmptySeq DEF Pending

-----------------------------------------------------------------------------
(* Modification tags: a Delete is never refused.                           *)

LEMMA TagInvInit == SyncInit => TagInv
<1> SUFFICES ASSUME SyncInit PROVE TagInv
  OBVIOUS
<1>1. Pending = <<>>
  <2>1. cachedEvents = <<>> /\ stream = <<>>
    BY DEF SyncInit, Init
  <2> QED
    BY <2>1, BaseInvInit, WaitingType DEF WaitingInv
<1>2. /\ table = NewRoutingTable
      /\ \A s \in Syncs : spc[s] = "idle" /\ todo[s] = {} /\ fresh[s] = NewRoutingTable
  BY DEF SyncInit, Init
<1>3. \A r, tag : ~Held(r, tag)
  BY <1>2, NewRoutingTableType DEF Held, InTable, Routes
<1>4. Len(Pending) = 0
  BY <1>1
<1> QED
  BY <1>3, <1>4 DEF TagInv, Known, Says

\* The API is as before, and what is known is known before or the API's.
LEMMA TagInvKept ==
  ASSUME BaseInv, TagInv, UNCHANGED <<api, changes>>,
         \A r \in Route, tag \in ModificationTag : Known(r, tag)' =>
           Known(r, tag) \/ (r \in DOMAIN api /\ tag = api[r]),
         \A r \in Route, d \in ModificationTag :
           Says(Pending, "Delete", r, d)' => Says(Pending, "Delete", r, d)
  PROVE  TagInv'
<1>0. \A r \in DOMAIN api : api[r] \in ModificationTag /\ api[r].guid \in 0..changes
  BY DEF BaseInv, ApiInv
<1>1. ASSUME NEW r \in Route, NEW tag \in ModificationTag, Known(r, tag)'
      PROVE  /\ tag.guid \in 0..changes'
             /\ r \in DOMAIN api' /\ tag.guid = api'[r].guid => tag.index <= api'[r].index
  <2>1. CASE Known(r, tag)
    BY <2>1 DEF TagInv
  <2>2. CASE r \in DOMAIN api /\ tag = api[r]
    BY <1>0, <2>2 DEF ModificationTag
  <2> QED
    BY <1>1, <2>1, <2>2
<1>2. ASSUME NEW r \in Route, NEW d \in ModificationTag, Says(Pending, "Delete", r, d)'
      PROVE  /\ r \in DOMAIN api' => api'[r].guid # d.guid
             /\ \A tag \in ModificationTag :
                  Known(r, tag)' /\ tag.guid = d.guid => tag.index <= d.index
  BY <1>2 DEF TagInv
<1> QED
  BY <1>1, <1>2 DEF TagInv

\* A new tag: the next index of the route's guid, or a guid no tag has had.
LEMMA TagInvRegister ==
  ASSUME BaseInv, TagInv, NEW r \in Route, Register(r)
  PROVE  TagInv'
<1> DEFINE tag == IF r \in DOMAIN api
                  THEN [api[r] EXCEPT !.index = @ + 1]
                  ELSE [guid |-> changes + 1, index |-> 0]
<1>1. /\ api' = [x \in DOMAIN api \cup {r} |-> IF x = r THEN tag ELSE api[x]]
      /\ Publish("Upsert", r, tag)
  BY DEF Register
<1>2. /\ changes \in Nat /\ changes' = changes + 1
      /\ \A x \in DOMAIN api : api[x] \in ModificationTag /\ api[x].guid \in 0..changes
  BY <1>1 DEF BaseInv, ApiInv, Publish
<1>3. /\ tag \in ModificationTag
      /\ r \in DOMAIN api => tag.guid = api[r].guid /\ tag.index = api[r].index + 1
      /\ r \notin DOMAIN api => tag.guid = changes + 1
  <2>1. CASE r \in DOMAIN api
    BY <1>2, <2>1 DEF ModificationTag
  <2>2. CASE r \notin DOMAIN api
    <3>1. changes + 1 \in Guids
      BY <1>1, <1>2, TableSyncAssumption
      DEF TableSyncAssumption, Publish, BaseInv, ApiInv
    <3> QED
      BY <2>2, <3>1 DEF ModificationTag
  <2> QED
    BY <2>1, <2>2
<1> HIDE DEF tag
<1> DEFINE e == [action |-> "Upsert", mapping |-> MappingOf(r, tag)]
<1>4. /\ e \in TcpEvent /\ e.action = "Upsert"
      /\ RouteOf(e.mapping) = r /\ e.mapping.tag = tag
      /\ Pending' = Append(Pending, e) \/ Pending' = Pending
      /\ \A x, y : Held(x, y)' => Held(x, y)
  BY <1>1, <1>3, PublishPending DEF BaseInv, ApiInv
<1> HIDE DEF e
<1>5. Pending \in Seq(TcpEvent)
  BY WaitingType DEF WaitingInv
<1>6. ASSUME NEW x, NEW y, NEW a, Says(Pending, a, x, y)'
      PROVE  Says(Pending, a, x, y) \/ (a = "Upsert" /\ x = r /\ y = tag)
  <2>1. Says(Pending', a, x, y)
    BY <1>6 DEF Says
  <2> QED
    BY <1>4, <1>5, <2>1, SaysLess
<1>7. ASSUME NEW x, NEW y, Known(x, y)' PROVE Known(x, y) \/ (x = r /\ y = tag)
  BY <1>4, <1>6, <1>7 DEF Known
<1>8. ASSUME NEW x \in Route, NEW y \in ModificationTag, Known(x, y)'
      PROVE  /\ y.guid \in 0..changes'
             /\ x \in DOMAIN api' /\ y.guid = api'[x].guid => y.index <= api'[x].index
  <2>1. CASE x = r /\ y = tag
    <3>1. api'[x] = tag /\ tag.guid \in 0..changes' /\ tag.index \in Nat
      BY <1>1, <1>2, <1>3, <2>1 DEF ModificationTag
    <3> QED
      BY <2>1, <3>1
  <2>2. CASE x = r /\ Known(x, y)
    <3>1. api'[x] = tag /\ y.guid \in 0..changes /\ y.index \in Nat
      BY <1>1, <2>2 DEF TagInv, ModificationTag
    <3>2. CASE r \in DOMAIN api
      <4>1. y.guid = api[r].guid => y.index <= api[r].index
        BY <2>2, <3>2 DEF TagInv
      <4>2. api[r].index \in Nat
        BY <1>2, <3>2 DEF ModificationTag
      <4> QED
        BY <1>2, <1>3, <3>1, <3>2, <4>1, <4>2
    <3>3. CASE r \notin DOMAIN api
      BY <1>2, <1>3, <3>1, <3>3
    <3> QED
      BY <3>2, <3>3
  <2>3. CASE x # r
    <3>1. Known(x, y)
      BY <1>7, <1>8, <2>3
    <3>2. x \in DOMAIN api' => x \in DOMAIN api /\ api'[x] = api[x]
      BY <1>1, <2>3
    <3>3. y.guid \in 0..changes
      BY <3>1 DEF TagInv
    <3> QED
      BY <1>2, <3>1, <3>2, <3>3 DEF TagInv
  <2> QED
    BY <1>7, <1>8, <2>1, <2>2, <2>3
<1>9. ASSUME NEW x \in Route, NEW d \in ModificationTag, Says(Pending, "Delete", x, d)'
      PROVE  /\ x \in DOMAIN api' => api'[x].guid # d.guid
             /\ \A y \in ModificationTag :
                  Known(x, y)' /\ y.guid = d.guid => y.index <= d.index
  <2>1. Says(Pending, "Delete", x, d)
    BY <1>6, <1>9
  <2>2. Known(x, d)
    BY <2>1 DEF Known
  <2>3. d.guid \in 0..changes
    BY <2>2 DEF TagInv
  <2>4. x = r => tag.guid # d.guid
    <3>1. CASE r \in DOMAIN api
      BY <1>3, <2>1, <3>1 DEF TagInv
    <3>2. CASE r \notin DOMAIN api
      BY <1>2, <1>3, <2>3, <3>2
    <3> QED
      BY <3>1, <3>2
  <2>5. x \in DOMAIN api' => api'[x].guid # d.guid
    BY <1>1, <2>1, <2>4 DEF TagInv
  <2>6. ASSUME NEW y \in ModificationTag, Known(x, y)', y.guid = d.guid
        PROVE  y.index <= d.index
    <3>1. Known(x, y)
      BY <1>7, <2>4, <2>6
    <3> QED
      BY <2>1, <2>6, <3>1 DEF TagInv
  <2> QED
    BY <2>5, <2>6
<1> QED
  BY <1>8, <1>9 DEF TagInv

\* A Delete carries the API's last tag, which no tag of that guid exceeds.
LEMMA TagInvUnregister ==
  ASSUME BaseInv, TagInv, NEW r \in Route, Unregister(r)
  PROVE  TagInv'
<1> DEFINE tag == api[r]
<1>1. /\ r \in DOMAIN api /\ api' = [x \in DOMAIN api \ {r} |-> api[x]]
      /\ Publish("Delete", r, tag)
  BY DEF Unregister
<1>2. /\ changes \in Nat /\ changes' = changes + 1
      /\ tag \in ModificationTag /\ tag.guid \in 0..changes
  BY <1>1 DEF BaseInv, ApiInv, Publish
<1> DEFINE e == [action |-> "Delete", mapping |-> MappingOf(r, tag)]
<1>3. /\ e \in TcpEvent /\ e.action = "Delete"
      /\ RouteOf(e.mapping) = r /\ e.mapping.tag = tag
      /\ Pending' = Append(Pending, e) \/ Pending' = Pending
      /\ \A x, y : Held(x, y)' => Held(x, y)
  BY <1>1, <1>2, PublishPending DEF BaseInv, ApiInv
<1> HIDE DEF e, tag
<1>4. Pending \in Seq(TcpEvent)
  BY WaitingType DEF WaitingInv
<1>5. ASSUME NEW x, NEW y, NEW a, Says(Pending, a, x, y)'
      PROVE  Says(Pending, a, x, y) \/ (a = "Delete" /\ x = r /\ y = tag)
  <2>1. Says(Pending', a, x, y)
    BY <1>5 DEF Says
  <2> QED
    BY <1>3, <1>4, <2>1, SaysLess
<1>6. ASSUME NEW x, NEW y, Known(x, y)' PROVE Known(x, y) \/ (x = r /\ y = tag)
  BY <1>3, <1>5, <1>6 DEF Known
<1>7. ASSUME NEW x \in Route, NEW y \in ModificationTag, Known(x, y)'
      PROVE  /\ y.guid \in 0..changes'
             /\ x \in DOMAIN api' /\ y.guid = api'[x].guid => y.index <= api'[x].index
  <2>1. y.guid \in 0..changes
    BY <1>2, <1>6, <1>7 DEF TagInv
  <2>2. x \in DOMAIN api' => x \in DOMAIN api /\ x # r /\ api'[x] = api[x]
    BY <1>1
  <2> QED
    BY <1>2, <1>6, <1>7, <2>1, <2>2 DEF TagInv
<1>8. ASSUME NEW x \in Route, NEW d \in ModificationTag, Says(Pending, "Delete", x, d)'
      PROVE  /\ x \in DOMAIN api' => api'[x].guid # d.guid
             /\ \A y \in ModificationTag :
                  Known(x, y)' /\ y.guid = d.guid => y.index <= d.index
  <2>1. CASE Says(Pending, "Delete", x, d)
    <3>1. x \in DOMAIN api' => api'[x].guid # d.guid
      BY <1>1, <2>1 DEF TagInv
    <3>2. ASSUME NEW y \in ModificationTag, Known(x, y)', y.guid = d.guid
          PROVE  y.index <= d.index
      <4>1. Known(x, y)
        BY <1>1, <1>6, <2>1, <3>2 DEF TagInv, tag
      <4> QED
        BY <2>1, <3>2, <4>1 DEF TagInv
    <3> QED
      BY <3>1, <3>2
  <2>2. CASE x = r /\ d = tag
    <3>1. x \notin DOMAIN api'
      BY <1>1, <2>2
    <3>2. ASSUME NEW y \in ModificationTag, Known(x, y)', y.guid = d.guid
          PROVE  y.index <= d.index
      <4>1. CASE Known(x, y)
        BY <1>1, <2>2, <3>2, <4>1 DEF TagInv, tag
      <4>2. CASE y = tag
        BY <1>2, <2>2, <4>2 DEF ModificationTag
      <4> QED
        BY <1>6, <3>2, <4>1, <4>2
    <3> QED
      BY <3>1, <3>2
  <2> QED
    BY <1>5, <1>8, <2>1, <2>2
<1> QED
  BY <1>7, <1>8 DEF TagInv

LEMMA TagInvStep ==
  BaseInv /\ BaseInv' /\ TagInv /\ AtMostOneSync /\ AtMostOneSync' /\ [SyncNext]_allVars
    => TagInv'
<1> SUFFICES ASSUME BaseInv, BaseInv', TagInv, AtMostOneSync, AtMostOneSync',
                    [SyncNext]_allVars
             PROVE  TagInv'
  OBVIOUS
<1>0. Pending \in Seq(TcpEvent)
  BY WaitingType DEF WaitingInv
<1>1. CASE Quiet
  <2>1. Pending' = Pending /\ UNCHANGED <<api, changes>>
    BY <1>1, QuietPending
    DEF Quiet, ReceiveEvent, UpdaterStep, BeginSync, Subscribe, allVars, apiVars
  <2>2. \A a, r, tag : Says(Pending, a, r, tag)' => Says(Pending, a, r, tag)
    BY <2>1 DEF Says
  <2>3. \A r, tag : Known(r, tag)' => Known(r, tag)
    BY <1>1, <2>2, QuietHeld DEF Known
  <2> QED
    BY <2>1, <2>2, <2>3, TagInvKept
<1>2. CASE Applies
  <2> DEFINE e == Head(Pending)
             t == handleEvent(table, e).table
  <2>1. Pending # <<>> /\ Pending' = Tail(Pending) /\ UNCHANGED <<api, changes>>
    BY <1>2, AppliesFirst
  <2>2. e \in TcpEvent /\ e = Pending[1] /\ 1 \in 1..Len(Pending)
    BY <1>0, <2>1, TailSettles, EmptySeq
  <2>3. \A a, r, tag : Says(Pending, a, r, tag)' => Says(Pending, a, r, tag)
    <3> SUFFICES ASSUME NEW a, NEW r, NEW tag, Says(Pending, a, r, tag)'
                 PROVE  Says(Pending, a, r, tag)
      OBVIOUS
    <3>1. Says(Tail(Pending), a, r, tag)
      BY <2>1 DEF Says
    <3> QED
      BY <1>0, <2>1, <3>1, SaysLess
  <2>4. \A r, tag : InTable(t, r, tag) =>
          \/ InTable(table, r, tag)
          \/ e.action = "Upsert" /\ r = RouteOf(e.mapping) /\ tag = e.mapping.tag
    BY <2>2, EventTags DEF BaseInv, LockedInv, TypeOK
  <2>5. \A r, tag : Held(r, tag)' => Known(r, tag)
    <3> SUFFICES ASSUME NEW r, NEW tag, Held(r, tag)' PROVE Known(r, tag)
      OBVIOUS
    <3>1. InTable(t, r, tag)
      BY <1>2, AppliesHeld
    <3>2. CASE InTable(table, r, tag)
      BY <1>2, <3>2, AppliesHeld DEF Known
    <3>3. CASE e.action = "Upsert" /\ r = RouteOf(e.mapping) /\ tag = e.mapping.tag
      <4>1. Says(Pending, "Upsert", r, tag)
        BY <2>2, <3>3 DEF Says
      <4> QED
        BY <4>1 DEF Known
    <3> QED
      BY <2>4, <3>1, <3>2, <3>3
  <2> HIDE DEF e, t
  <2>6. \A r, tag : Known(r, tag)' => Known(r, tag)
    BY <2>3, <2>5 DEF Known
  <2> QED
    BY <2>1, <2>3, <2>6, TagInvKept
<1>3. ASSUME NEW s \in Syncs, FetchMappings(s) PROVE TagInv'
  <2>1. UNCHANGED <<api, changes>> /\ Pending' = Pending
    BY <1>3, FetchHeld DEF FetchMappings
  <2>2. \A a, r, tag : Says(Pending, a, r, tag)' => Says(Pending, a, r, tag)
    BY <2>1 DEF Says
  <2>3. \A r, tag : Known(r, tag)' => Known(r, tag) \/ (r \in DOMAIN api /\ tag = api[r])
    BY <1>3, <2>2, FetchHeld DEF Known
  <2> QED
    BY <2>1, <2>2, <2>3, TagInvKept
<1>4. CASE StreamBreaks
  <2>1. UNCHANGED <<api, changes>>
    BY <1>4 DEF StreamBreaks
  <2>2. \A a, r, tag : Says(Pending, a, r, tag)' => Says(Pending, a, r, tag)
    <3> SUFFICES ASSUME NEW a, NEW r, NEW tag, Says(Pending, a, r, tag)'
                 PROVE  Says(Pending, a, r, tag)
      OBVIOUS
    <3>1. Says(Waiting, a, r, tag)
      BY <1>4, BreakPending DEF Says
    <3>2. Says(Waiting \o stream, a, r, tag)
      BY <1>4, <3>1, BreakPending, SaysLess
    <3> QED
      BY <3>2 DEF Pending
  <2>3. \A r, tag : Known(r, tag)' => Known(r, tag)
    BY <1>4, <2>2, BreakPending DEF Known
  <2> QED
    BY <2>1, <2>2, <2>3, TagInvKept
<1>5. CASE Restart
  <2>1. Len(Pending)' = 0 /\ UNCHANGED <<api, changes>>
    BY <1>5, RestartHeld DEF Restart
  <2>2. \A a, r, tag : ~Says(Pending, a, r, tag)'
    BY <2>1 DEF Says
  <2>3. \A r, tag : ~Known(r, tag)'
    BY <1>5, <2>2, RestartHeld DEF Known
  <2> QED
    BY <2>1, <2>2, <2>3, TagInvKept
<1> QED
  BY <1>1, <1>2, <1>3, <1>4, <1>5, StepCases, TagInvRegister, TagInvUnregister

-----------------------------------------------------------------------------
(* Routes that are gone from the API.                                      *)

LEMMA StaleInvInit == SyncInit => StaleInv
<1> SUFFICES ASSUME SyncInit PROVE StaleInv
  OBVIOUS
<1>1. cachedEvents = <<>> /\ stream = <<>>
  BY DEF SyncInit, Init
<1>2. Len(Pending) = 0
  BY <1>1, BaseInvInit, WaitingType DEF WaitingInv
<1>3. /\ table = NewRoutingTable
      /\ \A s \in Syncs : spc[s] = "idle" /\ todo[s] = {} /\ fresh[s] = NewRoutingTable
  BY DEF SyncInit, Init
<1>4. \A r, tag : ~Held(r, tag)
  BY <1>3, NewRoutingTableType DEF Held, InTable, Routes
<1> QED
  BY <1>2, <1>4 DEF StaleInv, Mentions

\* A change in the API to another route.
LEMMA StaleInvPublish ==
  ASSUME BaseInv, StaleInv, NEW r \in Route, NEW tag \in ModificationTag,
         NEW action \in {"Upsert", "Delete"}, Publish(action, r, tag),
         NEW x \in Route \ (DOMAIN api \cup unsent), x # r,
         (\E y \in ModificationTag : Held(x, y)') \/ Mentions(Pending, x)'
  PROVE  Settles(Pending, x, "Delete")'
<1> DEFINE e == [action |-> action, mapping |-> MappingOf(r, tag)]
<1>1. /\ e \in TcpEvent /\ RouteOf(e.mapping) = r
      /\ Pending' = Append(Pending, e) \/ Pending' = Pending
      /\ \A y, z : Held(y, z)' => Held(y, z)
  <2>1. e \in TcpEvent /\ RouteOf(e.mapping) = r
    BY MappingOfRoute DEF TcpEvent
  <2>2. Pending' = Append(Pending, e) \/ Pending' = Pending
    BY PublishPending
  <2>3. \A y, z : Held(y, z)' => Held(y, z)
    BY PublishPending
  <2> QED
    BY <2>1, <2>2, <2>3
<1> HIDE DEF e
<1>2. Pending \in Seq(TcpEvent)
  BY WaitingType DEF WaitingInv
<1>3. CASE Pending' = Append(Pending, e)
  <2>1. /\ Mentions(Append(Pending, e), x) => Mentions(Pending, x)
        /\ Settles(Pending, x, "Delete") => Settles(Append(Pending, e), x, "Delete")
    BY <1>1, <1>2, AppendSettles
  <2>2. Mentions(Pending, x)' => Mentions(Pending, x)
    BY <1>3, <2>1 DEF Mentions
  <2>3. Settles(Append(Pending, e), x, "Delete")
    BY <1>1, <2>1, <2>2 DEF StaleInv
  <2> QED
    BY <1>3, <2>3 DEF Settles
<1>4. CASE Pending' = Pending
  BY <1>1, <1>4 DEF StaleInv, Mentions, Settles
<1> QED
  BY <1>1, <1>3, <1>4

LEMMA StaleInvStep ==
  BaseInv /\ BaseInv' /\ TagInv /\ StaleInv /\ AtMostOneSync /\ AtMostOneSync'
    /\ [SyncNext]_allVars => StaleInv'
<1> SUFFICES ASSUME BaseInv, BaseInv', TagInv, StaleInv, AtMostOneSync, AtMostOneSync',
                    [SyncNext]_allVars,
                    NEW r \in Route, r \notin DOMAIN api', r \notin unsent',
                    (\E tag \in ModificationTag : Held(r, tag)') \/ Mentions(Pending, r)'
             PROVE  Settles(Pending, r, "Delete")'
  BY DEF StaleInv
<1>0. Pending \in Seq(TcpEvent)
  BY WaitingType DEF WaitingInv
<1>1. CASE Quiet
  <2>1. Pending' = Pending /\ UNCHANGED <<api, unsent>>
    BY <1>1, QuietPending
    DEF Quiet, ReceiveEvent, UpdaterStep, BeginSync, Subscribe, allVars, apiVars, historyVars
  <2>2. (\E tag \in ModificationTag : Held(r, tag)) \/ Mentions(Pending, r)
    BY <1>1, <2>1, QuietHeld DEF Mentions
  <2>3. Settles(Pending, r, "Delete")
    BY <2>1, <2>2 DEF StaleInv
  <2> QED
    BY <2>1, <2>3 DEF Settles
<1>2. CASE Applies
  <2> DEFINE e == Head(Pending)
             n == Tail(Pending)
             t == handleEvent(table, e).table
  <2>1. Pending # <<>> /\ Pending' = n /\ UNCHANGED <<api, unsent>>
    BY <1>2, AppliesFirst
  <2>2. /\ e \in TcpEvent /\ e = Pending[1] /\ 1 \in 1..Len(Pending)
        /\ Mentions(n, r) => Mentions(Pending, r)
        /\ RouteOf(e.mapping) = r => Mentions(Pending, r)
        /\ Settles(Pending, r, "Delete") =>
             \/ Settles(n, r, "Delete")
             \/ ~Mentions(n, r) /\ RouteOf(e.mapping) = r /\ e.action = "Delete"
    BY <1>0, <2>1, TailSettles, EmptySeq
  <2>3. /\ \A tag : InTable(t, r, tag) => InTable(table, r, tag) \/ r = RouteOf(e.mapping)
        /\ /\ e.action = "Delete" /\ RouteOf(e.mapping) = r
           /\ \A tag \in ModificationTag : InTable(table, r, tag)
                /\ tag.guid = e.mapping.tag.guid => tag.index <= e.mapping.tag.index
           => r \notin Routes(t)
    <3>1. IsRoutingTable(table) /\ now \in Nat
      BY DEF BaseInv, LockedInv, TypeOK
    <3> HIDE DEF e
    <3> QED
      BY <2>2, <3>1, EventTags
  <2>4. \A tag : /\ Held(r, tag) <=> InTable(table, r, tag)
                 /\ Held(r, tag)' <=> InTable(t, r, tag)
    BY <1>2, AppliesHeld
  <2>5. Mentions(Pending, r)' <=> Mentions(n, r)
    BY <2>1 DEF Mentions
  <2>6. Settles(Pending, r, "Delete")
    BY <2>1, <2>2, <2>3, <2>4, <2>5 DEF StaleInv
  <2> HIDE DEF e, n, t
  <2>7. Settles(n, r, "Delete")
    <3> SUFFICES ASSUME ~Mentions(n, r), RouteOf(e.mapping) = r, e.action = "Delete"
                 PROVE  FALSE
      BY <2>2, <2>6
    <3>1. Says(Pending, "Delete", r, e.mapping.tag)
      BY <2>2 DEF Says
    <3>2. e.mapping.tag \in ModificationTag
      BY <2>2, MappingHasRoute DEF TcpEvent
    <3>3. ASSUME NEW tag \in ModificationTag, InTable(table, r, tag),
                 tag.guid = e.mapping.tag.guid
          PROVE  tag.index <= e.mapping.tag.index
      BY <2>4, <3>1, <3>2, <3>3 DEF TagInv, Known
    <3>4. r \notin Routes(t)
      BY <2>3, <3>3
    <3>5. \E tag : InTable(t, r, tag)
      BY <2>4, <2>5
    <3> QED
      BY <3>4, <3>5 DEF InTable
  <2> QED
    BY <2>1, <2>7 DEF Settles
<1>3. ASSUME NEW s \in Syncs, FetchMappings(s) PROVE Settles(Pending, r, "Delete")'
  <2>1. UNCHANGED <<api, unsent>> /\ Pending' = Pending
    BY <1>3, FetchHeld DEF FetchMappings
  <2>2. (\E tag \in ModificationTag : Held(r, tag)) \/ Mentions(Pending, r)
    BY <1>3, <2>1, FetchHeld DEF Mentions
  <2>3. Settles(Pending, r, "Delete")
    BY <2>1, <2>2 DEF StaleInv
  <2> QED
    BY <2>1, <2>3 DEF Settles
<1>4. CASE StreamBreaks
  <2>1. /\ Waiting \in Seq(TcpEvent) /\ stream \in Seq(TcpEvent)
        /\ Pending = Waiting \o stream /\ Pending' = Waiting
        /\ \A x, y : Held(x, y)' => Held(x, y)
    BY <1>4, BreakPending
  <2>2. /\ UNCHANGED api /\ r \notin unsent
        /\ \A i \in 1..Len(stream) : RouteOf(stream[i].mapping) = r => stream[i].action # "Delete"
    BY <1>4, <2>1, LenProperties DEF StreamBreaks, RouteOf
  <2>3. /\ Mentions(Waiting, r) => Mentions(Pending, r)
        /\ Settles(Pending, r, "Delete") => Settles(Waiting, r, "Delete")
    BY <2>1, <2>2, BreakSettles
  <2>4. Mentions(Pending, r)' <=> Mentions(Waiting, r)
    BY <2>1 DEF Mentions
  <2>5. Settles(Waiting, r, "Delete")
    BY <2>1, <2>2, <2>3, <2>4 DEF StaleInv
  <2> QED
    BY <2>1, <2>5 DEF Settles
<1>5. CASE Restart
  <2>1. Len(Pending)' = 0 /\ \A tag : ~Held(r, tag)'
    BY <1>5, RestartHeld
  <2> QED
    BY <2>1 DEF Mentions
<1>6. ASSUME NEW x \in Route, Register(x) PROVE Settles(Pending, r, "Delete")'
  <2>1. PICK tag : /\ api' = [y \in DOMAIN api \cup {x} |-> IF y = x THEN tag ELSE api[y]]
                   /\ Publish("Upsert", x, tag) /\ UNCHANGED unsent
    BY <1>6 DEF Register
  <2>2. tag \in ModificationTag /\ r # x /\ r \notin DOMAIN api
    BY <2>1 DEF BaseInv, ApiInv
  <2> QED
    BY <2>1, <2>2, StaleInvPublish
<1>7. ASSUME NEW x \in Route, Unregister(x) PROVE Settles(Pending, r, "Delete")'
  <2>1. /\ x \in DOMAIN api /\ api' = [y \in DOMAIN api \ {x} |-> api[y]]
        /\ Publish("Delete", x, api[x]) /\ api[x] \in ModificationTag
        /\ unsent' = IF subscribed THEN unsent ELSE unsent \cup {x}
    BY <1>7 DEF Unregister, BaseInv, ApiInv
  <2>2. CASE r # x
    <3>1. r \notin DOMAIN api /\ r \notin unsent
      BY <2>1, <2>2
    <3> QED
      BY <2>1, <2>2, <3>1, StaleInvPublish
  <2>3. CASE r = x
    <3> DEFINE e == [action |-> "Delete", mapping |-> MappingOf(x, api[x])]
    <3>1. subscribed
      BY <2>1, <2>3
    <3>2. /\ e \in TcpEvent /\ e.action = "Delete" /\ RouteOf(e.mapping) = x
          /\ Pending' = Append(Pending, e)
      BY <2>1, <3>1, PublishPending
    <3> HIDE DEF e
    <3>3. Settles(Append(Pending, e), r, "Delete")
      BY <1>0, <2>3, <3>2, AppendSettles
    <3> QED
      BY <3>2, <3>3 DEF Settles
  <2> QED
    BY <2>2, <2>3
<1> QED
  BY <1>1, <1>2, <1>3, <1>4, <1>5, <1>6, <1>7, StepCases

\* A route that is gone from the API is gone from the table and from HAProxy once
\* all is idle, unless its own Delete was lost or HAProxy has had it since before
\* the process started; in whatever order events, fetches, breaks and restarts came
\* (HandleEvent, Sync, Watcher.Run).
THEOREM StaleRoutesGo == SyncSpec /\ []AtMostOneSync => []NoStaleRoute
<1>1. BaseInv /\ StaleInv /\ LoadedInv => NoStaleRoute
  <2> SUFFICES ASSUME BaseInv, StaleInv, LoadedInv, Idle
               PROVE  /\ Routes(table) \subseteq DOMAIN api \cup unsent
                      /\ loaded \subseteq DOMAIN api \cup unsent \cup inherited
    BY DEF NoStaleRoute
  <2>1. Len(Pending) = 0
    BY NothingWaits DEF Idle
  <2>2. ASSUME NEW r \in Routes(table) PROVE r \in DOMAIN api \cup unsent
    <3>1. r \in Route /\ \E tag \in ModificationTag : Held(r, tag)
      BY TableHasTag DEF Held, BaseInv, LockedInv, TypeOK
    <3>2. ~Settles(Pending, r, "Delete")
      BY <2>1 DEF Settles
    <3> QED
      BY <3>1, <3>2 DEF StaleInv
  <2>3. loaded \subseteq Routes(table) \cup inherited
    BY DEF Idle, BaseInv, RestInv, LoadedInv, ChangePending
  <2> QED
    BY <2>2, <2>3
<1> QED
  BY <1>1, BaseInvInit, BaseInvStep, StoreInvInit, StoreInvStep, LoadedInvInit, LoadedInvStep,
     TagInvInit, TagInvStep, StaleInvInit, StaleInvStep, PTL DEF SyncSpec

-----------------------------------------------------------------------------
(* Routes of the API.                                                      *)

\* Taking an event from the front does not unsettle what it settled.
LEMMA TailUpsert ==
  ASSUME NEW q \in Seq(TcpEvent), q # <<>>, NEW r, NEW a,
         Mentions(q, r) => Settles(q, r, a), Mentions(Tail(q), r)
  PROVE  Settles(Tail(q), r, a)
BY TailSettles

LEMMA UpsertInvInit == SyncInit => UpsertInv
<1> SUFFICES ASSUME SyncInit PROVE UpsertInv
  OBVIOUS
<1>1. Len(stream) = 0 /\ \A s \in Syncs : spc[s] = "idle"
  BY DEF SyncInit, Init
<1> QED
  BY <1>1 DEF UpsertInv, Mentions

\* A change in the API is sent at the end of the stream.
LEMMA UpsertInvPublish ==
  ASSUME BaseInv, UpsertInv, NEW r \in Route, NEW tag \in ModificationTag,
         NEW action \in {"Upsert", "Delete"}, Publish(action, r, tag),
         \/ action = "Upsert" /\ DOMAIN api' = DOMAIN api \cup {r}
         \/ DOMAIN api' = DOMAIN api \ {r}
  PROVE  UpsertInv'
<1> DEFINE e == [action |-> action, mapping |-> MappingOf(r, tag)]
<1>1. /\ e \in TcpEvent /\ e.action = action /\ RouteOf(e.mapping) = r
      /\ subscribed => Pending' = Append(Pending, e) /\ stream' = Append(stream, e)
      /\ ~subscribed => Pending' = Pending /\ stream' = stream
      /\ UNCHANGED <<spc, clean>>
  <2>1. e \in TcpEvent /\ e.action = action /\ RouteOf(e.mapping) = r
    BY MappingOfRoute DEF TcpEvent
  <2>2. subscribed => Pending' = Append(Pending, e)
    BY PublishPending
  <2>3. ~subscribed => Pending' = Pending
    BY PublishPending
  <2>4. /\ stream' = IF subscribed THEN Append(stream, e) ELSE stream
        /\ UNCHANGED <<spc, clean>>
    BY DEF Publish, vars, syncVars
  <2> QED
    BY <2>1, <2>2, <2>3, <2>4
<1> HIDE DEF e
<1>2. /\ Pending \in Seq(TcpEvent) /\ stream \in Seq(TcpEvent)
      /\ ~subscribed => stream = <<>>
      /\ \A s \in Syncs : clean[s] => subscribed
  BY WaitingType DEF WaitingInv, BaseInv, ApiInv
<1> SUFFICES ASSUME NEW x \in DOMAIN api'
             PROVE  /\ Mentions(stream, x)' => Settles(stream, x, "Upsert")'
                    /\ \A s \in Syncs :
                         spc'[s] # "idle" /\ clean'[s] /\ Mentions(Pending, x)'
                           => Settles(Pending, x, "Upsert")'
  BY DEF UpsertInv
<1>3. \/ x \in DOMAIN api /\ x # r
      \/ x = r /\ action = "Upsert"
  OBVIOUS
<1>4. CASE subscribed
  <2>1. ASSUME NEW q \in Seq(TcpEvent), Mentions(Append(q, e), x),
               x \in DOMAIN api => (Mentions(q, x) => Settles(q, x, "Upsert"))
        PROVE  Settles(Append(q, e), x, "Upsert")
    <3>1. CASE x = r
      BY <1>1, <1>3, <2>1, <3>1, AppendSettles
    <3>2. CASE x # r
      BY <1>1, <1>3, <2>1, <3>2, AppendSettles
    <3> QED
      BY <3>1, <3>2
  <2>2. Mentions(stream, x)' => Settles(stream, x, "Upsert")'
    <3> SUFFICES ASSUME Mentions(stream, x)' PROVE Settles(stream, x, "Upsert")'
      OBVIOUS
    <3>1. Mentions(Append(stream, e), x)
      BY <1>1, <1>4 DEF Mentions
    <3>2. Settles(Append(stream, e), x, "Upsert")
      BY <1>2, <2>1, <3>1 DEF UpsertInv
    <3> QED
      BY <1>1, <1>4, <3>2 DEF Settles
  <2>3. ASSUME NEW s \in Syncs, spc'[s] # "idle", clean'[s], Mentions(Pending, x)'
        PROVE  Settles(Pending, x, "Upsert")'
    <3>1. Mentions(Append(Pending, e), x)
      BY <1>1, <1>4, <2>3 DEF Mentions
    <3>2. Settles(Append(Pending, e), x, "Upsert")
      BY <1>1, <1>2, <2>1, <2>3, <3>1 DEF UpsertInv
    <3> QED
      BY <1>1, <1>4, <3>2 DEF Settles
  <2> QED
    BY <2>2, <2>3
<1>5. CASE ~subscribed
  <2>1. Len(stream') = 0
    BY <1>1, <1>2, <1>5
  <2> QED
    BY <1>1, <1>2, <1>5, <2>1 DEF Mentions
<1> QED
  BY <1>4, <1>5

LEMMA UpsertInvStep ==
  BaseInv /\ BaseInv' /\ UpsertInv /\ AtMostOneSync /\ AtMostOneSync'
    /\ [SyncNext]_allVars => UpsertInv'
<1> SUFFICES ASSUME BaseInv, BaseInv', UpsertInv, AtMostOneSync, AtMostOneSync',
                    [SyncNext]_allVars
             PROVE  UpsertInv'
  OBVIOUS
<1>t. TypeOK
  BY DEF BaseInv, LockedInv
<1>0. Pending \in Seq(TcpEvent) /\ stream \in Seq(TcpEvent)
  BY WaitingType DEF WaitingInv, BaseInv, ApiInv
<1>s. ASSUME stream' = stream \/ (stream # <<>> /\ stream' = Tail(stream)),
             NEW r \in DOMAIN api, Mentions(stream, r)'
      PROVE  Settles(stream, r, "Upsert")'
  <2>1. CASE stream' = stream
    BY <1>s, <2>1 DEF UpsertInv, Mentions, Settles
  <2>2. CASE stream # <<>> /\ stream' = Tail(stream)
    <3>1. Mentions(Tail(stream), r)
      BY <1>s, <2>2 DEF Mentions
    <3>2. Settles(Tail(stream), r, "Upsert")
      BY <1>0, <2>2, <3>1, TailUpsert DEF UpsertInv
    <3> QED
      BY <2>2, <3>2 DEF Settles
  <2> QED
    BY <1>s, <2>1, <2>2
<1>1. CASE Quiet
  <2>1. /\ Pending' = Pending /\ UNCHANGED api
        /\ stream' = stream \/ (stream # <<>> /\ stream' = Tail(stream))
    BY <1>1, QuietPending
    DEF Quiet, ReceiveEvent, UpdaterStep, BeginSync, Subscribe, allVars, apiVars
  <2>2. ASSUME NEW s \in Syncs, spc'[s] # "idle", clean'[s]
        PROVE  (spc[s] # "idle" /\ clean[s]) \/ Pending = stream
    <3>1. CASE \E q \in Syncs : BeginSync(q)
      <4>1. \A q \in Syncs : spc[q] = "idle"
        BY <1>t, <3>1 DEF BeginSync, SyncStart, AtMostOneSync, TypeOK
      <4> QED
        BY <4>1, NothingWaits
    <3>2. CASE UpdaterStep
      BY <1>t, <2>2, <3>2, UpdaterStepRuns DEF UpdaterStep
    <3>3. CASE \/ ReceiveEvent /\ CacheEvent(Head(stream))
               \/ Subscribe \/ UNCHANGED allVars
      BY <2>2, <3>3
      DEF ReceiveEvent, CacheEvent, Subscribe, allVars, apiVars, historyVars, vars, syncVars
    <3> QED
      BY <1>1, <3>1, <3>2, <3>3 DEF Quiet
  <2>3. ASSUME NEW s \in Syncs, spc'[s] # "idle", clean'[s],
               NEW r \in DOMAIN api, Mentions(Pending, r)'
        PROVE  Settles(Pending, r, "Upsert")'
    <3>1. Mentions(Pending, r)
      BY <2>1, <2>3 DEF Mentions
    <3>2. Settles(Pending, r, "Upsert")
      BY <2>2, <2>3, <3>1 DEF UpsertInv
    <3> QED
      BY <2>1, <3>2 DEF Settles
  <2> QED
    BY <1>s, <2>1, <2>3 DEF UpsertInv
<1>2. CASE Applies
  <2>1. /\ Pending # <<>> /\ Pending' = Tail(Pending) /\ UNCHANGED <<api, spc, clean>>
        /\ stream' = stream \/ (stream # <<>> /\ stream' = Tail(stream))
    BY <1>2, AppliesFirst
  <2>2. ASSUME NEW s \in Syncs, spc'[s] # "idle", clean'[s],
               NEW r \in DOMAIN api, Mentions(Pending, r)'
        PROVE  Settles(Pending, r, "Upsert")'
    <3>1. Mentions(Tail(Pending), r)
      BY <2>1, <2>2 DEF Mentions
    <3>2. Mentions(Pending, r) => Settles(Pending, r, "Upsert")
      BY <2>1, <2>2 DEF UpsertInv
    <3>3. Settles(Tail(Pending), r, "Upsert")
      BY <1>0, <2>1, <3>1, <3>2, TailUpsert
    <3> QED
      BY <2>1, <3>3 DEF Settles
  <2> QED
    BY <1>s, <2>1, <2>2 DEF UpsertInv
<1>3. ASSUME NEW s \in Syncs, FetchMappings(s) PROVE UpsertInv'
  <2>1. Pending' = Pending /\ UNCHANGED <<api, stream, clean>>
    BY <1>3, FetchHeld DEF FetchMappings
  <2>2. \A q \in Syncs : spc'[q] # "idle" => spc[q] # "idle"
    BY <1>3, <1>t DEF FetchMappings, SyncFetchRoutes, TypeOK
  <2> QED
    BY <2>1, <2>2 DEF UpsertInv, Mentions, Settles
<1>4. CASE StreamBreaks \/ Restart
  <2>1. Len(stream') = 0 /\ \A s \in Syncs : ~clean'[s]
    BY <1>4 DEF StreamBreaks, Restart
  <2> QED
    BY <2>1 DEF UpsertInv, Mentions
<1>5. ASSUME NEW r \in Route, Register(r) PROVE UpsertInv'
  <2>1. PICK tag : /\ api' = [y \in DOMAIN api \cup {r} |-> IF y = r THEN tag ELSE api[y]]
                   /\ Publish("Upsert", r, tag)
    BY <1>5 DEF Register
  <2>2. tag \in ModificationTag
    BY <2>1 DEF BaseInv, ApiInv
  <2> QED
    BY <2>1, <2>2, UpsertInvPublish
<1>6. ASSUME NEW r \in Route, Unregister(r) PROVE UpsertInv'
  <2>1. /\ api' = [y \in DOMAIN api \ {r} |-> api[y]]
        /\ Publish("Delete", r, api[r]) /\ api[r] \in ModificationTag
    BY <1>6 DEF Unregister, BaseInv, ApiInv
  <2> QED
    BY <2>1, UpsertInvPublish
<1> QED
  BY <1>1, <1>2, <1>3, <1>4, <1>5, <1>6, StepCases

LEMMA KeptKept ==
  ASSUME UNCHANGED <<table, fresh, todo>>, NEW r, Kept(r),
         \A s \in Syncs : spc'[s] \in {"lookup", "store"} <=> spc[s] \in {"lookup", "store"}
  PROVE  Kept(r)'
BY DEF Kept, Filling, Coming, Routes

\* A step that applies no event keeps a route: a sync moves it from the fetch to its
\* fresh table, and the table it leaves behind has what the fresh one has.
LEMMA QuietKept ==
  ASSUME BaseInv, StoreInv, AtMostOneSync, Quiet, NEW r, Kept(r)
  PROVE  Kept(r)'
<1>t. TypeOK
  BY DEF BaseInv, LockedInv
<1>1. CASE \/ ReceiveEvent /\ CacheEvent(Head(stream))
           \/ Subscribe \/ UNCHANGED allVars \/ HandlerConfigure
  <2>1. UNCHANGED <<table, fresh, todo, spc>>
    BY <1>1 DEF CacheEvent, Subscribe, allVars, vars, fieldVars, syncVars, HandlerConfigure
  <2> QED
    BY <2>1, KeptKept
<1>2. ASSUME NEW s \in Syncs,
             \/ BeginSync(s)
             \/ SyncFetchToken(s) \/ SyncFetchTokenError(s)
             \/ SyncFetchRoutesUnauthorized(s) \/ SyncFetchRoutesError(s)
             \/ SyncFinish(s) \/ SyncUnchanged(s) \/ SyncChanged(s) \/ SyncConfigure(s)
      PROVE  Kept(r)'
  <2>1. /\ UNCHANGED <<table, fresh, todo>> /\ spc[s] \notin {"lookup", "store"}
        /\ \E pc \in {"idle", "token", "routes", "finish", "replay", "configure"} :
             spc' = [spc EXCEPT ![s] = pc]
    BY <1>2 DEF BeginSync, SyncStart, SyncFetchToken, SyncFetchTokenError,
                SyncFetchRoutesUnauthorized, SyncFetchRoutesError, SyncFinish,
                SyncUnchanged, SyncChanged, SyncConfigure, EndSync, fieldVars
  <2>2. \A q \in Syncs : spc'[q] \in {"lookup", "store"} <=> spc[q] \in {"lookup", "store"}
    BY <1>t, <2>1 DEF TypeOK
  <2> QED
    BY <2>1, <2>2, KeptKept
<1>3. ASSUME NEW s \in Syncs, spc[s] \in {"lookup", "store"}
      PROVE  /\ r \in Routes(fresh[s]) \/ \E m \in todo[s] : RouteOf(m) = r
             /\ \A q \in Syncs \ {s} : spc[q] = "idle"
  BY <1>3 DEF Kept, Filling, Coming, AtMostOneSync
<1>4. ASSUME NEW s \in Syncs, SyncLookup(s) PROVE Kept(r)'
  <2>1. PICK m \in todo[s] :
          LET key  == toRoutingKey(m)
              info == toBackendServerInfo(m)
          IN  /\ todo' = [todo EXCEPT ![s] = @ \ {m}]
              /\ fresh' = [fresh EXCEPT ![s] = UpsertBackendServerKey(@, key, info, now).table]
    BY <1>4 DEF SyncLookup
  <2> DEFINE key  == toRoutingKey(m)
             info == toBackendServerInfo(m)
             f    == UpsertLookup(fresh[s], key, info, now)
             n    == UpsertStore(fresh[s], f)
  <2>2. /\ key \in RoutingKey /\ info \in BackendServerInfo
        /\ RouteOf(m) = <<key, info.backend>>
    BY <1>t, MappingType DEF TypeOK, RouteOf, toBackendServerInfo
  <2>3. /\ fresh' = [fresh EXCEPT ![s] = n] /\ todo' = [todo EXCEPT ![s] = @ \ {m}]
        /\ spc[s] = "lookup" /\ spc' = [spc EXCEPT ![s] = "store"]
    BY <1>4, <2>1 DEF UpsertBackendServerKey, SyncLookup
  <2> HIDE DEF key, info
  <2>0. IsRoutingTable(fresh[s]) /\ now \in Nat
    BY <1>t DEF TypeOK
  <2>4. f \in PendingUpsert /\ (~f.newKey => f.key \in DOMAIN fresh[s])
    BY <2>0, <2>2, UpsertLookupType
  <2>5. /\ f.key = key /\ f.backend = info.backend
        /\ f.newKey <=> f.key \notin DOMAIN fresh[s]
        /\ ~f.newKey /\ ~f.write => <<f.key, f.backend>> \in Routes(fresh[s])
    BY <2>0, <2>2, LookupTags
  <2> HIDE DEF f
  <2>6. /\ Routes(fresh[s]) \subseteq Routes(n)
        /\ f.newKey \/ f.write => <<f.key, f.backend>> \in Routes(n)
    BY <2>0, <2>4, <2>5, StoreTags
  <2> HIDE DEF n
  <2>7. RouteOf(m) \in Routes(n)
    BY <2>2, <2>4, <2>5, <2>6 DEF PendingUpsert
  <2>8. fresh'[s] = n /\ todo'[s] = todo[s] \ {m} /\ spc'[s] = "store"
    BY <1>t, <2>3 DEF TypeOK
  <2>9. r \in Routes(n) \/ \E x \in todo'[s] : RouteOf(x) = r
    BY <1>3, <2>3, <2>6, <2>7, <2>8
  <2>10. Filling' /\ Coming(r)'
    BY <2>8, <2>9 DEF Filling, Coming, Routes
  <2> QED
    BY <2>10 DEF Kept
<1>5. ASSUME NEW s \in Syncs, SyncStore(s) PROVE Kept(r)'
  <2>1. /\ spc[s] = "store" /\ spc' = [spc EXCEPT ![s] = "lookup"]
        /\ UNCHANGED <<fresh, todo>>
    BY <1>5 DEF SyncStore
  <2>2. spc'[s] = "lookup"
    BY <1>t, <2>1 DEF TypeOK
  <2>3. Filling' /\ Coming(r)'
    BY <1>3, <2>1, <2>2 DEF Filling, Coming, Routes
  <2> QED
    BY <2>3 DEF Kept
<1>6. ASSUME NEW s \in Syncs, SyncReplace(s) PROVE Kept(r)'
  <2>1. /\ spc[s] = "lookup" /\ spc' = [spc EXCEPT ![s] = "finish"] /\ todo[s] = {}
        /\ table' = table \/ table' = fresh[s]
    BY <1>6 DEF SyncReplace
  <2>2. r \in Routes(fresh[s])
    BY <1>3, <2>1
  <2>3. r \in Routes(table)
    BY <2>1, <2>2 DEF StoreInv
  <2>4. ~Filling'
    BY <1>3, <1>t, <2>1 DEF TypeOK, Filling
  <2> QED
    BY <2>1, <2>2, <2>3, <2>4 DEF Kept, Routes
<1> QED
  BY <1>1, <1>2, <1>4, <1>5, <1>6 DEF Quiet, QuietStep

\* When nothing was missed, what is pending about a route of the API ends in an
\* Upsert: a running sync began with the stream open, and without one only the
\* stream is pending.
LEMMA PendingUpserts ==
  ASSUME BaseInv, UpsertInv, ~missed, NEW r \in DOMAIN api, Mentions(Pending, r)
  PROVE  Settles(Pending, r, "Upsert")
<1>1. CASE \E s \in Syncs : spc[s] # "idle"
  BY <1>1 DEF BaseInv, ApiInv, UpsertInv
<1>2. CASE \A s \in Syncs : spc[s] = "idle"
  <2>1. Pending = stream
    BY <1>2, NothingWaits
  <2>2. Mentions(stream, r)
    BY <2>1
  <2>3. Settles(stream, r, "Upsert")
    BY <2>2 DEF UpsertInv
  <2> QED
    BY <2>1, <2>3
<1> QED
  BY <1>1, <1>2

\* A change that is sent leaves what is kept, and settles what is registered.
LEMMA MissingInvPublish ==
  ASSUME BaseInv, MissingInv, NEW r \in Route, NEW tag \in ModificationTag,
         NEW action \in {"Upsert", "Delete"}, Publish(action, r, tag),
         \/ action = "Upsert" /\ DOMAIN api' = DOMAIN api \cup {r}
         \/ DOMAIN api' = DOMAIN api \ {r}
  PROVE  MissingInv'
<1> SUFFICES ASSUME ~missed', NEW x \in DOMAIN api'
             PROVE  Settles(Pending, x, "Upsert")' \/ Kept(x)'
  BY DEF MissingInv
<1> DEFINE e == [action |-> action, mapping |-> MappingOf(r, tag)]
<1>1. e \in TcpEvent /\ e.action = action /\ RouteOf(e.mapping) = r
  BY MappingOfRoute DEF TcpEvent
<1>2. /\ ~missed /\ subscribed
      /\ UNCHANGED <<table, fresh, todo, spc>>
  BY DEF Publish, vars, fieldVars, syncVars
<1>3. Pending' = Append(Pending, e)
  BY <1>2, PublishPending
<1>4. Pending \in Seq(TcpEvent)
  BY WaitingType DEF WaitingInv
<1> HIDE DEF e
<1>5. \/ x \in DOMAIN api /\ x # r
      \/ x = r /\ action = "Upsert"
  OBVIOUS
<1>6. CASE x = r
  <2>1. Settles(Append(Pending, e), x, "Upsert")
    BY <1>1, <1>4, <1>5, <1>6, AppendSettles
  <2> QED
    BY <1>3, <2>1 DEF Settles
<1>7. CASE x # r /\ Settles(Pending, x, "Upsert")
  <2>1. Settles(Append(Pending, e), x, "Upsert")
    BY <1>1, <1>4, <1>7, AppendSettles
  <2> QED
    BY <1>3, <2>1 DEF Settles
<1>8. CASE x # r /\ Kept(x)
  BY <1>2, <1>8, KeptKept
<1> QED
  BY <1>2, <1>5, <1>6, <1>7, <1>8 DEF MissingInv

LEMMA MissingInvStep ==
  BaseInv /\ BaseInv' /\ StoreInv /\ UpsertInv /\ MissingInv
    /\ AtMostOneSync /\ AtMostOneSync' /\ [SyncNext]_allVars => MissingInv'
<1> SUFFICES ASSUME BaseInv, BaseInv', StoreInv, UpsertInv, MissingInv,
                    AtMostOneSync, AtMostOneSync', [SyncNext]_allVars
             PROVE  MissingInv'
  OBVIOUS
<1>t. TypeOK
  BY DEF BaseInv, LockedInv
<1>0. Pending \in Seq(TcpEvent)
  BY WaitingType DEF WaitingInv
<1>1. CASE Quiet
  <2>1. Pending' = Pending
    BY <1>1, QuietPending
  <2>2. UNCHANGED <<api, missed>>
    BY <1>1
    DEF Quiet, ReceiveEvent, UpdaterStep, BeginSync, Subscribe, allVars, apiVars, historyVars
  <2>3. ASSUME ~missed, NEW r \in DOMAIN api
        PROVE  Settles(Pending, r, "Upsert")' \/ Kept(r)'
    <3>1. CASE Settles(Pending, r, "Upsert")
      BY <2>1, <3>1 DEF Settles
    <3>2. CASE Kept(r)
      BY <1>1, <3>2, QuietKept
    <3> QED
      BY <2>3, <3>1, <3>2 DEF MissingInv
  <2> QED
    BY <2>2, <2>3 DEF MissingInv
<1>2. CASE Applies
  <2> DEFINE e == Head(Pending)
             n == Tail(Pending)
             t == handleEvent(table, e).table
  <2>1. /\ Pending # <<>> /\ Pending' = n /\ table' = t
        /\ \A s \in Syncs : spc[s] \notin {"lookup", "store"}
        /\ UNCHANGED <<spc, api, missed>>
    BY <1>2, AppliesFirst
  <2>2. e \in TcpEvent
    BY <1>0, <2>1, TailSettles
  <2>3. IsRoutingTable(table) /\ now \in Nat
    BY <1>t DEF TypeOK
  <2>4. ASSUME ~missed, NEW r \in DOMAIN api, ~Settles(n, r, "Upsert")
        PROVE  r \in Routes(t)
    <3>1. /\ RouteOf(e.mapping) = r => Mentions(Pending, r)
          /\ Settles(Pending, r, "Upsert") => RouteOf(e.mapping) = r /\ e.action = "Upsert"
      BY <1>0, <2>1, <2>4, TailSettles
    <3>2. Settles(Pending, r, "Upsert") \/ r \in Routes(table)
      BY <2>1, <2>4 DEF MissingInv, Kept, Filling
    <3>3. RouteOf(e.mapping) = r => Settles(Pending, r, "Upsert")
      BY <2>4, <3>1, PendingUpserts
    <3> HIDE DEF e, n
    <3>4. /\ Routes(table) \ {RouteOf(e.mapping)} \subseteq Routes(t)
          /\ e.action = "Upsert" => RouteOf(e.mapping) \in Routes(t)
      BY <2>2, <2>3, EventTags
    <3> QED
      BY <3>1, <3>2, <3>3, <3>4
  <2> HIDE DEF e, n, t
  <2>5. \A r : /\ Settles(Pending, r, "Upsert")' <=> Settles(n, r, "Upsert")
               /\ Kept(r)' <=> r \in Routes(t)
    BY <2>1 DEF Settles, Kept, Filling, Routes
  <2> QED
    BY <2>1, <2>4, <2>5 DEF MissingInv
<1>3. ASSUME NEW s \in Syncs, FetchMappings(s) PROVE MissingInv'
  <2>1. /\ todo' = [todo EXCEPT ![s] = TcpRouteMappings]
        /\ spc' = [spc EXCEPT ![s] = "lookup"] /\ UNCHANGED api
    BY <1>3 DEF FetchMappings, SyncFetchRoutes
  <2>2. todo'[s] = TcpRouteMappings /\ spc'[s] = "lookup"
    BY <1>t, <2>1 DEF TypeOK
  <2>3. \A r \in DOMAIN api : \E m \in TcpRouteMappings : RouteOf(m) = r
    BY ApiMappings DEF BaseInv
  <2>4. \A r \in DOMAIN api' : Kept(r)'
    BY <2>1, <2>2, <2>3 DEF Kept, Filling, Coming
  <2> QED
    BY <2>4 DEF MissingInv
<1>4. CASE StreamBreaks \/ Restart
  BY <1>4 DEF StreamBreaks, Restart, MissingInv
<1>5. ASSUME NEW r \in Route, Register(r) PROVE MissingInv'
  <2>1. PICK tag : /\ api' = [y \in DOMAIN api \cup {r} |-> IF y = r THEN tag ELSE api[y]]
                   /\ Publish("Upsert", r, tag)
    BY <1>5 DEF Register
  <2>2. tag \in ModificationTag
    BY <2>1 DEF BaseInv, ApiInv
  <2> QED
    BY <2>1, <2>2, MissingInvPublish
<1>6. ASSUME NEW r \in Route, Unregister(r) PROVE MissingInv'
  <2>1. /\ api' = [y \in DOMAIN api \ {r} |-> api[y]]
        /\ Publish("Delete", r, api[r]) /\ api[r] \in ModificationTag
    BY <1>6 DEF Unregister, BaseInv, ApiInv
  <2> QED
    BY <2>1, MissingInvPublish
<1> QED
  BY <1>1, <1>2, <1>3, <1>4, <1>5, <1>6, StepCases

\* Once all is idle and a sync has begun and fetched since the stream broke, every
\* route of the API is in the table and in HAProxy, in whatever order events,
\* fetches, breaks and restarts came (HandleEvent, Sync, Watcher.Run).
THEOREM NoRouteGetsLost == SyncSpec /\ []AtMostOneSync => []NoRouteMissing
<1>1. BaseInv /\ MissingInv => NoRouteMissing
  <2> SUFFICES ASSUME BaseInv, MissingInv, Idle, ~missed, NEW r \in DOMAIN api
               PROVE  r \in Routes(table) /\ r \in loaded
    BY DEF NoRouteMissing
  <2>1. Len(Pending) = 0
    BY NothingWaits DEF Idle
  <2>2. ~Settles(Pending, r, "Upsert")
    BY <2>1 DEF Settles
  <2>3. r \in Routes(table)
    BY <2>2 DEF Idle, MissingInv, Kept, Filling
  <2>4. Routes(table) \subseteq loaded
    BY DEF Idle, BaseInv, RestInv, RoutesInv, Served, UpToDate, ChangePending
  <2> QED
    BY <2>3, <2>4
<1>2. SyncInit => MissingInv
  BY DEF SyncInit, MissingInv
<1> QED
  BY <1>1, <1>2, BaseInvInit, BaseInvStep, StoreInvInit, StoreInvStep,
     UpsertInvInit, UpsertInvStep, MissingInvStep, PTL DEF SyncSpec
=============================================================================
