---------------------------- MODULE MetricsProofs ----------------------------
(***************************************************************************)
(* Proofs about Metrics, for all rows, answers of any length and any width  *)
(* of the numbers.                                                          *)
(***************************************************************************)
EXTENDS Metrics, FiniteSetTheorems, TLAPS

\* There are no statistics before the answer is read to its end, and a round that
\* has failed does not get there.
FailedInv ==
  /\ rpc \in {"dial", "read"} => stats = <<>>
  /\ failed => rpc \in {"emit", "select"} /\ stats = <<>>

LEMMA FailedInvInit == MetricsInit => FailedInv
BY DEF MetricsInit, FailedInv

LEMMA FailedInvStep == FailedInv /\ [MetricsNext]_metricsVars => FailedInv'
<1> SUFFICES ASSUME FailedInv, [MetricsNext]_metricsVars
             PROVE  FailedInv'
  OBVIOUS
<1> USE DEF FailedInv
<1>1. ASSUME Tick PROVE FailedInv'
  BY <1>1 DEF Tick
<1>2. ASSUME DialAndWrite PROVE FailedInv'
  BY <1>2 DEF DialAndWrite
<1>3. ASSUME DialOrWriteError PROVE FailedInv'
  BY <1>3 DEF DialOrWriteError
<1>4. ASSUME Read PROVE FailedInv'
  BY <1>4 DEF Read
<1>5. ASSUME ReadError PROVE FailedInv'
  BY <1>5 DEF ReadError
<1>6. ASSUME ReadEOF PROVE FailedInv'
  BY <1>6 DEF ReadEOF
<1>7. ASSUME ReadCsv PROVE FailedInv'
  BY <1>7 DEF ReadCsv
<1>8. ASSUME NothingToEmit \/ Convert PROVE FailedInv'
  BY <1>8 DEF NothingToEmit, Convert
<1>9. ASSUME EmitStats PROVE FailedInv'
  BY <1>9 DEF EmitStats
<1>10. ASSUME UNCHANGED metricsVars PROVE FailedInv'
  BY <1>10 DEF metricsVars
<1> HIDE DEF FailedInv
<1> QED
  BY <1>1, <1>2, <1>3, <1>4, <1>5, <1>6, <1>7, <1>8, <1>9, <1>10
  DEF MetricsNext

\* Only EmitStats emits, and it has nothing to emit after a failure.
LEMMA FailedEmitsNothing ==
  FailedInv /\ [MetricsNext]_metricsVars => [failed => sent' = sent]_metricsVars
<1> SUFFICES ASSUME FailedInv, MetricsNext, failed PROVE sent' = sent
  OBVIOUS
<1>1. CASE EmitStats
  BY <1>1 DEF EmitStats, FailedInv
<1>2. CASE ~EmitStats
  BY <1>2 DEF MetricsNext, Tick, DialAndWrite, DialOrWriteError, Read, ReadError, ReadEOF, ReadCsv,
                 NothingToEmit, Convert
<1> QED
  BY <1>1, <1>2

\* A round in which dialling, writing or reading failed emits nothing, whatever
\* part of HAProxy's answer it had (haproxy_client.go:56 to 80).
THEOREM FailureEmitsNothing == MetricsSpec => NothingFromFailedRead
<1>1. FailedInv /\ [MetricsNext]_metricsVars => FailedInv'
  BY FailedInvStep
<1>2. FailedInv /\ [MetricsNext]_metricsVars => [failed => sent' = sent]_metricsVars
  BY FailedEmitsNothing
<1> QED
  BY <1>1, <1>2, FailedInvInit, PTL DEF MetricsSpec, NothingFromFailedRead

-----------------------------------------------------------------------------
(* The sums.                                                               *)

Number == 0 .. Word - 1

Stat == [proxy : Seq(Nat \cup {Text}), queued : Number, sessions : Number,
         errors : Number, qtime : Number, ctime : Number]

\* What has been read is a part of the answer.
ReadInv ==
  /\ rpc \in {"select", "dial", "read", "csv", "emit"}
  /\ answer \in Seq(Rows) /\ buffer \in 0 .. Columns * Lines
  /\ stats \in Seq(Stat) /\ added \in 0 .. Len(stats)
  /\ rpc \in {"dial", "read", "csv"} => added = 0 /\ report = NoReport

\* The numbers of a map are numbers, and there are finitely many.
Totals(map) == IsFiniteSet(DOMAIN map) /\ \A k \in DOMAIN map : map[k] \in Number

\* The rows of a port among those that have been added.
AddedOf(port) == RowsOf(port) \cap (1 .. added)
SessionsOf(port) == [i \in AddedOf(port) |-> stats[i].sessions]

Port == 0 .. 65535

\* The report agrees with the rows added to it.
ReportInv ==
  /\ Totals(report.routes) /\ Totals(report.sessions)
  /\ report.errors = Sum(report.routes) % Word
  /\ \A port \in DOMAIN report.sessions : report.sessions[port] = Sum(SessionsOf(port)) % Word
  /\ DOMAIN report.sessions \subseteq Port
  /\ \A port \in Port : AddedOf(port) # {} => port \in DOMAIN report.sessions

\* What was emitted is the report of all rows.
SentInv ==
  /\ sent.TotalBackendConnectionErrors = Sum(sent.ProxyConnectionErrors) % Word
  /\ rpc = "select" /\ stats # <<>> =>
       added = Len(stats) /\ sent.CurrentSessions = report.sessions

MetricsInv == ReadInv /\ ReportInv /\ SentInv

-----------------------------------------------------------------------------
(* Numbers that wrap around, and sums of them.                             *)

LEMMA DivMod ==
  ASSUME NEW W \in Nat \ {0}, NEW a \in Nat
  PROVE  a \div W \in Int /\ a % W \in 0 .. W - 1 /\ a = W * (a \div W) + (a % W)
OBVIOUS

LEMMA MultipleBelow ==
  ASSUME NEW W \in Nat \ {0}, NEW q \in Int, NEW p \in Int, q < p
  PROVE  W * q + W <= W * p
<1>1. PICK d \in Nat : p = q + 1 + d
  <2>1. p - q - 1 \in Nat /\ p = q + 1 + (p - q - 1)
    OBVIOUS
  <2> QED
    BY <2>1
<1>2. W * p = W * q + W + W * d
  BY <1>1
<1>3. W * d \in Nat /\ W * q \in Int
  OBVIOUS
<1> QED
  BY <1>2, <1>3

\* A number has one remainder.
LEMMA ModUnique ==
  ASSUME NEW W \in Nat \ {0}, NEW q \in Int, NEW p \in Int,
         NEW r \in 0 .. W - 1, NEW s \in 0 .. W - 1, W * q + r = W * p + s
  PROVE  r = s
<1>1. ~(q < p)
  <2>1. q < p => W * q + W <= W * p
    BY MultipleBelow
  <2>2. W * q \in Int /\ W * p \in Int
    OBVIOUS
  <2> QED
    BY <2>1, <2>2
<1>2. ~(p < q)
  <2>1. p < q => W * p + W <= W * q
    BY MultipleBelow
  <2>2. W * q \in Int /\ W * p \in Int
    OBVIOUS
  <2> QED
    BY <2>1, <2>2
<1>3. q = p
  BY <1>1, <1>2
<1>4. W * q \in Int /\ W * p = W * q
  BY <1>3
<1> QED
  BY <1>4

\* A summand may be reduced before the sum is.
LEMMA ModAdd ==
  ASSUME NEW W \in Nat \ {0}, NEW a \in Nat, NEW b \in Nat
  PROVE  (a + (b % W)) % W = (a + b) % W
<1> DEFINE bq == b \div W
           br == b % W
           c  == a + br
           cq == c \div W
           cr == c % W
           d  == a + b
           dq == d \div W
           dr == d % W
<1>1. bq \in Int /\ br \in 0 .. W - 1 /\ b = W * bq + br
  BY DivMod
<1>2. c \in Nat /\ d \in Nat
  BY <1>1
<1> HIDE DEF bq, br
<1>3. cq \in Int /\ cr \in 0 .. W - 1 /\ c = W * cq + cr
  BY <1>2, DivMod
<1>4. dq \in Int /\ dr \in 0 .. W - 1 /\ d = W * dq + dr
  BY <1>2, DivMod
<1> HIDE DEF cq, cr, dq, dr
<1>5. d = c + W * bq
  <2>1. W * bq \in Int
    BY <1>1
  <2> QED
    BY <1>1, <2>1
<1>6. W * (cq + bq) = W * cq + W * bq
  BY <1>1, <1>3
<1>7. W * (cq + bq) + cr = W * dq + dr
  <2> DEFINE u == W * bq
             v == W * cq
             w == W * dq
  <2>1. u \in Int /\ v \in Int /\ w \in Int
    BY <1>1, <1>3, <1>4
  <2>2. d = c + u /\ c = v + cr /\ d = w + dr /\ W * (cq + bq) = v + u
    BY <1>3, <1>4, <1>5, <1>6
  <2> HIDE DEF u, v, w, c, d
  <2>3. v + u + cr = w + dr
    BY <1>2, <1>3, <1>4, <2>1, <2>2
  <2> QED
    BY <2>2, <2>3 DEF w
<1>8. cr = dr
  <2>1. cq + bq \in Int
    BY <1>1, <1>3
  <2> HIDE DEF c, d
  <2> QED
  BY <2>1, <1>3, <1>4, <1>7, ModUnique
<1> QED
  BY <1>8 DEF cr, dr, br

\* The units of numbers below Word are finitely many.
LEMMA UnitsFinite ==
  ASSUME NEW f, Totals(f)
  PROVE  IsFiniteSet(Units(f)) /\ Sum(f) \in Nat
<1>1. Units(f) \subseteq (DOMAIN f) \X (1 .. Word)
  <2>1. \A k \in DOMAIN f : \A n \in 1 .. f[k] : n \in 1 .. Word
    BY WordAssumption DEF Totals, Number
  <2> QED
    BY <2>1 DEF Units
<1>2. IsFiniteSet(1 .. Word)
  BY WordAssumption, FS_Interval
<1>3. IsFiniteSet((DOMAIN f) \X (1 .. Word))
  BY <1>2, FS_Product DEF Totals
<1>4. IsFiniteSet(Units(f))
  BY <1>1, <1>3, FS_Subset
<1> QED
  BY <1>4, FS_CardinalityType DEF Sum

\* A sum is that without one of the keys, and what that key has.
LEMMA SumSplit ==
  ASSUME NEW f, Totals(f), NEW key \in DOMAIN f
  PROVE  LET rest == [k \in DOMAIN f \ {key} |-> f[k]]
         IN  Totals(rest) /\ Sum(rest) \in Nat /\ Sum(f) = Sum(rest) + f[key]
<1> DEFINE rest == [k \in DOMAIN f \ {key} |-> f[k]]
           own == {key} \X (1 .. f[key])
<1>1. Totals(rest)
  <2>1. IsFiniteSet(DOMAIN f \ {key})
    BY FS_RemoveElement DEF Totals
  <2> QED
    BY <2>1 DEF Totals
<1>2. f[key] \in Nat
  BY WordAssumption DEF Totals, Number
<1>3. IsFiniteSet(own) /\ Cardinality(own) = f[key]
  <2>1. IsFiniteSet(1 .. f[key]) /\ Cardinality(1 .. f[key]) = f[key]
    BY <1>2, FS_Interval
  <2>2. IsFiniteSet({key}) /\ Cardinality({key}) = 1
    BY FS_Singleton
  <2>3. IsFiniteSet(own) /\ Cardinality(own) = Cardinality({key}) * Cardinality(1 .. f[key])
    BY <2>1, <2>2, FS_Product
  <2>4. Cardinality(own) = 1 * f[key]
    BY <2>1, <2>2, <2>3
  <2> QED
    BY <1>2, <2>3, <2>4
<1>4. Units(f) = Units(rest) \cup own
  BY DEF Units
<1>5. Units(rest) \cap own = {}
  BY DEF Units
<1>6. IsFiniteSet(Units(rest)) /\ Sum(rest) \in Nat
  BY <1>1, UnitsFinite
<1> HIDE DEF rest, own
<1>7. Cardinality(Units(f))
        = Cardinality(Units(rest)) + Cardinality(own) - Cardinality(Units(rest) \cap own)
  BY <1>3, <1>4, <1>6, FS_Union
<1>8. Cardinality(Units(rest) \cap own) = 0
  BY <1>5, FS_EmptySet
<1>9. Sum(f) = Sum(rest) + f[key]
  BY <1>2, <1>3, <1>6, <1>7, <1>8 DEF Sum
<1> QED
  BY <1>1, <1>6, <1>9 DEF rest

LEMMA PlusIs ==
  ASSUME NEW x \in Nat, NEW y \in Nat
  PROVE  Plus(x, y) \in Number /\ Plus(x, y) = (x + y) % Word
BY WordAssumption DEF Plus, Number

\* Adding to a key of a map adds to the sum of the map.
LEMMA SumAdd ==
  ASSUME NEW f, Totals(f), NEW key, NEW x \in Number
  PROVE  Totals(AddTo(f, key, x)) /\ Sum(AddTo(f, key, x)) % Word = (Sum(f) + x) % Word
<1> DEFINE g == AddTo(f, key, x)
           rest == [k \in DOMAIN f \ {key} |-> f[k]]
           old == IF key \in DOMAIN f THEN f[key] ELSE 0
<1>1. x \in Nat /\ old \in Nat
  BY WordAssumption DEF Totals, Number
<1>2. DOMAIN g = DOMAIN f \cup {key} /\ g[key] = Plus(old, x)
  BY DEF AddTo
<1>3. [k \in DOMAIN g \ {key} |-> g[k]] = rest
  BY DEF AddTo
<1>4. Plus(old, x) \in Number /\ Plus(old, x) = (old + x) % Word
  BY <1>1, PlusIs
<1>5. Totals(g)
  <2>1. IsFiniteSet(DOMAIN g)
    BY <1>2, FS_AddElement DEF Totals
  <2>2. \A k \in DOMAIN f : k # key => g[k] = f[k]
    BY DEF AddTo
  <2> HIDE DEF g
  <2> QED
    BY <1>2, <1>4, <2>1, <2>2 DEF Totals
<1> HIDE DEF g
<1>6. Sum(rest) \in Nat /\ Sum(g) = Sum(rest) + Plus(old, x)
  BY <1>2, <1>3, <1>5, SumSplit
<1>7. Sum(f) = Sum(rest) + old
  <2>1. CASE key \in DOMAIN f
    BY <2>1, SumSplit
  <2>2. CASE key \notin DOMAIN f
    <3>1. Units(f) = Units(rest)
      BY <2>2 DEF Units
    <3> QED
      BY <1>6, <2>2, <3>1 DEF Sum
  <2> QED
    BY <2>1, <2>2
<1> HIDE DEF rest, old
<1>8. (Sum(rest) + ((old + x) % Word)) % Word = (Sum(rest) + (old + x)) % Word
  <2>1. old + x \in Nat
    BY <1>1
  <2> QED
    BY <1>6, <2>1, WordAssumption, ModAdd
<1>9. Sum(rest) + (old + x) = Sum(f) + x
  BY <1>1, <1>6, <1>7
<1>10. Sum(g) % Word = (Sum(f) + x) % Word
  BY <1>4, <1>6, <1>8, <1>9
<1> QED
  BY <1>5, <1>10 DEF g

\* A total that agrees with a sum still does when both grow by a number.
LEMMA AgreeStill ==
  ASSUME NEW total, NEW s \in Nat, total = s % Word, NEW x \in Number
  PROVE  Plus(total, x) = (s + x) % Word
<1>1. x \in Nat /\ total \in Nat
  BY WordAssumption DEF Number
<1>2. Plus(total, x) = (x + (s % Word)) % Word
  BY <1>1 DEF Plus
<1>3. (x + (s % Word)) % Word = (x + s) % Word
  BY <1>1, WordAssumption, ModAdd
<1>4. x + s = s + x
  BY <1>1
<1> QED
  BY <1>2, <1>3, <1>4

-----------------------------------------------------------------------------
(* The invariant.                                                          *)

\* ParseUint returns a number of 64 bits, whatever the column has.
LEMMA StatType == ASSUME NEW line \in Rows PROVE csvToHaproxyStat(line) \in Stat
<1>1. ASSUME NEW c \in Column PROVE convertToInt(c) \in Number
  <2>1. CASE c = Text
    BY <2>1, WordAssumption, RowsAssumption DEF convertToInt, Number, Column
  <2>2. CASE c # Text /\ c = Huge
    BY <2>2, WordAssumption DEF convertToInt, Number
  <2>3. CASE c # Text /\ c # Huge
    BY <2>3 DEF convertToInt, Number, Column
  <2> QED
    BY <2>1, <2>2, <2>3
<1>2. line \in Row
  BY RowsAssumption
<1> QED
  BY <1>1, <1>2 DEF Row, Stat, csvToHaproxyStat

\* As many lines are read as the answer has, at most.
LEMMA RecordsBound ==
  ASSUME ReadInv
  PROVE  Records \in Nat /\ Whole \in Nat /\ Records - 1 <= Len(answer) /\ Len(answer) \in Nat
<1> DEFINE n == Len(answer)
           w == Whole
           c == Cut
<1>1. n \in Nat
  BY DEF ReadInv
<1>2. buffer \in Nat /\ buffer <= Columns * (1 + n)
  <2>1. Columns * (1 + n) \in Int
    BY <1>1, ColumnsAssumption
  <2> QED
    BY <2>1 DEF ReadInv, Lines
<1>3. w \in Int /\ c \in 0 .. Columns - 1 /\ buffer = Columns * w + c
  BY <1>2, ColumnsAssumption, DivMod DEF Whole, Cut
<1> HIDE DEF n, w, c
<1>4. w \in Nat
  <2>1. SUFFICES ASSUME w < 0 PROVE FALSE
    BY <1>3
  <2>2. Columns * w + Columns <= Columns * 0
    BY <2>1, <1>3, ColumnsAssumption, MultipleBelow
  <2>3. Columns * w \in Int /\ Columns * 0 = 0
    BY <1>3, ColumnsAssumption
  <2> QED
    BY <1>2, <1>3, <2>2, <2>3, ColumnsAssumption
<1>5. ~(1 + n < w)
  <2>1. SUFFICES ASSUME 1 + n < w PROVE FALSE
    OBVIOUS
  <2>2. Columns * (1 + n) + Columns <= Columns * w
    BY <1>1, <1>4, <2>1, ColumnsAssumption, MultipleBelow
  <2>3. Columns * w \in Int /\ Columns * (1 + n) \in Int
    BY <1>1, <1>4, ColumnsAssumption
  <2> QED
    BY <1>2, <1>3, <2>2, <2>3, ColumnsAssumption
<1>6. c > 0 => w # 1 + n
  <2>1. SUFFICES ASSUME c > 0, w = 1 + n PROVE FALSE
    OBVIOUS
  <2>2. Columns * w \in Int /\ Columns * w = Columns * (1 + n)
    BY <1>4, <2>1, ColumnsAssumption
  <2> QED
    BY <1>2, <1>3, <2>1, <2>2, ColumnsAssumption
<1>7. Records = w + (IF c > 0 THEN 1 ELSE 0)
  BY DEF Records, w, c
<1>8. c \in Int
  BY <1>3, ColumnsAssumption
<1>9. Records \in Nat /\ Records - 1 <= n
  BY <1>1, <1>4, <1>5, <1>6, <1>7, <1>8
<1> QED
  BY <1>1, <1>4, <1>9 DEF n, w

\* Lines that are all as long as the first one are long enough: the first one is
\* whole when there is another.
LEMMA ReadCsvKeepsRead ==
  ASSUME ReadInv, ReadCsv
  PROVE  ReadInv'
<1>1. /\ Records \in Nat /\ Whole \in Nat
      /\ Records - 1 <= Len(answer) /\ Len(answer) \in Nat
  BY RecordsBound
<1>2. rpc' = "emit"
  <2>1. SUFFICES ASSUME ~FieldCountError, NEW i \in 2 .. Records PROVE ~(Width(i) < Used)
    BY DEF ReadCsv
  <2>2. Width(i) = Width(1)
    BY <2>1 DEF FieldCountError
  <2>3. 1 <= Whole
    BY <1>1, <2>1 DEF Records
  <2>4. Width(1) = Columns
    BY <2>3 DEF Width
  <2> QED
    BY <2>2, <2>4, ColumnsAssumption
<1>3. stats' \in Seq(Stat)
  <2>1. \A i \in 1 .. Records - 1 : csvToHaproxyStat(answer[i]) \in Stat
    <3> SUFFICES ASSUME NEW i \in 1 .. Records - 1 PROVE csvToHaproxyStat(answer[i]) \in Stat
      OBVIOUS
    <3>1. i \in 1 .. Len(answer)
      BY <1>1
    <3>2. answer[i] \in Rows
      BY <3>1 DEF ReadInv
    <3> QED
      BY <3>2, StatType
  <2> DEFINE f == [i \in 1 .. Records - 1 |-> csvToHaproxyStat(answer[i])]
  <2>2. f \in Seq(Stat)
    <3>1. CASE Records = 0
      <4>1. 1 .. Records - 1 = {}
        BY <3>1
      <4>2. f = <<>>
        BY <4>1
      <4> HIDE DEF f
      <4> QED
        BY <4>2
    <3>2. CASE Records # 0
      <4>1. Records - 1 \in Nat
        BY <1>1, <3>2
      <4>2. f \in [1 .. Records - 1 -> Stat]
        BY <2>1
      <4> QED
        BY <4>1, <4>2
    <3> QED
      BY <3>1, <3>2
  <2> QED
    BY <2>2 DEF ReadCsv
<1>4. added = 0 /\ UNCHANGED <<answer, buffer, added, report>>
  BY DEF ReadCsv, ReadInv
<1>5. added' \in 0 .. Len(stats')
  BY <1>3, <1>4
<1> QED
  BY <1>2, <1>3, <1>4, <1>5 DEF ReadInv, Lines

LEMMA ReadInvStep == ReadInv /\ [MetricsNext]_metricsVars => ReadInv'
<1> SUFFICES ASSUME ReadInv, [MetricsNext]_metricsVars PROVE ReadInv'
  OBVIOUS
<1>1. CASE Tick
  <2>1. answer' \in Seq(Rows)
    BY <1>1, WordAssumption DEF Tick
  <2>2. Len(answer') \in Nat
    BY <2>1
  <2>3. Columns * (1 + Len(answer')) \in Nat
    BY <2>2, ColumnsAssumption
  <2>4. buffer' \in 0 .. Columns * (1 + Len(answer'))
    BY <1>1, <2>3 DEF Tick
  <2>5. stats' \in Seq(Stat) /\ added' \in 0 .. Len(stats')
    BY <1>1 DEF Tick
  <2>6. rpc' = "dial" /\ added' = 0 /\ report' = NoReport
    BY <1>1 DEF Tick
  <2> QED
    BY <2>1, <2>4, <2>5, <2>6 DEF ReadInv, Lines
<1>2. CASE Read
  <2>1. Lines' = Lines /\ Lines \in Nat
    BY <1>2 DEF Read, Lines, ReadInv
  <2>2. Columns * Lines \in Nat
    BY <2>1, ColumnsAssumption
  <2>3. buffer' \in 0 .. Columns * Lines
    BY <1>2, <2>2 DEF Read, ReadInv
  <2>4. UNCHANGED <<rpc, answer, stats, added, report>>
    BY <1>2 DEF Read
  <2> QED
    BY <2>1, <2>3, <2>4 DEF ReadInv
<1>3. CASE ReadCsv
  BY <1>3, ReadCsvKeepsRead
<1>4. CASE Convert
  <2>1. UNCHANGED <<rpc, answer, buffer, stats>> /\ rpc = "emit"
    BY <1>4 DEF Convert
  <2>2. added' \in 0 .. Len(stats)
    BY <1>4 DEF Convert, ReadInv
  <2> QED
    BY <2>1, <2>2 DEF ReadInv, Lines
<1>5. CASE DialAndWrite \/ DialOrWriteError \/ ReadError \/ ReadEOF \/ NothingToEmit \/ EmitStats
  <2>1. UNCHANGED <<answer, buffer, stats, added, report>>
    BY <1>5 DEF DialAndWrite, DialOrWriteError, ReadError, ReadEOF, NothingToEmit, EmitStats
  <2>2. /\ rpc' \in {"select", "read", "csv", "emit"}
        /\ rpc' \in {"read", "csv"} => rpc \in {"dial", "read"}
    BY <1>5 DEF DialAndWrite, DialOrWriteError, ReadError, ReadEOF, NothingToEmit, EmitStats
  <2> QED
    BY <2>1, <2>2 DEF ReadInv, Lines
<1>6. CASE UNCHANGED metricsVars
  BY <1>6 DEF metricsVars, ReadInv, Lines
<1> QED
  BY <1>1, <1>2, <1>3, <1>4, <1>5, <1>6 DEF MetricsNext

\* The maps of an empty report add up to 0.
LEMMA EmptySum ==
  ASSUME NEW f, DOMAIN f = {}
  PROVE  Totals(f) /\ Sum(f) = 0 /\ Sum(f) % Word = 0
<1>1. Units(f) = {}
  BY DEF Units
<1>2. Sum(f) = 0
  BY <1>1, FS_EmptySet DEF Sum
<1>3. Totals(f)
  BY FS_EmptySet DEF Totals
<1> QED
  BY <1>2, <1>3, WordAssumption

Fresh == added = 0 /\ report = NoReport

\* A fresh report agrees with any rows as long as none has been added.
LEMMA FreshReport == Fresh => ReportInv
<1> SUFFICES ASSUME Fresh PROVE ReportInv
  OBVIOUS
<1>1. /\ report.errors = 0
      /\ DOMAIN report.routes = {} /\ DOMAIN report.sessions = {}
  BY DEF Fresh, NoReport
<1>2. Totals(report.routes) /\ Totals(report.sessions) /\ Sum(report.routes) % Word = 0
  BY <1>1, EmptySum
<1>3. \A port : AddedOf(port) = {}
  BY DEF AddedOf, Fresh
<1> QED
  BY <1>1, <1>2, <1>3 DEF ReportInv

\* Which rows of a port have been added once one more is.
LEMMA AddedMore ==
  ASSUME ReadInv, Convert, NEW port \in Port
  PROVE  LET n == added + 1
         IN  /\ n \in DOMAIN stats /\ n \notin AddedOf(port) /\ stats[n] \in Stat
             /\ AddedOf(port)' = IF proxyKey(stats[n].proxy) = port
                                  THEN AddedOf(port) \cup {n} ELSE AddedOf(port)
<1> DEFINE n == added + 1
<1>1. /\ stats' = stats /\ added' = n /\ added \in Nat
      /\ n \in 1 .. Len(stats) /\ Len(stats) \in Nat
  BY DEF Convert, ReadInv
<1>2. stats[n] \in Stat
  BY <1>1 DEF ReadInv
<1>d. DOMAIN stats = 1 .. Len(stats)
  BY DEF ReadInv
<1>3. n \in DOMAIN stats
  BY <1>1, <1>d
<1>4. RowsOf(port)' = RowsOf(port)
  BY <1>1 DEF RowsOf
<1>5. 1 .. n = (1 .. added) \cup {n} /\ n \notin 1 .. added
  BY <1>1
<1>6. AddedOf(port)' = RowsOf(port) \cap (1 .. n)
  BY <1>1, <1>4 DEF AddedOf
<1>7. n \in RowsOf(port) <=> proxyKey(stats[n].proxy) = port
  <2>1. n \in RowsOf(port) <=> Len(stats[n].proxy) = 3 /\ stats[n].proxy[3] = port
    BY <1>3 DEF RowsOf
  <2>2. Text # port
    BY RowsAssumption DEF Port
  <2>3. proxyKey(stats[n].proxy)
          = IF Len(stats[n].proxy) = 3 /\ stats[n].proxy[3] \in Port
              THEN stats[n].proxy[3] ELSE Text
    BY DEF proxyKey, Port
  <2> QED
    BY <2>1, <2>2, <2>3
<1> HIDE DEF n
<1>8. AddedOf(port)' = IF proxyKey(stats[n].proxy) = port
                         THEN AddedOf(port) \cup {n} ELSE AddedOf(port)
  BY <1>5, <1>6, <1>7 DEF AddedOf
<1>9. n \notin AddedOf(port)
  BY <1>5 DEF AddedOf
<1> QED
  BY <1>2, <1>3, <1>8, <1>9 DEF n

\* The sessions of the rows of a port are numbers.
LEMMA SessionsTotals ==
  ASSUME ReadInv, NEW port
  PROVE  Totals(SessionsOf(port)) /\ DOMAIN SessionsOf(port) = AddedOf(port)
<1>1. added \in Nat /\ Len(stats) \in Nat /\ \A i \in 1 .. added : i \in 1 .. Len(stats)
  BY DEF ReadInv
<1>2. \A i \in AddedOf(port) : stats[i] \in Stat
  BY <1>1 DEF AddedOf, ReadInv
<1>3. IsFiniteSet(AddedOf(port))
  <2>1. IsFiniteSet(1 .. added)
    BY <1>1, FS_Interval
  <2> QED
    BY <2>1, FS_Subset DEF AddedOf
<1>4. \A i \in AddedOf(port) : stats[i].sessions \in Number
  BY <1>2 DEF Stat
<1> HIDE DEF AddedOf
<1> QED
  BY <1>3, <1>4 DEF SessionsOf, Totals

\* A row adds its sessions to those of its port.
LEMMA SessionsMore ==
  ASSUME ReadInv, ReadInv', Convert, NEW port \in Port, proxyKey(stats[added + 1].proxy) = port
  PROVE  Sum(SessionsOf(port)') = Sum(SessionsOf(port)) + stats[added + 1].sessions
<1> DEFINE n == added + 1
           f == SessionsOf(port)
           g == SessionsOf(port)'
<1>1. n \notin AddedOf(port) /\ AddedOf(port)' = AddedOf(port) \cup {n} /\ stats' = stats
  BY AddedMore DEF Convert
<1>2. f = [i \in AddedOf(port) |-> stats[i].sessions]
  BY DEF SessionsOf
<1>3. g = [i \in AddedOf(port) \cup {n} |-> stats[i].sessions]
  BY <1>1 DEF SessionsOf
<1>4. Totals(g)
  <2>1. ReadInv' => Totals(SessionsOf(port))'
    BY SessionsTotals, PTL
  <2> QED
    BY <2>1 DEF Totals, Number
<1> HIDE DEF n, f, g
<1>5. n \in DOMAIN g /\ g[n] = stats[n].sessions
  BY <1>3
<1>6. [i \in DOMAIN g \ {n} |-> g[i]] = f
  <2>1. DOMAIN g \ {n} = AddedOf(port)
    BY <1>1, <1>3
  <2> QED
    BY <1>1, <1>2, <1>3, <2>1
<1>7. Sum(g) = Sum(f) + g[n]
  BY <1>4, <1>5, <1>6, SumSplit
<1> QED
  BY <1>5, <1>7 DEF n, f, g

LEMMA ConvertKeepsReport ==
  ASSUME ReadInv, ReadInv', ReportInv, Convert
  PROVE  ReportInv'
<1>a. PICK stat : stat = stats[added + 1]
  OBVIOUS
<1>b. PICK port : port = proxyKey(stat.proxy)
  OBVIOUS
<1>1. stat \in Stat
  <2>1. 0 \in Port
    BY DEF Port
  <2> QED
    BY <1>a, <2>1, AddedMore
<1>2. /\ stat.errors \in Number /\ stat.sessions \in Number
      /\ stat.errors \in Nat /\ stat.sessions \in Nat
  BY <1>1, WordAssumption DEF Stat, Number
<1>3. /\ report'.errors = Plus(report.errors, stat.errors)
      /\ report'.routes = AddTo(report.routes, stat.proxy, stat.errors)
      /\ report'.sessions = populateProxyStats(report.sessions, stat.proxy, stat.sessions)
  BY <1>a DEF Convert, AddStat
<1>4. (port = Text \/ port \in Port) /\ Text \notin Port
  <2>1. Text \notin Port
    <3>1. \A p \in Port : p \in Int
      BY DEF Port
    <3> QED
      BY <3>1, RowsAssumption
  <2>2. proxyKey(stat.proxy)
          = IF Len(stat.proxy) = 3 /\ stat.proxy[3] \in Port THEN stat.proxy[3] ELSE Text
    BY DEF proxyKey, Port
  <2> QED
    BY <1>b, <2>1, <2>2
<1>m. \A p \in Port : AddedOf(p)' = IF port = p THEN AddedOf(p) \cup {added + 1} ELSE AddedOf(p)
  BY <1>a, <1>b, AddedMore
<1>s. stats' = stats
  BY DEF Convert
<1>5. Totals(report'.routes) /\ report'.errors = Sum(report'.routes) % Word
  <2>1. /\ Totals(report.routes) /\ Sum(report.routes) \in Nat
        /\ report.errors = Sum(report.routes) % Word
    BY UnitsFinite DEF ReportInv
  <2>2. /\ Totals(report'.routes)
        /\ Sum(report'.routes) % Word = (Sum(report.routes) + stat.errors) % Word
    BY <1>2, <1>3, <2>1, SumAdd
  <2>3. Plus(report.errors, stat.errors) = (Sum(report.routes) + stat.errors) % Word
    BY <1>2, <2>1, AgreeStill
  <2> QED
    BY <1>3, <2>2, <2>3
<1>6. CASE port = Text
  <2>1. report'.sessions = report.sessions
    BY <1>3, <1>6, <1>b DEF populateProxyStats
  <2>2. \A p \in Port : AddedOf(p)' = AddedOf(p)
    BY <1>4, <1>6, <1>m
  <2>3. \A p \in Port : SessionsOf(p)' = SessionsOf(p)
    BY <1>s, <2>2 DEF SessionsOf
  <2> QED
    BY <1>5, <2>1, <2>2, <2>3 DEF ReportInv
<1>7. CASE port \in Port
  <2> DEFINE old == IF port \in DOMAIN report.sessions THEN report.sessions[port] ELSE 0
  <2>1. report'.sessions = AddTo(report.sessions, port, stat.sessions)
    BY <1>3, <1>4, <1>7, <1>b DEF populateProxyStats
  <2>2. Totals(report.sessions) /\ Totals(report'.sessions)
    BY <1>2, <2>1, SumAdd DEF ReportInv
  <2>3. /\ DOMAIN report'.sessions = DOMAIN report.sessions \cup {port}
        /\ report'.sessions[port] = Plus(old, stat.sessions)
        /\ \A p \in DOMAIN report.sessions : p # port => report'.sessions[p] = report.sessions[p]
    BY <2>1 DEF AddTo
  <2>4. Sum(SessionsOf(port)) \in Nat
    BY SessionsTotals, UnitsFinite
  <2>5. old = Sum(SessionsOf(port)) % Word
    <3>1. CASE port \in DOMAIN report.sessions
      BY <3>1 DEF ReportInv
    <3>2. CASE port \notin DOMAIN report.sessions
      <4>1. DOMAIN SessionsOf(port) = {}
        BY <1>7, <3>2, SessionsTotals DEF ReportInv
      <4> QED
        BY <3>2, <4>1, EmptySum
    <3> QED
      BY <3>1, <3>2
  <2> HIDE DEF old
  <2>6. Sum(SessionsOf(port)') = Sum(SessionsOf(port)) + stat.sessions
    BY <1>7, <1>a, <1>b, SessionsMore
  <2>7. report'.sessions[port] = Sum(SessionsOf(port)') % Word
    BY <1>2, <2>3, <2>4, <2>5, <2>6, AgreeStill
  <2>8. \A p \in Port : p # port => AddedOf(p)' = AddedOf(p) /\ SessionsOf(p)' = SessionsOf(p)
    BY <1>m, <1>s DEF SessionsOf
  <2>9. ASSUME NEW p \in DOMAIN report'.sessions
        PROVE  report'.sessions[p] = Sum(SessionsOf(p)') % Word
    <3>1. CASE p = port
      BY <2>7, <3>1
    <3>2. CASE p # port
      <4>1. p \in DOMAIN report.sessions /\ p \in Port
        BY <2>3, <3>2 DEF ReportInv
      <4> QED
        BY <2>3, <2>8, <3>2, <4>1 DEF ReportInv
    <3> QED
      BY <3>1, <3>2
  <2>10. DOMAIN report'.sessions \subseteq Port
    BY <1>7, <2>3 DEF ReportInv
  <2>11. \A p \in Port : AddedOf(p)' # {} => p \in DOMAIN report'.sessions
    BY <2>3, <2>8 DEF ReportInv
  <2>12. \A p \in DOMAIN report'.sessions : report'.sessions[p] = Sum(SessionsOf(p))' % Word
    BY <2>9 DEF Sum, Units
  <2> QED
    BY <1>5, <2>2, <2>10, <2>11, <2>12 DEF ReportInv
<1> QED
  BY <1>4, <1>6, <1>7

LEMMA ReportInvStep ==
  ReadInv /\ ReadInv' /\ ReportInv /\ [MetricsNext]_metricsVars => ReportInv'
<1> SUFFICES ASSUME ReadInv, ReadInv', ReportInv, [MetricsNext]_metricsVars PROVE ReportInv'
  OBVIOUS
<1>1. Fresh' => ReportInv'
  BY FreshReport, PTL
<1>2. CASE Tick \/ DialAndWrite \/ Read \/ ReadEOF \/ ReadCsv \/ DialOrWriteError \/ ReadError
  <2>1. added' = 0 /\ report' = NoReport
    BY <1>2 DEF Tick, DialAndWrite, Read, ReadEOF, ReadCsv, DialOrWriteError, ReadError, ReadInv
  <2> QED
    BY <1>1, <2>1 DEF Fresh, NoReport
<1>3. CASE Convert
  BY <1>3, ConvertKeepsReport
<1>4. CASE NothingToEmit \/ EmitStats \/ UNCHANGED metricsVars
  <2>1. stats' = stats /\ added' = added /\ report' = report
    BY <1>4 DEF NothingToEmit, EmitStats, metricsVars
  <2> QED
    BY <2>1 DEF ReportInv, SessionsOf, AddedOf, RowsOf
<1> QED
  BY <1>2, <1>3, <1>4 DEF MetricsNext

LEMMA SentInvStep ==
  ReadInv /\ ReportInv /\ SentInv /\ [MetricsNext]_metricsVars => SentInv'
<1> SUFFICES ASSUME ReadInv, ReportInv, SentInv, [MetricsNext]_metricsVars PROVE SentInv'
  OBVIOUS
<1>1. CASE EmitStats
  <2>1. /\ sent' = Emit(Averaged(report, Len(stats)))
        /\ added' = Len(stats') /\ report' = report
    BY <1>1 DEF EmitStats
  <2>2. /\ sent'.TotalBackendConnectionErrors = report.errors
        /\ sent'.ProxyConnectionErrors = report.routes
        /\ sent'.CurrentSessions = report.sessions
    <3> DEFINE r == Averaged(report, Len(stats))
    <3>1. r.errors = report.errors /\ r.routes = report.routes /\ r.sessions = report.sessions
      BY DEF Averaged
    <3> HIDE DEF r
    <3> QED
      BY <2>1, <3>1 DEF Emit, r
  <2> QED
    BY <2>1, <2>2 DEF SentInv, ReportInv
<1>2. CASE NothingToEmit
  BY <1>2 DEF NothingToEmit, SentInv
<1>3. CASE UNCHANGED metricsVars
  BY <1>3 DEF metricsVars, SentInv
<1>4. CASE \/ Tick \/ DialAndWrite \/ DialOrWriteError
           \/ Read \/ ReadError \/ ReadEOF \/ ReadCsv \/ Convert
  <2>1. sent' = sent /\ rpc' # "select"
    BY <1>4 DEF Tick, DialAndWrite, DialOrWriteError, Read, ReadError, ReadEOF, ReadCsv, Convert
  <2> QED
    BY <2>1 DEF SentInv
<1> QED
  BY <1>1, <1>2, <1>3, <1>4 DEF MetricsNext

LEMMA MetricsInvInit == MetricsInit => MetricsInv
<1> SUFFICES ASSUME MetricsInit PROVE MetricsInv
  OBVIOUS
<1>1. ReadInv
  <2>1. Columns * 1 \in Nat
    BY ColumnsAssumption
  <2>2. Lines = 1
    BY DEF MetricsInit, Lines
  <2> QED
    BY <2>1, <2>2 DEF MetricsInit, ReadInv
<1>2. ReportInv
  BY FreshReport DEF MetricsInit, Fresh
<1>3. SentInv
  <2>1. /\ sent.TotalBackendConnectionErrors = 0
        /\ DOMAIN sent.ProxyConnectionErrors = {}
    BY DEF MetricsInit, Emit, NoReport
  <2>2. stats = <<>>
    BY DEF MetricsInit
  <2> QED
    BY <2>1, <2>2, EmptySum DEF SentInv
<1> QED
  BY <1>1, <1>2, <1>3 DEF MetricsInv

LEMMA MetricsInvStep == MetricsInv /\ [MetricsNext]_metricsVars => MetricsInv'
BY ReadInvStep, ReportInvStep, SentInvStep DEF MetricsInv

LEMMA MetricsInvSuffices == MetricsInv => SumsAgree /\ NeverPanics
<1> SUFFICES ASSUME MetricsInv PROVE SumsAgree /\ NeverPanics
  OBVIOUS
<1>1. NeverPanics
  BY DEF MetricsInv, ReadInv, NeverPanics
<1>2. ASSUME rpc = "select", stats # <<>>, NEW port \in DOMAIN sent.CurrentSessions
      PROVE  sent.CurrentSessions[port] = Sum([i \in RowsOf(port) |-> stats[i].sessions]) % Word
  <2>1. added = Len(stats) /\ sent.CurrentSessions = report.sessions
    BY <1>2 DEF MetricsInv, SentInv
  <2>2. DOMAIN stats = 1 .. Len(stats)
    BY DEF MetricsInv, ReadInv
  <2>3. AddedOf(port) = RowsOf(port)
    BY <2>1, <2>2 DEF AddedOf, RowsOf
  <2>4. sent.CurrentSessions[port] = Sum(SessionsOf(port)) % Word
    BY <1>2, <2>1 DEF MetricsInv, ReportInv
  <2> QED
    BY <2>3, <2>4 DEF SessionsOf
<1>3. sent.TotalBackendConnectionErrors = Sum(sent.ProxyConnectionErrors) % Word
  BY DEF MetricsInv, SentInv
<1> QED
  BY <1>1, <1>2, <1>3 DEF SumsAgree

\* The errors handed on for the proxies add up to the total, and the sessions of a
\* port are those of its rows, for answers of any length and however often the 64
\* bits wrap (metrics_converter.go:34 to 68).
THEOREM EmittedSumsAgree == MetricsSpec => []SumsAgree
<1>1. MetricsInv /\ [MetricsNext]_metricsVars => MetricsInv'
  BY MetricsInvStep
<1> QED
  BY <1>1, MetricsInvInit, MetricsInvSuffices, PTL DEF MetricsSpec

\* Wherever HAProxy's answer ends, csvToHaproxyStat finds every column it indexes
\* (haproxy_client.go:90 to 122), as long as HAProxy has that many columns.
THEOREM ConversionNeverPanics == MetricsSpec => []NeverPanics
<1>1. MetricsInv /\ [MetricsNext]_metricsVars => MetricsInv'
  BY MetricsInvStep
<1> QED
  BY <1>1, MetricsInvInit, MetricsInvSuffices, PTL DEF MetricsSpec
=============================================================================
