------------------------------- MODULE Metrics -------------------------------
(***************************************************************************)
(* The metrics reporter: emitStats of metrics_reporter, GetStats of its      *)
(* haproxy_client, and the conversion of HAProxy's answer to metrics.        *)
(*                                                                         *)
(* HAProxy answers with a line of column names and one line for each proxy   *)
(* and server; a read returns any part of what is left.  HAProxy may end     *)
(* at any time, in the middle of a line too.  A proxy's name is the sequence *)
(* of its parts between "_", numbers or Text; a number in a column may be    *)
(* missing (Text) or beyond 64 bits (Huge).                                  *)
(***************************************************************************)
EXTENDS Integers, Sequences, FiniteSets

CONSTANTS
  Text, Huge,
  Rows,      \* the lines HAProxy may answer with, without the column names
  Columns,   \* columns of each line
  Used,      \* how many of them the conversion counts on, 62
  MaxRows,   \* bound: lines of an answer
  Word       \* stands for 2^64

Column == (0 .. Word - 1) \cup {Text, Huge}
Row == [proxy : Seq(Nat \cup {Text}), queued : Column, sessions : Column,
        errors : Column, qtime : Column, ctime : Column]

ASSUME RowsAssumption == Rows \subseteq Row /\ Text \notin Int /\ Huge \notin Int
ASSUME ColumnsAssumption == Used \in Nat /\ Columns \in Nat \ {0} /\ Used <= Columns
ASSUME WordAssumption == Word \in Nat \ {0} /\ MaxRows \in Nat

VARIABLES
  rpc,      \* the reporter: at its select, or where it is in GetStats and Emit
  answer,   \* the lines HAProxy is sending
  buffer,   \* how many columns of it have been read
  stats,    \* the HaproxyStats
  added,    \* how many of them Convert has added to its report
  report,   \* the MetricsReport
  failed,   \* whether a call of this round has failed (history)
  sent      \* the numbers that were handed to Send last

metricsVars == <<rpc, answer, buffer, stats, added, report, failed, sent>>

NoReport == [queued |-> 0, errors |-> 0, qtime |-> 0, ctime |-> 0,
             times |-> <<>>, sessions |-> <<>>, routes |-> <<>>]

-----------------------------------------------------------------------------
(* The conversion.                                                         *)

\* ParseUint: 0 for what is no number, the largest one for what is too large.
convertToInt(c) == CASE c = Text -> 0 [] c = Huge -> Word - 1 [] OTHER -> c

csvToHaproxyStat(row) ==
  [proxy |-> row.proxy, queued |-> convertToInt(row.queued),
   sessions |-> convertToInt(row.sessions), errors |-> convertToInt(row.errors),
   qtime |-> convertToInt(row.qtime), ctime |-> convertToInt(row.ctime)]

Plus(x, y) == (x + y) % Word

\* Adds to the value that a map has for a key; 0 when it has none.
AddTo(map, key, x) ==
  [k \in DOMAIN map \cup {key} |->
     IF k # key THEN map[k] ELSE Plus(IF key \in DOMAIN map THEN map[key] ELSE 0, x)]

\* The third of three parts, if it is a port.
proxyKey(proxy) == IF Len(proxy) = 3 /\ proxy[3] \in 0 .. 65535 THEN proxy[3] ELSE Text

\* Adds a number to those of the proxy's port.
populateProxyStats(ports, proxy, x) ==
  IF proxyKey(proxy) = Text THEN ports ELSE AddTo(ports, proxyKey(proxy), x)

\* The errors of a proxy are those of its last line.
AddStatLastErrors(r, stat) ==
  [queued |-> Plus(r.queued, stat.queued), errors |-> Plus(r.errors, stat.errors),
   qtime |-> Plus(r.qtime, stat.qtime), ctime |-> Plus(r.ctime, stat.ctime),
   times |-> populateProxyStats(r.times, stat.proxy, stat.ctime),
   sessions |-> populateProxyStats(r.sessions, stat.proxy, stat.sessions),
   routes |-> [p \in DOMAIN r.routes \cup {stat.proxy} |->
                 IF p = stat.proxy THEN stat.errors ELSE r.routes[p]]]

\* The loop of Convert.
AddStat(r, stat) ==
  [queued |-> Plus(r.queued, stat.queued), errors |-> Plus(r.errors, stat.errors),
   qtime |-> Plus(r.qtime, stat.qtime), ctime |-> Plus(r.ctime, stat.ctime),
   times |-> populateProxyStats(r.times, stat.proxy, stat.ctime),
   sessions |-> populateProxyStats(r.sessions, stat.proxy, stat.sessions),
   routes |-> AddTo(r.routes, stat.proxy, stat.errors)]

\* Its end: total times become average times.
Averaged(r, rows) == [r EXCEPT !.qtime = @ \div rows, !.ctime = @ \div rows]

\* What is handed to the Send of each metric, for a port or a proxy with its name;
\* a RoutingKey is named by its port alone.  Send rounds to a float64 beyond 2^53.
Emit(r) ==
  [TotalCurrentQueuedRequests |-> r.queued, TotalBackendConnectionErrors |-> r.errors,
   AverageQueueTimeMs |-> r.qtime, AverageConnectTimeMs |-> r.ctime,
   ConnectionTime |-> r.times, CurrentSessions |-> r.sessions,
   ProxyConnectionErrors |-> r.routes]

-----------------------------------------------------------------------------
(* The reporter and GetStats.                                              *)

MetricsInit ==
  /\ rpc = "select" /\ answer = <<>> /\ buffer = 0 /\ stats = <<>>
  /\ added = 0 /\ report = NoReport /\ failed = FALSE /\ sent = Emit(NoReport)

Tick ==
  /\ rpc = "select" /\ rpc' = "dial"
  /\ \E n \in 0 .. MaxRows : answer' \in [1 .. n -> Rows]
  /\ buffer' = 0 /\ stats' = <<>> /\ added' = 0 /\ report' = NoReport /\ failed' = FALSE
  /\ UNCHANGED sent

DialAndWrite ==
  /\ rpc = "dial" /\ rpc' = "read"
  /\ UNCHANGED <<answer, buffer, stats, added, report, failed, sent>>

DialOrWriteError ==
  /\ rpc = "dial" /\ rpc' = "emit"
  /\ failed' = TRUE
  /\ UNCHANGED <<answer, buffer, stats, added, report, sent>>

\* The column names and the rows.
Lines == 1 + Len(answer)

Read ==
  /\ rpc = "read"
  /\ buffer' \in buffer + 1 .. Columns * Lines
  /\ UNCHANGED <<rpc, answer, stats, added, report, failed, sent>>

\* An error is taken for the end of the answer.
ReadErrorAsEOF ==
  /\ rpc = "read" /\ rpc' = "csv"
  /\ failed' = TRUE
  /\ UNCHANGED <<answer, buffer, stats, added, report, sent>>

ReadError ==
  /\ rpc = "read" /\ rpc' = "emit"
  /\ failed' = TRUE
  /\ UNCHANGED <<answer, buffer, stats, added, report, sent>>

\* HAProxy has sent everything, or has ended.
ReadEOF ==
  /\ rpc = "read" /\ rpc' = "csv"
  /\ UNCHANGED <<answer, buffer, stats, added, report, failed, sent>>

\* The lines that were read: whole ones, and perhaps the beginning of one more.
Whole == buffer \div Columns
Cut == buffer % Columns
Records == Whole + (IF Cut > 0 THEN 1 ELSE 0)
Width(i) == IF i <= Whole THEN Columns ELSE Cut

\* The reader takes lines of any length.
AnyFieldCount == FALSE

\* encoding/csv refuses a line that has not as many columns as the first one.
FieldCountError == \E i \in 2 .. Records : Width(i) # Width(1)

\* The first line is skipped; a column that is not there ends the process.
ReadCsv ==
  /\ rpc = "csv"
  /\ rpc' = IF ~FieldCountError /\ \E i \in 2 .. Records : Width(i) < Used
              THEN "panic" ELSE "emit"
  /\ stats' = IF FieldCountError THEN <<>>
              ELSE [i \in 1 .. Records - 1 |-> csvToHaproxyStat(answer[i])]
  /\ UNCHANGED <<answer, buffer, added, report, failed, sent>>

NothingToEmit ==
  /\ rpc = "emit" /\ rpc' = "select"
  /\ stats = <<>>
  /\ UNCHANGED <<answer, buffer, stats, added, report, failed, sent>>

Convert ==
  /\ rpc = "emit" /\ added < Len(stats)
  /\ report' = AddStat(report, stats[added + 1])
  /\ added' = added + 1
  /\ UNCHANGED <<rpc, answer, buffer, stats, failed, sent>>

EmitStats ==
  /\ rpc = "emit" /\ rpc' = "select"
  /\ stats # <<>> /\ added = Len(stats)
  /\ sent' = Emit(Averaged(report, Len(stats)))
  /\ UNCHANGED <<answer, buffer, stats, added, report, failed>>

MetricsNext ==
  \/ Tick \/ DialAndWrite \/ DialOrWriteError
  \/ Read \/ ReadError \/ ReadEOF \/ ReadCsv
  \/ NothingToEmit \/ Convert \/ EmitStats

MetricsSpec == MetricsInit /\ [][MetricsNext]_metricsVars

-----------------------------------------------------------------------------
(* Properties.                                                             *)

\* The sum of a function's values: how many units there are of all of them.
Units(f) == UNION {{x} \X (1 .. f[x]) : x \in DOMAIN f}
Sum(f) == Cardinality(Units(f))

RowsOf(port) == {i \in DOMAIN stats : Len(stats[i].proxy) = 3 /\ stats[i].proxy[3] = port}

\* What is handed on for the single proxies adds up to the total, and what is
\* handed on for a port to what its rows said, with rows of one name, rows
\* without a number and numbers that wrap around.
SumsAgree ==
  /\ sent.TotalBackendConnectionErrors = Sum(sent.ProxyConnectionErrors) % Word
  /\ rpc = "select" /\ stats # <<>> =>
       \A port \in DOMAIN sent.CurrentSessions :
         sent.CurrentSessions[port] = Sum([i \in RowsOf(port) |-> stats[i].sessions]) % Word

\* A round in which the socket failed emits nothing, whatever it had read.
NothingFromFailedRead == [][failed => sent' = sent]_metricsVars

\* No answer that ends in the middle of a line makes the conversion look at a
\* column that is not there, which would end the process.
NeverPanics == rpc # "panic"
=============================================================================
