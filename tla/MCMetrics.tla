------------------------------ MODULE MCMetrics ------------------------------
(***************************************************************************)
(* An instance of Metrics for TLC: proxies as the marshaller names them and  *)
(* as proxyKey expects them, with numbers that are missing, wrap or overflow. *)
(***************************************************************************)
EXTENDS Metrics

Line(proxy, sessions, errors) ==
  [proxy |-> proxy, queued |-> 1, sessions |-> sessions, errors |-> errors,
   qtime |-> Text, ctime |-> 3]

MCRows ==
  {Line(<<Text, 1>>, 1, 2), Line(<<Text, 1>>, 1, 3), Line(<<Text, 1, Text>>, 0, Text),
   Line(<<Text, 1, 2>>, 3, Huge), Line(<<Text, Text, 1>>, 2, 1), Line(<<Text, Text, 70000>>, 2, 0)}
=============================================================================
