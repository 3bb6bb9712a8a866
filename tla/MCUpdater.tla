------------------------------ MODULE MCUpdater ------------------------------
(***************************************************************************)
(* Instances of Updater for TLC: routes to two backends on one port with   *)
(* and without SNI, and the events and fetches that make them clash.       *)
(***************************************************************************)
EXTENDS Updater

CONSTANTS b1, b2, h, g

Mapping(sni, backend, index, ttl) ==
  [port |-> 1, sni |-> sni, backend |-> backend,
   tag |-> [guid |-> g, index |-> index], ttl |-> ttl]
Upsert(m) == [action |-> "Upsert", mapping |-> m]
Delete(m) == [action |-> "Delete", mapping |-> m]

\* A route that comes, is renewed and goes, next to one under its own key.
EventSet ==
  {Upsert(Mapping(Nil, b1, 0, Nil)), Upsert(Mapping(Nil, b1, 1, Nil)),
   Delete(Mapping(Nil, b1, 0, Nil)), Upsert(Mapping(h, b1, 0, 2)),
   [action |-> "Unknown", mapping |-> Mapping(Nil, b1, 0, Nil)]}

\* What a fetch finds: nothing, a second backend, or the other key only.
SnapshotSet ==
  {{}, {Mapping(Nil, b1, 1, Nil), Mapping(Nil, b2, 0, 2)}, {Mapping(h, b1, 0, Nil)}}

\* Fewer of both, for the run with a drain and the clock.
FewEvents == {Upsert(Mapping(Nil, b1, 0, Nil)), Delete(Mapping(Nil, b1, 0, Nil))}
FewSnapshots == {{Mapping(h, b1, 0, 2)}, {Mapping(Nil, b1, 1, Nil), Mapping(Nil, b2, 0, 2)}}

NoLeftover == {}

=============================================================================
