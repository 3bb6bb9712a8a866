----------------------------- MODULE MCTableSync -----------------------------
(***************************************************************************)
(* Instances of TableSync for TLC.  Events and Snapshots of Updater are    *)
(* not used: the routing API makes them.                                   *)
(***************************************************************************)
EXTENDS TableSync

None == {}
=============================================================================
