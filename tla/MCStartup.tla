------------------------------ MODULE MCStartup ------------------------------
(***************************************************************************)
(* An instance of Startup for TLC: PEM files of up to three parts, flags    *)
(* around zero, a fraction of a second and 65535 seconds.                   *)
(***************************************************************************)
EXTENDS Startup

MCContents ==
  UNION {[1 .. n -> Part \ {"headers"}] : n \in 0 .. 2}
    \cup {<<"headers">>, <<"headers", "key">>, <<"text", "cert", "key">>,
          <<"cert", "text", "key">>, <<"cert", "key", "text">>,
          <<"cert", "key", "otherKey">>, <<"cert", "badCert", "key">>}
MCDurations == {-2, 1, 2 * 65535, 2 * 65535 + 1}
=============================================================================
