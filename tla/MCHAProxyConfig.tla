-------------------------- MODULE MCHAProxyConfig --------------------------
(* Instances of HAProxyConfig: every check of a key and of a backend both   *)
(* passes and fails somewhere.  Name 9 is not a valid DNS name.             *)
EXTENDS HAProxyConfig

Key(p, h) == [port |-> p, sniHostname |-> h]
Backend(a, p, t, i) == [address |-> a, port |-> p, tlsPort |-> t, instanceID |-> i]

MCKeys == {Key(0, 0), Key(1, 0), Key(1, 3), Key(1, 4), Key(1, 9), Key(2, 3)}

\* Plain, the same with TLS, TLS and port 0, TLS turned off, and one for each thing that is
\* wrong: no port at all, an address that is no name, TLS without an instance id.
MCBackends == {Backend(1, 7, 0, 5), Backend(1, 7, 8, 5), Backend(2, 0, 8, 6),
               Backend(2, 7, -1, 0), Backend(1, 0, 0, 5), Backend(9, 7, 0, 5),
               Backend(3, 7, 8, 0)}

MCValidNames == 1..6
=============================================================================
