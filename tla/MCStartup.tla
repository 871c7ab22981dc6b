----------------------------- MODULE MCStartup ------------------------------
(* Startup with three makers and three servers, one of them launchd's. *)
EXTENDS Startup

CONSTANTS m1, m2, m3, s1, s2, s3

\* Makers beside each other, makers beside a server, servers beside each other.
Together == {{m1, m2, m3}, {m1, m2, s1}, {s1, s2, s3}}
=============================================================================
