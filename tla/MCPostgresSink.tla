---------------------------- MODULE MCPostgresSink ----------------------------
(***************************************************************************)
(* Two clients and one slice of two hours: enough for two calls to want    *)
(* the same two rows in opposite orders.                                   *)
(***************************************************************************)
EXTENDS TableSetup

CONSTANTS c1, c2, s1, h1, h2

=============================================================================
