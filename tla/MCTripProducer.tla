---------------------------- MODULE MCTripProducer ----------------------------
(***************************************************************************)
(* Small instances of the producer: up to three rows, one of which goes to *)
(* quarantine, a queue of two messages, calls with arguments no result can *)
(* have, and topics that other processes may create at any time.           *)
(***************************************************************************)
EXTENDS TopicSetup

CONSTANTS a, b, q, p1

=============================================================================
