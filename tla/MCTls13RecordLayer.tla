------------------------- MODULE MCTls13RecordLayer -------------------------
(* Instances of Tls13RecordLayer for TLC. *)
EXTENDS Tls13RecordLayer

AllTraffic == Kinds
=============================================================================
