------------------------------ MODULE DtlsOnce ------------------------------
(* What replay detection promises, without windows: a record is accepted at  *)
(* most once.                                                                *)
CONSTANTS SeqNum
VARIABLES count     \* how often each record was accepted

Init == count = [seq \in SeqNum |-> 0]

Accept(seq) == count[seq] = 0 /\ count' = [count EXCEPT ![seq] = 1]

Next == \E seq \in SeqNum : Accept(seq)

Spec == Init /\ [][Next]_count
=============================================================================
