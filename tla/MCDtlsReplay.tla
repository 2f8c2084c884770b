---------------------------- MODULE MCDtlsReplay ----------------------------
(* Instances of DtlsReplay for TLC, with the byte arithmetic of the          *)
(* comparison beside its abstract form.                                      *)
EXTENDS DtlsReplay, Satsub64be

(* Numbers that are neighbours, and numbers more than the window, than the   *)
(* saturation and than a byte apart.                                         *)
Arrivals == {0, 1, 2, 3, 4, 7, 8, 9, 12, 16, 63}

(* For every arrival and every state of the window the bytewise satsub64be   *)
(* is the saturated difference of the two numbers: no combination of borrows *)
(* between the bytes makes an old record new or a new one old.               *)
ComparesAsNumbers ==
    \A seq \in SeqNum :
        /\ Subtract(Encoded(seq), Encoded(bitmap.max_seq_num)) = satsub64be(seq, bitmap.max_seq_num)
        /\ Subtract(Encoded(bitmap.max_seq_num), Encoded(seq)) = satsub64be(bitmap.max_seq_num, seq)
=============================================================================
