----------------------------- MODULE DtlsBitmap -----------------------------
(* The replay bitmap of DTLS (d1_pkt.c).  A bitmap is the highest sequence   *)
(* number received and the bits of `map`, here the set of the positions that *)
(* are set: bit b stands for sequence number max_seq_num - b.                *)
EXTENDS Integers

CONSTANTS
    Window,         \* sizeof(bitmap->map) * 8
    Saturation      \* 128, where satsub64be stops counting

ASSUME WindowAssumption == Window \in Nat \ {0} /\ Saturation \in Nat /\ Window <= Saturation

EmptyBitmap == [max_seq_num |-> 0, map |-> {}]

(* The difference of two sequence numbers, saturated at both ends.  That the *)
(* byte arithmetic of the source computes this is checked in Satsub64be.     *)
satsub64be(v1, v2) ==
    IF v1 - v2 > Saturation THEN Saturation
    ELSE IF v1 - v2 < -Saturation THEN -Saturation
    ELSE v1 - v2

(* Mutant: the window is one too long. *)
ReplayCheckWide(bitmap, seq) ==
    \/ satsub64be(seq, bitmap.max_seq_num) > 0
    \/ /\ satsub64be(bitmap.max_seq_num, seq) <= Window
       /\ satsub64be(bitmap.max_seq_num, seq) \notin bitmap.map

dtls1_record_replay_check(bitmap, seq) ==
    \/ satsub64be(seq, bitmap.max_seq_num) > 0
    \/ /\ -satsub64be(seq, bitmap.max_seq_num) < Window
       /\ -satsub64be(seq, bitmap.max_seq_num) \notin bitmap.map

(* bitmap->map <<= shift; what leaves the word is lost. *)
ShiftLeft(map, shift) == {b \in 0 .. Window - 1 : b - shift \in map}

dtls1_record_bitmap_update(bitmap, seq) ==
    IF satsub64be(seq, bitmap.max_seq_num) > 0
    THEN [max_seq_num |-> seq,
          map |-> IF satsub64be(seq, bitmap.max_seq_num) < Window
                  THEN ShiftLeft(bitmap.map, satsub64be(seq, bitmap.max_seq_num)) \cup {0}
                  ELSE {0}]
    ELSE [bitmap EXCEPT !.map =
              @ \cup ({-satsub64be(seq, bitmap.max_seq_num)} \cap 0 .. Window - 1)]
=============================================================================
