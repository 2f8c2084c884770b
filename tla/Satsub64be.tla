----------------------------- MODULE Satsub64be -----------------------------
(* The byte arithmetic of satsub64be (d1_pkt.c), for bytes of ByteBits bits  *)
(* and numbers of Bytes bytes, the most significant first.                   *)
EXTENDS Integers

CONSTANTS
    Bytes,          \* 8
    ByteBits        \* 8

ASSUME BytesAssumption == Bytes \in Nat \ {0, 1} /\ ByteBits \in Nat \ {0, 1}

Base == 2 ^ ByteBits

(* x & 0x80 and x & 0xff of a number in two's complement. *)
SignBit(x) == (x % Base) >= Base \div 2
LowByte(x) == x % Base

LastDifference(v1, v2) == v1[Bytes] - v2[Bytes]

(* brw after the bytes Bytes - 1 down to i, before its shift. *)
Borrow(v1, v2) ==
    LET brw[i \in 1 .. Bytes] ==
            IF i = Bytes THEN LastDifference(v1, v2)
            ELSE v1[i] - v2[i] + (brw[i + 1] \div Base)
    IN  brw

(* Mutant: the borrows are inspected without regard to the sign bit. *)
SaturatesPositive(v1, v2, brw) == \E i \in 1 .. Bytes - 1 : LowByte(brw[i]) # 0

(* sat & 0xff: in which of the bytes above the last the difference shows. *)
Saturates(v1, v2, brw) ==
    IF SignBit(LastDifference(v1, v2))
    THEN \E i \in 1 .. Bytes - 1 : LowByte(-1 - brw[i]) # 0
    ELSE \E i \in 1 .. Bytes - 1 : LowByte(brw[i]) # 0

Difference(v1, v2, brw) ==
    IF Saturates(v1, v2, brw)
    THEN (brw[1] \div Base) * Base + Base \div 2
    ELSE (brw[1] \div Base) * Base + LowByte(LastDifference(v1, v2))

Subtract(v1, v2) == Difference(v1, v2, Borrow(v1, v2))

(* A sequence number as rr->seq_num holds it.  The most significant bytes    *)
(* are zero: it takes the 48 bits of the record header, and the epoch is     *)
(* kept elsewhere.                                                           *)
Encoded(n) == [i \in 1 .. Bytes |-> (n \div (Base ^ (Bytes - i))) % Base]
=============================================================================
