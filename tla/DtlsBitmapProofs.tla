-------------------------- MODULE DtlsBitmapProofs --------------------------
(* What the operations of the replay bitmap do, for every window.            *)
EXTENDS DtlsBitmap, TLAPS

USE WindowAssumption

Bitmap == [max_seq_num : Nat, map : SUBSET (0 .. Window - 1)]

(* What satsub64be says of the distance of two numbers. *)
Offset(a, b) ==
    /\ satsub64be(a, b) \in Int
    /\ satsub64be(a, b) > 0 <=> a > b
    /\ a > b /\ a - b < Window => satsub64be(a, b) = a - b
    /\ a > b /\ a - b >= Window => satsub64be(a, b) >= Window
    /\ a <= b /\ b - a < Window => -satsub64be(a, b) = b - a
    /\ a <= b /\ b - a >= Window => -satsub64be(a, b) >= Window

(* Up to the window, saturation does not show. *)
LEMMA Satsub ==
    ASSUME NEW a \in Nat, NEW b \in Nat
    PROVE  Offset(a, b)
  BY SMTT(60) DEF satsub64be, Offset

(* The check, without the saturation. *)
LEMMA CheckPlain ==
    ASSUME NEW m \in Bitmap, NEW x \in Nat
    PROVE  ~dtls1_record_replay_check(m, x) <=>
               /\ x <= m.max_seq_num
               /\ m.max_seq_num - x < Window => m.max_seq_num - x \in m.map
<1>1. PICK max \in Nat : max = m.max_seq_num
  BY DEF Bitmap
<1>2. Offset(x, max)
  BY Satsub
<1>3. CASE x > max
  BY <1>1, <1>2, <1>3 DEF Offset, dtls1_record_replay_check
<1>4. CASE x <= max /\ max - x < Window
  BY <1>1, <1>2, <1>4 DEF Offset, dtls1_record_replay_check
<1>5. CASE x <= max /\ max - x >= Window
  BY <1>1, <1>2, <1>5 DEF Offset, dtls1_record_replay_check
<1> QED BY <1>1, <1>3, <1>4, <1>5

(* The update, without the saturation. *)
LEMMA UpdatePlain ==
    ASSUME NEW m \in Bitmap, NEW q \in Nat
    PROVE  LET n == dtls1_record_bitmap_update(m, q)
               max == m.max_seq_num
           IN  /\ n \in Bitmap
               /\ q > max => /\ n.max_seq_num = q /\ 0 \in n.map
                             /\ \A b \in m.map : b + (q - max) < Window => b + (q - max) \in n.map
               /\ q <= max => /\ n.max_seq_num = max /\ m.map \subseteq n.map
                              /\ max - q < Window => max - q \in n.map
<1> DEFINE n == dtls1_record_bitmap_update(m, q)
<1>1. PICK max \in Nat : max = m.max_seq_num
  BY DEF Bitmap
<1>2. Offset(q, max) /\ m.map \subseteq 0 .. Window - 1 /\ m = [max_seq_num |-> max, map |-> m.map]
  BY <1>1, Satsub DEF Bitmap
<1>3. CASE q > max /\ q - max < Window
  <2>1. satsub64be(q, max) = q - max /\ q - max > 0
    BY <1>2, <1>3 DEF Offset
  <2>2. n = [max_seq_num |-> q, map |-> ShiftLeft(m.map, q - max) \cup {0}]
    BY <1>1, <1>3, <2>1 DEF dtls1_record_bitmap_update
  <2>3. ASSUME NEW b \in m.map, b + (q - max) < Window PROVE b + (q - max) \in ShiftLeft(m.map, q - max)
    <3>1. b \in 0 .. Window - 1 /\ b + (q - max) - (q - max) = b /\ b + (q - max) \in 0 .. Window - 1
      BY <1>2, <1>3, <2>3
    <3> QED BY <3>1 DEF ShiftLeft
  <2>4. ShiftLeft(m.map, q - max) \cup {0} \subseteq 0 .. Window - 1
    BY DEF ShiftLeft
  <2> QED BY <1>1, <1>3, <2>2, <2>3, <2>4 DEF Bitmap
<1>4. CASE q > max /\ q - max >= Window
  <2>1. n = [max_seq_num |-> q, map |-> {0}]
    BY <1>1, <1>2, <1>4 DEF dtls1_record_bitmap_update, Offset
  <2>2. \A b \in m.map : ~(b + (q - max) < Window)
    BY <1>2, <1>4
  <2> QED BY <1>1, <1>4, <2>1, <2>2 DEF Bitmap
<1>5. CASE q <= max
  <2> DEFINE new == {-satsub64be(q, max)} \cap 0 .. Window - 1
  <2>1. n = [m EXCEPT !.map = m.map \cup new]
    BY <1>1, <1>2, <1>5 DEF dtls1_record_bitmap_update, Offset
  <2>2. max - q < Window => max - q \in new
    BY <1>2, <1>5 DEF Offset
  <2> HIDE DEF new
  <2>3. new \subseteq 0 .. Window - 1
    BY DEF new
  <2> QED BY <1>1, <1>2, <1>5, <2>1, <2>2, <2>3 DEF Bitmap
<1> QED BY <1>1, <1>3, <1>4, <1>5

(* A record that was marked does not pass the check, and no later record     *)
(* changes that.                                                             *)
LEMMA MarkedStays ==
    ASSUME NEW m \in Bitmap, NEW q \in Nat, NEW n, n = dtls1_record_bitmap_update(m, q)
    PROVE  /\ n \in Bitmap
           /\ ~dtls1_record_replay_check(n, q)
           /\ \A x \in Nat : ~dtls1_record_replay_check(m, x) => ~dtls1_record_replay_check(n, x)
<1>1. PICK max \in Nat : max = m.max_seq_num
  BY DEF Bitmap
<1>2. /\ n \in Bitmap
      /\ q > max => /\ n.max_seq_num = q /\ 0 \in n.map
                    /\ \A b \in m.map : b + (q - max) < Window => b + (q - max) \in n.map
      /\ q <= max => /\ n.max_seq_num = max /\ m.map \subseteq n.map
                     /\ max - q < Window => max - q \in n.map
  BY <1>1, UpdatePlain
<1>3. ~dtls1_record_replay_check(n, q)
  <2>1. CASE q > max
    BY <1>2, <2>1, CheckPlain
  <2>2. CASE q <= max
    BY <1>2, <2>2, CheckPlain
  <2> QED BY <2>1, <2>2
<1>4. ASSUME NEW x \in Nat, ~dtls1_record_replay_check(m, x)
      PROVE  ~dtls1_record_replay_check(n, x)
  <2>1. x <= max /\ (max - x < Window => max - x \in m.map)
    BY <1>1, <1>4, CheckPlain
  <2>2. CASE q > max
    <3>1. x <= q /\ (q - x < Window => max - x < Window /\ max - x + (q - max) = q - x)
      BY <2>1, <2>2
    <3>2. q - x < Window => q - x \in n.map
      BY <1>2, <2>1, <2>2, <3>1
    <3> QED BY <1>2, <2>2, <3>1, <3>2, CheckPlain
  <2>3. CASE q <= max
    BY <1>2, <2>1, <2>3, CheckPlain
  <2> QED BY <2>2, <2>3
<1> QED BY <1>2, <1>3, <1>4
=============================================================================
