-------------------------- MODULE DtlsReplayProofs --------------------------
(* The replay bitmap is exact, for every window and all sequence numbers.    *)
EXTENDS DtlsReplay, DtlsBitmapProofs

USE WindowAssumption, SeqNumAssumption

Inv == TypeOK /\ BitsAreAccepted

(* With the invariant, dtls1_record_replay_check accepts exactly the records *)
(* of the window and above that were not accepted.                           *)
LEMMA ExactCheck == Inv => CheckIsExact
<1> SUFFICES ASSUME Inv, NEW seq \in SeqNum
             PROVE  dtls1_record_replay_check(bitmap, seq)
                        <=> seq \notin accepted /\ seq > bitmap.max_seq_num - Window
  BY DEF CheckIsExact
<1>0. PICK max \in Nat : max = bitmap.max_seq_num
  BY DEF Inv, TypeOK
<1>1. seq \in Nat /\ Offset(seq, max)
  BY Satsub
<1>2. CASE seq > max
  <2>1. satsub64be(seq, max) > 0
    BY <1>1, <1>2 DEF Offset
  <2>2. seq \notin accepted
    BY <1>0, <1>1, <1>2 DEF Inv, BitsAreAccepted
  <2> QED
    BY <1>0, <1>1, <1>2, <2>1, <2>2 DEF dtls1_record_replay_check
<1>3. CASE seq <= max /\ max - seq < Window
  <2>1. -satsub64be(seq, max) = max - seq /\ ~(satsub64be(seq, max) > 0)
    BY <1>1, <1>3 DEF Offset
  <2>2. max - seq \in 0 .. Window - 1 /\ max - (max - seq) = seq
    BY <1>1, <1>3
  <2>3. max - seq \in bitmap.map <=> seq \in accepted
    BY <1>0, <2>2 DEF Inv, BitsAreAccepted
  <2> QED
    BY <1>0, <1>1, <1>3, <2>1, <2>3 DEF dtls1_record_replay_check
<1>4. CASE seq <= max /\ max - seq >= Window
  <2>1. -satsub64be(seq, max) >= Window /\ ~(satsub64be(seq, max) > 0) /\ satsub64be(seq, max) \in Int
    BY <1>1, <1>4 DEF Offset
  <2> QED
    BY <1>0, <1>1, <1>4, <2>1 DEF dtls1_record_replay_check
<1> QED
  BY <1>0, <1>1, <1>2, <1>3, <1>4

(* dtls1_record_bitmap_update keeps the bits in step with what is accepted,  *)
(* whether the window moves a little, moves past itself, or stays.           *)
LEMMA UpdateKeepsInv ==
    ASSUME Inv, NEW seq \in SeqNum, Receive(seq)
    PROVE  Inv'
<1>0. PICK max \in Nat : max = bitmap.max_seq_num
  BY DEF Inv, TypeOK
<1>s. Offset(seq, max)
  BY Satsub
<1>a. \A i \in Int : i > max => i \notin accepted
  BY <1>0 DEF Inv, TypeOK, BitsAreAccepted, accepted
<1>1. /\ seq \in Nat /\ max \in Nat /\ bitmap.map \subseteq 0 .. Window - 1
      /\ accepted' = accepted \cup {seq}
      /\ bitmap' = dtls1_record_bitmap_update(bitmap, seq)
  BY DEF Inv, TypeOK, Receive, accepted
<1>n. accepted \subseteq Nat
  BY DEF accepted
<1>t. count' \in [SeqNum -> Nat]
  BY DEF Inv, TypeOK, Receive
<1>2. CASE seq > max /\ seq - max < Window
  <2> DEFINE shift == seq - max
  <2>1. satsub64be(seq, max) = shift /\ shift \in 1 .. Window - 1
    BY <1>1, <1>s, <1>2 DEF Offset
  <2>0. satsub64be(seq, max) > 0 /\ satsub64be(seq, max) < Window
    BY <2>1
  <2>2. bitmap' = [max_seq_num |-> seq, map |-> ShiftLeft(bitmap.map, shift) \cup {0}]
    <3>1. bitmap' = [max_seq_num |-> seq,
                     map |-> ShiftLeft(bitmap.map, satsub64be(seq, max)) \cup {0}]
      BY <1>0, <1>1, <2>0 DEF dtls1_record_bitmap_update
    <3> QED
      BY <2>1, <3>1
  <2>3. TypeOK'
    BY <1>1, <1>t, <2>2 DEF Inv, TypeOK, ShiftLeft
  <2>4. \A s \in accepted' : s <= bitmap'.max_seq_num
    BY <1>0, <1>1, <1>n, <1>2, <2>2 DEF Inv, TypeOK, BitsAreAccepted
  <2>5. ASSUME NEW b \in 0 .. Window - 1
        PROVE  b \in bitmap'.map <=> bitmap'.max_seq_num - b \in accepted'
    <3>1. bitmap'.map = ShiftLeft(bitmap.map, shift) \cup {0} /\ bitmap'.max_seq_num = seq
      BY <2>2
    <3>2. CASE b = 0
      BY <1>1, <3>1, <3>2
    <3>3. CASE b # 0 /\ b < shift
      <4>1. b \notin ShiftLeft(bitmap.map, shift)
        BY <1>1, <2>1, <3>3 DEF ShiftLeft
      <4>2. seq - b > max /\ seq - b # seq
        BY <1>0, <1>1, <2>1, <3>3
      <4>3. seq - b \notin accepted
        BY <1>1, <1>a, <4>2
      <4> QED
        BY <1>0, <1>1, <3>1, <3>3, <4>1, <4>2, <4>3
    <3>4. CASE b >= shift
      <4>1. b - shift \in 0 .. Window - 1 /\ max - (b - shift) = seq - b /\ seq - b # seq
        BY <1>1, <2>1, <3>4
      <4>2. b - shift \in bitmap.map <=> seq - b \in accepted
        BY <1>0, <4>1 DEF Inv, BitsAreAccepted
      <4>3. b \in ShiftLeft(bitmap.map, shift) <=> b - shift \in bitmap.map
        BY DEF ShiftLeft
      <4> QED
        BY <1>1, <2>1, <3>1, <3>4, <4>1, <4>2, <4>3
    <3> QED
      BY <1>1, <2>1, <3>2, <3>3, <3>4
  <2> QED
    BY <1>0, <2>3, <2>4, <2>5 DEF Inv, BitsAreAccepted
<1>3. CASE seq > max /\ seq - max >= Window
  <2>1. satsub64be(seq, max) > 0 /\ ~(satsub64be(seq, max) < Window)
    BY <1>1, <1>s, <1>3 DEF Offset
  <2>2. bitmap' = [max_seq_num |-> seq, map |-> {0}]
    BY <1>0, <1>1, <1>s, <2>1 DEF dtls1_record_bitmap_update, Offset
  <2>3. TypeOK'
    BY <1>1, <1>t, <2>2 DEF Inv, TypeOK
  <2>4. \A s \in accepted' : s <= bitmap'.max_seq_num
    BY <1>0, <1>1, <1>n, <1>3, <2>2 DEF Inv, TypeOK, BitsAreAccepted
  <2>5. ASSUME NEW b \in 0 .. Window - 1
        PROVE  b \in bitmap'.map <=> bitmap'.max_seq_num - b \in accepted'
    <3>1. bitmap'.map = {0} /\ bitmap'.max_seq_num = seq
      BY <1>0, <2>2
    <3>2. CASE b = 0
      BY <1>1, <3>1, <3>2
    <3>3. CASE b # 0
      <4>1. seq - b > max /\ seq - b # seq
        BY <1>1, <1>3, <3>3
      <4>2. seq - b \notin accepted
        BY <1>1, <1>a, <4>1
      <4> QED
        BY <1>1, <3>1, <3>3, <4>1, <4>2
    <3> QED
      BY <3>2, <3>3
  <2> QED
    BY <1>0, <2>3, <2>4, <2>5 DEF Inv, BitsAreAccepted
<1>4. CASE seq <= max
  <2>1. ~(satsub64be(seq, max) > 0) /\ seq > max - Window
    <3>1. CheckIsExact
      BY ExactCheck
    <3> QED
      BY <1>0, <1>s, <1>1, <1>4, <3>1 DEF CheckIsExact, Receive, Offset
  <2>2. -satsub64be(seq, max) = max - seq /\ max - seq \in 0 .. Window - 1
    BY <1>1, <1>s, <1>4, <2>1 DEF Offset
  <2>3. bitmap' = [bitmap EXCEPT !.map = @ \cup {max - seq}]
    BY <1>0, <1>1, <2>1, <2>2 DEF dtls1_record_bitmap_update
  <2>4. bitmap'.max_seq_num = max /\ bitmap'.map = bitmap.map \cup {max - seq}
    BY <1>0, <2>3 DEF Inv, TypeOK
  <2>5. TypeOK'
    BY <1>1, <1>t, <2>2, <2>3 DEF Inv, TypeOK
  <2>6. \A s \in accepted' : s <= bitmap'.max_seq_num
    BY <1>0, <1>1, <1>n, <1>4, <2>4 DEF Inv, BitsAreAccepted
  <2>7. ASSUME NEW b \in 0 .. Window - 1
        PROVE  b \in bitmap'.map <=> bitmap'.max_seq_num - b \in accepted'
    <3>1. b = max - seq <=> max - b = seq
      BY <1>0, <1>1
    <3>2. b \in bitmap.map <=> max - b \in accepted
      BY <1>0 DEF Inv, BitsAreAccepted
    <3> QED
      BY <1>1, <2>4, <3>1, <3>2
  <2> QED
    BY <1>0, <2>5, <2>6, <2>7 DEF Inv, BitsAreAccepted
<1> QED
  BY <1>1, <1>2, <1>3, <1>4

(* The bits of the bitmap are the accepted records of the window, always. *)
THEOREM Invariance == Spec => []Inv
<1>1. Init => Inv
  BY DEF Init, Inv, TypeOK, BitsAreAccepted, EmptyBitmap, accepted
<1>2. Inv /\ [Next]_vars => Inv'
  <2> SUFFICES ASSUME Inv, [Next]_vars
               PROVE  Inv'
    OBVIOUS
  <2>1. ASSUME NEW seq \in SeqNum, Receive(seq)
        PROVE  Inv'
    BY <2>1, UpdateKeepsInv
  <2>2. CASE UNCHANGED vars
    BY <2>2 DEF vars, Inv, TypeOK, BitsAreAccepted, accepted
  <2> QED
    BY <2>1, <2>2 DEF Next, Drop
<1> QED
  BY <1>1, <1>2, PTL DEF Spec

(* The check is exact: within the window it accepts a record if and only if  *)
(* the record is new.                                                        *)
THEOREM ExactlyTheNew == Spec => []CheckIsExact
  BY Invariance, ExactCheck, PTL

(* The bitmap implements "at most once", for every window. *)
THEOREM ImplementsOnce == Spec => AtMostOnce
<1>1. Init => Once!Init
  BY DEF Init, Once!Init
<1>2. Inv /\ [Next]_vars => [Once!Next]_count
  <2> SUFFICES ASSUME Inv, [Next]_vars
               PROVE  [Once!Next]_count
    OBVIOUS
  <2>1. ASSUME NEW seq \in SeqNum, Receive(seq)
        PROVE  Once!Next
    <3>1. seq \notin accepted
      BY <2>1, ExactCheck DEF CheckIsExact, Receive
    <3>2. count[seq] = 0
      BY <3>1 DEF Inv, TypeOK, accepted
    <3>3. count[seq] + 1 = 1
      BY <3>2
    <3>4. count' = [count EXCEPT ![seq] = 1]
      BY <2>1, <3>3 DEF Receive
    <3> QED
      BY <3>2, <3>4 DEF Once!Next, Once!Accept
  <2>2. CASE UNCHANGED vars
    BY <2>2 DEF vars
  <2> QED
    BY <2>1, <2>2 DEF Next, Drop
<1> QED
  BY <1>1, <1>2, Invariance, PTL DEF Spec, AtMostOnce, Once!Spec
=============================================================================
