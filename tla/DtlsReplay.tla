----------------------------- MODULE DtlsReplay -----------------------------
(* Replay detection for the records of one epoch (dtls1_get_record): records *)
(* arrive in any order and any number of times, and those that pass the      *)
(* check are accepted and marked.                                            *)
EXTENDS DtlsBitmap

CONSTANTS SeqNum    \* the sequence numbers that may arrive

ASSUME SeqNumAssumption == SeqNum \subseteq Nat

VARIABLES
    bitmap,         \* s->d1->bitmap
    count           \* history: how often each record was accepted

vars == <<bitmap, count>>

accepted == {seq \in SeqNum : count[seq] > 0}

Init == bitmap = EmptyBitmap /\ count = [seq \in SeqNum |-> 0]

(* Mutant: the record is accepted without a check. *)
ReceiveUnchecked(seq) ==
    /\ bitmap' = dtls1_record_bitmap_update(bitmap, seq)
    /\ count' = [count EXCEPT ![seq] = @ + 1]

Receive(seq) ==
    /\ dtls1_record_replay_check(bitmap, seq)
    /\ bitmap' = dtls1_record_bitmap_update(bitmap, seq)
    /\ count' = [count EXCEPT ![seq] = @ + 1]

Drop(seq) == ~dtls1_record_replay_check(bitmap, seq) /\ UNCHANGED vars

Next == \E seq \in SeqNum : Receive(seq) \/ Drop(seq)

Spec == Init /\ [][Next]_vars

-----------------------------------------------------------------------------
(* Proved as part of the invariant of DtlsReplayProofs. *)
TypeOK ==
    /\ bitmap \in [max_seq_num : Nat, map : SUBSET (0 .. Window - 1)]
    /\ count \in [SeqNum -> Nat]

(* Inside the window the bits are exactly the records accepted, and nothing  *)
(* above the window was accepted.                                            *)
BitsAreAccepted ==
    /\ \A seq \in accepted : seq <= bitmap.max_seq_num
    /\ \A b \in 0 .. Window - 1 : b \in bitmap.map <=> bitmap.max_seq_num - b \in accepted

(* A record of the window passes the check if and only if it was not         *)
(* accepted before: reordering within the window loses nothing, and no       *)
(* arrival, however late, is accepted twice (dtls1_record_replay_check).     *)
CheckIsExact ==
    \A seq \in SeqNum :
        dtls1_record_replay_check(bitmap, seq)
            <=> seq \notin accepted /\ seq > bitmap.max_seq_num - Window

Once == INSTANCE DtlsOnce

(* The bitmap implements "at most once" for every sequence number. *)
AtMostOnce == Once!Spec
=============================================================================
