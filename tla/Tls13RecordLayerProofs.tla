----------------------- MODULE Tls13RecordLayerProofs -----------------------
(***************************************************************************)
(* Proofs about Tls13RecordLayer, for every value of its constants: first  *)
(* of what an endpoint writes, then of what it reads.                      *)
(*                                                                         *)
(* WireInOrder and DataExactlyOnce speak of the records that were written. *)
(* They are not inductive: what is written next is decided by the sealed   *)
(* record in wrec, the key and sequence number of the next one, and the    *)
(* replies and alerts still pending.  Good says how these continue what    *)
(* was written, Placed that the next record to be sealed does, and Kept    *)
(* allows for the one way to lose that: a call that returned FAILURE with  *)
(* an alert still pending.                                                 *)
(***************************************************************************)
EXTENDS Tls13RecordLayer, TLAPS, FunctionTheorems, FiniteSetTheorems, SequenceTheorems

RL == [wrec : Record, wrec_appdata_len : {0, 1}, gen : Nat, seq : 0 .. MaxSeq,
       wbio : Seq(Record), alert_data : 0 .. NoAlert, phh_data : BOOLEAN,
       key_update_request : BOOLEAN, read_closed : BOOLEAN, write_closed : BOOLEAN,
       ret : Ret, room : Nat]

(* wrec holds a sealed record. *)
Sealed(r) == r.wrec.ct \in {"app", "handshake", "alert"}

(* The sealed record comes next on the wire and has the latest sequence     *)
(* number; base is the number of chunks acknowledged to the application.    *)
WrecNext(r, base) ==
    Sealed(r) =>
        /\ NextIs(r.wbio, r.wrec.gen, r.wrec.seq)
        /\ r.wrec.gen = r.gen
        /\ r.seq = r.wrec.seq + 1
        /\ r.wrec.ct = "app" => r.wrec.content = base + 1 /\ r.wrec_appdata_len = 0
        /\ r.wrec.ct = "handshake" => r.phh_data

Good(r, base) ==
    /\ r \in RL
    /\ InOrder(r.wbio)
    /\ Chunks(r.wbio, base + r.wrec_appdata_len)
    /\ WrecNext(r, base)
    /\ r.phh_data => r.key_update_request

(* The next record to be sealed comes next on the wire. *)
Placed(r) == r.wrec.ct = "none" => r.write_closed \/ NextIs(r.wbio, r.gen, r.seq)

Ready(r, base) == Good(r, base) /\ Placed(r)

Kept(r, base) ==
    Good(r, base) /\ (Placed(r) \/ (r.ret = "FAILURE" /\ r.alert_data # NoAlert))

(* The write channel is closed or is about to be. *)
Closing(r) == r.write_closed \/ r.alert_data # NoAlert

(* What every operation of the write path guarantees of its result q. *)
Monotone(r, q) ==
    /\ r.write_closed => q.write_closed /\ q.wbio = r.wbio
    /\ Closing(r) => Closing(q)

-----------------------------------------------------------------------------
(* Sequences of records. *)

(* A record put after an ordered log, at its place, leaves it ordered. *)
LEMMA AppendInOrder ==
    ASSUME NEW log \in Seq(Record), NEW rec \in Record,
           InOrder(log), NextIs(log, rec.gen, rec.seq)
    PROVE  InOrder(Append(log, rec))
<1> DEFINE new == Append(log, rec)
<1>1. Len(new) = Len(log) + 1 /\ Len(log) \in Nat
  OBVIOUS
<1>2. \A i \in 1 .. Len(log) : new[i] = log[i]
  OBVIOUS
<1>3. new[Len(log) + 1] = rec
  OBVIOUS
<1> HIDE DEF new
<1>4. ASSUME NEW i \in 1 .. Len(new)
      PROVE  IF i = 1 THEN new[i].gen = 0 /\ new[i].seq = 0
             ELSE Follows(new[i - 1], new[i].gen, new[i].seq)
  <2>1. CASE i = Len(log) + 1
    BY <2>1, <1>1, <1>2, <1>3 DEF NextIs, Follows, IsUpdate
  <2>2. CASE i # Len(log) + 1
    <3>1. i \in 1 .. Len(log) /\ new[i] = log[i] /\ (i # 1 => new[i - 1] = log[i - 1])
      BY <2>2, <1>1, <1>2
    <3> QED BY <3>1 DEF InOrder, Follows, IsUpdate
  <2> QED BY <2>1, <2>2
<1> QED BY <1>4 DEF InOrder, Follows, IsUpdate, new

(* Once it is written, the place of the next record is one further. *)
LEMMA AppendNext ==
    ASSUME NEW log \in Seq(Record), NEW rec \in Record
    PROVE  IF IsUpdate(rec) THEN NextIs(Append(log, rec), rec.gen + 1, 0)
           ELSE NextIs(Append(log, rec), rec.gen, rec.seq + 1)
<1>1. /\ Len(Append(log, rec)) # 0
      /\ Append(log, rec)[Len(Append(log, rec))] = rec
  OBVIOUS
<1> QED BY <1>1 DEF NextIs, Follows, IsUpdate

(* Writing the next chunk, or a record that is not application data. *)
LEMMA AppendChunk ==
    ASSUME NEW log \in Seq(Record), NEW rec \in Record, NEW n \in Nat,
           Chunks(log, n), IsData(rec), rec.content = n + 1
    PROVE  Chunks(Append(log, rec), n + 1)
<1> DEFINE new == Append(log, rec)
<1>1. Len(new) = Len(log) + 1 /\ Len(log) \in Nat
  OBVIOUS
<1>2. \A i \in 1 .. Len(log) : new[i] = log[i]
  OBVIOUS
<1>3. new[Len(log) + 1] = rec
  OBVIOUS
<1> HIDE DEF new
<1>4. ASSUME NEW i \in 1 .. Len(new), IsData(new[i])
      PROVE  /\ new[i].content \in 1 .. n + 1
             /\ i # Len(log) + 1 =>
                    i \in 1 .. Len(log) /\ new[i] = log[i] /\ new[i].content \in 1 .. n
  <2>1. CASE i = Len(log) + 1
    BY <2>1, <1>3
  <2>2. CASE i # Len(log) + 1
    <3>1. i \in 1 .. Len(log) /\ new[i] = log[i]
      BY <2>2, <1>1, <1>2
    <3>2. log[i].content \in 1 .. n
      BY <3>1, <1>4 DEF Chunks, IsData
    <3> QED BY <3>1, <3>2
  <2> QED BY <2>1, <2>2
<1>5. ASSUME NEW c \in 1 .. n + 1
      PROVE  \E i \in 1 .. Len(new) : IsData(new[i]) /\ new[i].content = c
  <2>1. CASE c = n + 1
    BY <2>1, <1>1, <1>3
  <2>2. CASE c # n + 1
    <3>1. PICK i \in 1 .. Len(log) : IsData(log[i]) /\ log[i].content = c
      BY <2>2 DEF Chunks, IsData
    <3> QED BY <3>1, <1>1, <1>2
  <2> QED BY <2>1, <2>2
<1>6. ASSUME NEW i \in 1 .. Len(new), NEW j \in 1 .. Len(new),
             i < j, IsData(new[i]), IsData(new[j])
      PROVE  new[i].content < new[j].content
  <2>1. i # Len(log) + 1
    BY <1>1, <1>6
  <2>2. i \in 1 .. Len(log) /\ new[i] = log[i] /\ new[i].content \in 1 .. n
    BY <2>1, <1>4, <1>6
  <2>3. CASE j = Len(log) + 1
    BY <2>2, <2>3, <1>3
  <2>4. CASE j # Len(log) + 1
    <3>1. j \in 1 .. Len(log) /\ new[j] = log[j]
      BY <2>4, <1>4, <1>6
    <3> QED BY <3>1, <2>2, <1>6 DEF Chunks, IsData
  <2> QED BY <2>3, <2>4
<1> QED BY <1>4, <1>5, <1>6 DEF Chunks, IsData, new

(* A record that is not application data leaves the chunks as they are.     *)
LEMMA AppendOther ==
    ASSUME NEW log \in Seq(Record), NEW rec \in Record, NEW n \in Nat,
           Chunks(log, n), ~IsData(rec)
    PROVE  Chunks(Append(log, rec), n)
<1> DEFINE new == Append(log, rec)
<1>1. Len(new) = Len(log) + 1 /\ Len(log) \in Nat
  OBVIOUS
<1>2. \A i \in 1 .. Len(log) : new[i] = log[i]
  OBVIOUS
<1>3. new[Len(log) + 1] = rec
  OBVIOUS
<1> HIDE DEF new
<1>4. \A i \in 1 .. Len(new) : IsData(new[i]) => i \in 1 .. Len(log) /\ new[i] = log[i]
  BY <1>1, <1>2, <1>3
<1>5. ASSUME NEW c \in 1 .. n
      PROVE  \E i \in 1 .. Len(new) : IsData(new[i]) /\ new[i].content = c
  <2>1. PICK i \in 1 .. Len(log) : IsData(log[i]) /\ log[i].content = c
    BY DEF Chunks
  <2> QED BY <2>1, <1>1, <1>2
<1> QED BY <1>4, <1>5 DEF Chunks, IsData, new
-----------------------------------------------------------------------------
(* The write path. *)

(* The fields that sealing and sending a record leave alone. *)
SamePending(r, q) ==
    /\ q.gen = r.gen
    /\ q.alert_data = r.alert_data
    /\ q.phh_data = r.phh_data
    /\ q.key_update_request = r.key_update_request
    /\ q.read_closed = r.read_closed
    /\ q.write_closed = r.write_closed

(* The log after the record in wrec has been sent. *)
LEMMA SentLog ==
    ASSUME NEW r, NEW base \in Nat, Good(r, base), Sealed(r)
    PROVE  LET log == Append(r.wbio, r.wrec)
           IN  /\ log \in Seq(Record)
               /\ InOrder(log)
               /\ r.wrec.ct = "app" => Chunks(log, base + 1)
               /\ r.wrec.ct # "app" => Chunks(log, base + r.wrec_appdata_len)
               /\ r.wrec.ct = "handshake" => NextIs(log, r.gen + 1, 0)
               /\ r.wrec.ct # "handshake" => NextIs(log, r.gen, r.seq)
<1> DEFINE log == Append(r.wbio, r.wrec)
<1>1. /\ r.wbio \in Seq(Record) /\ r.wrec \in Record /\ r.wrec_appdata_len \in {0, 1}
      /\ InOrder(r.wbio) /\ Chunks(r.wbio, base + r.wrec_appdata_len)
  BY DEF Good, RL
<1>2. /\ NextIs(r.wbio, r.wrec.gen, r.wrec.seq)
      /\ r.wrec.gen = r.gen /\ r.seq = r.wrec.seq + 1
      /\ r.wrec.ct = "app" => r.wrec.content = base + 1 /\ r.wrec_appdata_len = 0
  BY DEF Good, WrecNext
<1>3. log \in Seq(Record)
  BY <1>1
<1>4. InOrder(log)
  BY <1>1, <1>2, AppendInOrder
<1>5. ASSUME r.wrec.ct = "app" PROVE Chunks(log, base + 1)
  <2>1. Chunks(r.wbio, base) /\ r.wrec.content = base + 1
    BY <1>1, <1>2, <1>5
  <2> QED BY <1>1, <1>5, <2>1, AppendChunk DEF IsData
<1>6. ASSUME r.wrec.ct # "app" PROVE Chunks(log, base + r.wrec_appdata_len)
  <2>1. base + r.wrec_appdata_len \in Nat
    BY <1>1
  <2> QED BY <1>1, <1>6, <2>1, AppendOther DEF IsData
<1>7. IF IsUpdate(r.wrec) THEN NextIs(log, r.wrec.gen + 1, 0)
      ELSE NextIs(log, r.wrec.gen, r.wrec.seq + 1)
  BY <1>1, AppendNext
<1>8. /\ r.wrec.ct = "handshake" => NextIs(log, r.gen + 1, 0)
      /\ r.wrec.ct # "handshake" => NextIs(log, r.gen, r.seq)
  BY <1>2, <1>7 DEF IsUpdate
<1> QED BY <1>3, <1>4, <1>5, <1>6, <1>8

(* Sending the record in wrec. *)
LEMMA RecordSend ==
    ASSUME NEW r, NEW base \in Nat, Ready(r, base), r.wrec.ct # "none"
    PROVE  LET q == tls13_record_send(r)
           IN  /\ q \in RL /\ SamePending(r, q)
               /\ q.wrec_appdata_len = r.wrec_appdata_len
               /\ q.ret # "SUCCESS" => Ready(q, base)
               /\ q.ret = "SUCCESS" =>
                     /\ Sealed(r)
                     /\ q.wrec = NoRecord /\ q.seq = r.seq
                     /\ q.wbio = Append(r.wbio, r.wrec)
<1>1. r \in RL /\ r.wrec \in Record
  BY DEF Ready, Good, RL
<1> DEFINE q == tls13_record_send(r)
<1>2. CASE r.wrec.ct = "empty" \/ r.room = 0
  <2>1. PICK ret \in {"FAILURE", "WANT_POLLOUT"} : q = [r EXCEPT !.ret = ret]
    BY <1>2 DEF tls13_record_send, Return
  <2>2. q \in RL /\ SamePending(r, q) /\ q.wrec_appdata_len = r.wrec_appdata_len
    BY <1>1, <2>1 DEF RL, Ret, SamePending
  <2>3. q.ret # "SUCCESS"
    BY <1>1, <2>1 DEF RL
  <2>4. q.wbio = r.wbio /\ q.wrec = r.wrec /\ q.seq = r.seq
    BY <1>1, <2>1 DEF RL
  <2>5. Ready(q, base)
    BY <2>2, <2>4 DEF Ready, Good, Placed, WrecNext, Sealed, SamePending
  <2> QED BY <2>2, <2>3, <2>5
<1>3. CASE ~(r.wrec.ct = "empty" \/ r.room = 0)
  <2>1. q = [r EXCEPT !.wbio = Append(@, r.wrec), !.wrec = NoRecord,
                      !.room = @ - 1, !.ret = "SUCCESS"]
    BY <1>3 DEF tls13_record_send
  <2>2. Sealed(r)
    BY <1>1, <1>3 DEF Sealed, Record
  <2>3. q \in RL
    <3>1. Append(r.wbio, r.wrec) \in Seq(Record) /\ NoRecord \in Record /\ r.room - 1 \in Nat
      BY <1>1, <1>3 DEF RL, NoRecord, Record
    <3> QED BY <1>1, <2>1, <3>1 DEF RL, Ret
  <2>4. /\ SamePending(r, q) /\ q.wrec_appdata_len = r.wrec_appdata_len
        /\ q.wrec = NoRecord /\ q.seq = r.seq /\ q.wbio = Append(r.wbio, r.wrec)
        /\ q.ret = "SUCCESS"
    BY <1>1, <2>1 DEF RL, SamePending
  <2> QED BY <2>2, <2>3, <2>4
<1> QED BY <1>2, <1>3

(* Everything is written and the log holds the first n chunks. *)
Written(q, n) ==
    /\ q \in RL /\ q.wrec.ct = "none"
    /\ InOrder(q.wbio) /\ Chunks(q.wbio, n)

(* Sealing the next record and sending it. *)
LEMMA SealSend ==
    ASSUME NEW r, NEW base \in Nat, NEW ct \in {"app", "handshake", "alert"},
           NEW content \in Nat, Good(r, base),
           r.wrec.ct = "none", NextIs(r.wbio, r.gen, r.seq),
           ct = "app" => content = base + 1 /\ r.wrec_appdata_len = 0,
           ct = "handshake" => r.phh_data
    PROVE  LET q == SealAndSend(r, ct, content)
           IN  /\ SamePending(r, q)
               /\ q.wrec_appdata_len = r.wrec_appdata_len
               /\ q.ret # "SUCCESS" => Ready(q, base)
               /\ q.ret = "SUCCESS" =>
                     /\ ct = "app" => Written(q, base + 1)
                     /\ ct # "app" => Written(q, base + r.wrec_appdata_len)
                     /\ ct = "handshake" => NextIs(q.wbio, q.gen + 1, 0)
                     /\ ct # "handshake" => NextIs(q.wbio, q.gen, q.seq)
<1> DEFINE q == SealAndSend(r, ct, content)
           s == tls13_record_layer_seal_record(r, ct, content)
           rec == [ct |-> ct, gen |-> r.gen, seq |-> r.seq, content |-> content]
<1>1. r \in RL /\ MaxSeq \in Nat
  BY MaxSeqAssumption DEF Good
<1>2. CASE r.seq = MaxSeq
  <2>1. q = [r EXCEPT !.wrec = EmptyRecord, !.ret = "FAILURE"]
    <3>1. s = [r EXCEPT !.wrec = EmptyRecord, !.ret = "FAILURE"]
      BY <1>2 DEF tls13_record_layer_seal_record
    <3>2. s.ret # "SUCCESS"
      BY <1>1, <3>1 DEF RL
    <3> QED BY <3>1, <3>2 DEF SealAndSend
  <2>2. q \in RL /\ SamePending(r, q) /\ q.wrec_appdata_len = r.wrec_appdata_len
    <3>1. EmptyRecord \in Record
      BY DEF EmptyRecord, Record
    <3> HIDE DEF q
    <3>2. q \in RL
      BY <1>1, <2>1, <3>1 DEF RL, Ret
    <3>3. SamePending(r, q) /\ q.wrec_appdata_len = r.wrec_appdata_len
      BY <1>1, <2>1 DEF RL, SamePending
    <3> QED BY <3>2, <3>3
  <2>3. q.wrec = EmptyRecord /\ q.ret = "FAILURE" /\ q.wbio = r.wbio
    BY <1>1, <2>1 DEF RL
  <2>4. ~Sealed(q) /\ q.wrec.ct # "none"
    BY <2>3 DEF Sealed, EmptyRecord
  <2>5. Ready(q, base)
    BY <2>2, <2>3, <2>4 DEF Ready, Good, Placed, WrecNext, SamePending
  <2> QED BY <2>2, <2>3, <2>5
<1>3. CASE r.seq # MaxSeq
  <2>1. s = [r EXCEPT !.wrec = rec, !.seq = @ + 1, !.ret = "SUCCESS"]
    BY <1>3 DEF tls13_record_layer_seal_record
  <2>2. rec \in Record /\ r.seq + 1 \in 0 .. MaxSeq
    BY <1>1, <1>3 DEF RL, Record
  <2> HIDE DEF rec, s
  <2>3. s \in RL /\ SamePending(r, s)
    <3>1. s \in RL
      BY <1>1, <2>1, <2>2 DEF RL, Ret
    <3>2. SamePending(r, s)
      BY <1>1, <2>1 DEF RL, SamePending
    <3> QED BY <3>1, <3>2
  <2> USE DEF rec, s
  <2>4. /\ s.wrec = rec /\ s.seq = r.seq + 1 /\ s.ret = "SUCCESS"
        /\ s.wrec_appdata_len = r.wrec_appdata_len /\ s.wbio = r.wbio
    BY <1>1, <2>1 DEF RL
  <2>5. Good(s, base) /\ Sealed(s)
    BY <2>3, <2>4 DEF Good, WrecNext, Sealed, SamePending
  <2>6. q = tls13_record_send(s)
    BY <2>4 DEF SealAndSend
  <2>7. Ready(s, base) /\ s.wrec.ct # "none" /\ s.wrec.ct = ct
    BY <2>4, <2>5 DEF Ready, Placed
  <2>8. /\ q \in RL /\ SamePending(s, q)
        /\ q.wrec_appdata_len = s.wrec_appdata_len
        /\ q.ret # "SUCCESS" => Ready(q, base)
        /\ q.ret = "SUCCESS" =>
              q.wrec = NoRecord /\ q.seq = s.seq /\ q.wbio = Append(s.wbio, s.wrec)
    BY <2>6, <2>7, RecordSend
  <2>9. SamePending(r, q) /\ q.wrec_appdata_len = r.wrec_appdata_len
    BY <2>3, <2>4, <2>8 DEF SamePending
  <2>10. ASSUME q.ret = "SUCCESS"
         PROVE  /\ ct = "app" => Written(q, base + 1)
                /\ ct # "app" => Written(q, base + r.wrec_appdata_len)
                /\ ct = "handshake" => NextIs(q.wbio, q.gen + 1, 0)
                /\ ct # "handshake" => NextIs(q.wbio, q.gen, q.seq)
    <3>1. q.wbio = Append(s.wbio, s.wrec) /\ q.seq = s.seq /\ q.wrec.ct = "none"
      BY <2>8, <2>10 DEF NoRecord
    <3>2. q.gen = s.gen
      BY <2>8 DEF SamePending
    <3>3. /\ InOrder(q.wbio)
          /\ s.wrec.ct = "app" => Chunks(q.wbio, base + 1)
          /\ s.wrec.ct # "app" => Chunks(q.wbio, base + s.wrec_appdata_len)
          /\ s.wrec.ct = "handshake" => NextIs(q.wbio, s.gen + 1, 0)
          /\ s.wrec.ct # "handshake" => NextIs(q.wbio, s.gen, s.seq)
      BY <2>5, <3>1, SentLog
    <3> QED BY <2>4, <2>7, <2>8, <3>1, <3>2, <3>3 DEF Written
  <2> QED BY <2>8, <2>9, <2>10
<1> QED BY <1>2, <1>3

(* A record pushed out for another to be written. *)
LEMMA Pushed ==
    ASSUME NEW r, NEW base \in Nat, Ready(r, base), r.wrec.ct # "none",
           tls13_record_send(r).ret = "SUCCESS"
    PROVE  LET p == tls13_record_send(r)
           IN  /\ Good(p, IF r.wrec.ct = "app" THEN base + 1 ELSE base)
               /\ Good([p EXCEPT !.ret = "FAILURE"],
                       IF r.wrec.ct = "app" THEN base + 1 ELSE base)
               /\ SamePending(r, p) /\ p.wrec.ct = "none" /\ Sealed(r)
               /\ p.wrec_appdata_len = r.wrec_appdata_len
               /\ r.wrec.ct = "handshake" => NextIs(p.wbio, p.gen + 1, 0)
               /\ r.wrec.ct # "handshake" => NextIs(p.wbio, p.gen, p.seq)
<1> DEFINE p == tls13_record_send(r)
           n == IF r.wrec.ct = "app" THEN base + 1 ELSE base
           f == [p EXCEPT !.ret = "FAILURE"]
<1>1. /\ p \in RL /\ SamePending(r, p) /\ p.wrec_appdata_len = r.wrec_appdata_len
      /\ Sealed(r) /\ p.wrec = NoRecord /\ p.seq = r.seq
      /\ p.wbio = Append(r.wbio, r.wrec)
  BY RecordSend
<1>2. Good(r, base)
  BY DEF Ready
<1>3. /\ InOrder(p.wbio)
      /\ r.wrec.ct = "app" => Chunks(p.wbio, base + 1)
      /\ r.wrec.ct # "app" => Chunks(p.wbio, base + r.wrec_appdata_len)
      /\ r.wrec.ct = "handshake" => NextIs(p.wbio, r.gen + 1, 0)
      /\ r.wrec.ct # "handshake" => NextIs(p.wbio, r.gen, r.seq)
  BY <1>1, <1>2, SentLog
<1> HIDE DEF p
<1>4. p.wrec.ct = "none" /\ ~Sealed(p)
  BY <1>1 DEF NoRecord, Sealed
<1>5. Chunks(p.wbio, n + p.wrec_appdata_len)
  <2>1. r.wrec.ct = "app" => r.wrec_appdata_len = 0
    BY <1>1, <1>2 DEF Good, WrecNext
  <2> QED BY <1>1, <1>3, <2>1
<1>6. p.phh_data => p.key_update_request
  BY <1>1, <1>2 DEF Good, SamePending
<1> HIDE DEF n
<1>7. Good(p, n)
  BY <1>1, <1>3, <1>4, <1>5, <1>6 DEF Good, WrecNext
<1>8. Good(f, n)
  <2> HIDE DEF f
  <2>1. f = [p EXCEPT !.ret = "FAILURE"]
    BY DEF f
  <2>2. f \in RL
    BY <1>1, <2>1 DEF RL, Ret
  <2>3. /\ f.wbio = p.wbio /\ f.wrec = p.wrec /\ f.wrec_appdata_len = p.wrec_appdata_len
        /\ f.phh_data = p.phh_data /\ f.key_update_request = p.key_update_request
    BY <1>1, <2>1 DEF RL
  <2> QED BY <2>2, <2>3, <1>3, <1>4, <1>5, <1>6 DEF Good, WrecNext, Sealed
<1> QED
  <2>1. p.gen = r.gen
    BY <1>1 DEF SamePending
  <2> QED BY <1>1, <1>3, <1>4, <1>7, <1>8, <2>1 DEF n, p

(* Writing a record, whatever is left in wrec. *)
LEMMA WriteRecord ==
    ASSUME NEW r, NEW base \in Nat, NEW ct \in {"app", "handshake", "alert"},
           NEW content \in Nat, Ready(r, base),
           ct = "app" => content = base + 1,
           ct = "handshake" => r.phh_data
    PROVE  LET q == tls13_record_layer_write_record(r, ct, content)
           IN  /\ SamePending(r, q)
               /\ r.write_closed => q.wbio = r.wbio /\ q.ret = "EOF"
               /\ q.ret \notin {"SUCCESS", "FAILURE"} => Ready(q, base)
               /\ q.ret = "FAILURE" =>
                     /\ Good(q, base)
                     /\ Placed(q) \/ (r.wrec.ct = "handshake" /\ ct # "handshake")
               /\ q.ret = "SUCCESS" =>
                     /\ ct = "app" => Ready(q, base + 1)
                     /\ ct = "alert" => Ready(q, base)
                     /\ ct = "handshake" =>
                            Good(q, base) /\ q.wrec.ct = "none" /\ NextIs(q.wbio, q.gen + 1, 0)
<1> DEFINE q == tls13_record_layer_write_record(r, ct, content)
           p == tls13_record_send(r)
           Claim ==
             /\ SamePending(r, q)
             /\ r.write_closed => q.wbio = r.wbio /\ q.ret = "EOF"
             /\ q.ret \notin {"SUCCESS", "FAILURE"} => Ready(q, base)
             /\ q.ret = "FAILURE" =>
                   /\ Good(q, base)
                   /\ Placed(q) \/ (r.wrec.ct = "handshake" /\ ct # "handshake")
             /\ q.ret = "SUCCESS" =>
                   /\ ct = "app" => Ready(q, base + 1)
                   /\ ct = "alert" => Ready(q, base)
                   /\ ct = "handshake" =>
                          Good(q, base) /\ q.wrec.ct = "none" /\ NextIs(q.wbio, q.gen + 1, 0)
<1> SUFFICES Claim
  OBVIOUS
<1>1. r \in RL /\ Good(r, base) /\ Placed(r)
  BY DEF Ready, Good
<1>2. CASE r.write_closed
  <2>1. q = [r EXCEPT !.ret = "EOF"]
    BY <1>2 DEF tls13_record_layer_write_record, Return
  <2> HIDE DEF q
  <2>2. q \in RL /\ q.ret = "EOF"
    BY <1>1, <2>1 DEF RL, Ret
  <2>3. /\ SamePending(r, q) /\ q.wbio = r.wbio /\ q.wrec = r.wrec /\ q.seq = r.seq
        /\ q.wrec_appdata_len = r.wrec_appdata_len
    BY <1>1, <2>1 DEF RL, SamePending
  <2>4. Ready(q, base)
    BY <1>1, <2>2, <2>3 DEF Ready, Good, Placed, WrecNext, Sealed, SamePending
  <2> QED BY <2>2, <2>3, <2>4
<1>3. CASE ~r.write_closed /\ ct = "app" /\ r.wrec_appdata_len # 0
  <2>1. q = [r EXCEPT !.wrec_appdata_len = 0, !.ret = "SUCCESS"]
    BY <1>3 DEF tls13_record_layer_write_record
  <2> HIDE DEF q
  <2>2. q \in RL
    BY <1>1, <2>1 DEF RL, Ret
  <2>3. /\ SamePending(r, q) /\ q.wbio = r.wbio /\ q.wrec = r.wrec /\ q.seq = r.seq
        /\ q.wrec_appdata_len = 0 /\ q.ret = "SUCCESS"
    BY <1>1, <2>1 DEF RL, SamePending
  <2>4. r.wrec_appdata_len = 1 /\ r.wrec.ct # "app"
    BY <1>1, <1>3 DEF RL, Good, WrecNext, Sealed
  <2>5. Chunks(q.wbio, (base + 1) + q.wrec_appdata_len)
    BY <1>1, <2>3, <2>4 DEF Good
  <2>6. WrecNext(q, base + 1)
    BY <1>1, <2>3, <2>4 DEF Good, WrecNext, Sealed, SamePending
  <2>7. Ready(q, base + 1)
    BY <1>1, <2>2, <2>3, <2>5, <2>6 DEF Ready, Good, Placed, SamePending
  <2> QED BY <1>3, <2>3, <2>7
<1>4. CASE ~r.write_closed /\ ~(ct = "app" /\ r.wrec_appdata_len # 0) /\ r.wrec.ct = "none"
  <2>1. q = SealAndSend(r, ct, content)
    BY <1>4 DEF tls13_record_layer_write_record
  <2>2. NextIs(r.wbio, r.gen, r.seq)
    BY <1>1, <1>4 DEF Placed
  <2>3. /\ SamePending(r, q)
        /\ q.wrec_appdata_len = r.wrec_appdata_len
        /\ q.ret # "SUCCESS" => Ready(q, base)
        /\ q.ret = "SUCCESS" =>
              /\ ct = "app" => Written(q, base + 1)
              /\ ct # "app" => Written(q, base + r.wrec_appdata_len)
              /\ ct = "handshake" => NextIs(q.wbio, q.gen + 1, 0)
              /\ ct # "handshake" => NextIs(q.wbio, q.gen, q.seq)
    BY <1>1, <1>4, <2>1, <2>2, SealSend
  <2> HIDE DEF q
  <2>4. q.phh_data => q.key_update_request
    BY <1>1, <2>3 DEF Good, SamePending
  <2>5. ASSUME q.ret = "SUCCESS"
        PROVE  /\ ct = "app" => Good(q, base + 1)
               /\ ct # "app" => Good(q, base)
               /\ q.wrec.ct = "none"
    <3>1. ct = "app" => q.wrec_appdata_len = 0
      BY <1>4, <2>3
    <3>2. q.wrec.ct = "none" /\ ~Sealed(q) /\ q \in RL /\ InOrder(q.wbio)
      BY <2>3, <2>5 DEF Written, Sealed
    <3>3. /\ ct = "app" => Chunks(q.wbio, base + 1 + q.wrec_appdata_len)
          /\ ct # "app" => Chunks(q.wbio, base + q.wrec_appdata_len)
      BY <2>3, <2>5, <3>1 DEF Written
    <3> QED BY <2>4, <3>2, <3>3 DEF Good, WrecNext
  <2> QED BY <1>4, <2>3, <2>5 DEF Ready, Placed
<1>5. CASE /\ ~r.write_closed /\ ~(ct = "app" /\ r.wrec_appdata_len # 0)
           /\ r.wrec.ct # "none"
           /\ p.ret # "SUCCESS"
  <2>1. q = p
    BY <1>5 DEF tls13_record_layer_write_record
  <2>2. SamePending(r, p) /\ Ready(p, base)
    BY <1>5, RecordSend
  <2> QED BY <1>5, <2>1, <2>2 DEF Ready
<1>6. CASE /\ ~r.write_closed /\ ~(ct = "app" /\ r.wrec_appdata_len # 0)
           /\ r.wrec.ct # "none"
           /\ p.ret = "SUCCESS"
  <2>1. /\ Good(p, IF r.wrec.ct = "app" THEN base + 1 ELSE base)
        /\ Good([p EXCEPT !.ret = "FAILURE"],
                IF r.wrec.ct = "app" THEN base + 1 ELSE base)
        /\ SamePending(r, p) /\ p.wrec.ct = "none" /\ Sealed(r)
        /\ p.wrec_appdata_len = r.wrec_appdata_len
        /\ r.wrec.ct = "handshake" => NextIs(p.wbio, p.gen + 1, 0)
        /\ r.wrec.ct # "handshake" => NextIs(p.wbio, p.gen, p.seq)
    BY <1>6, Pushed
  <2>2. CASE r.wrec.ct = ct
    <3>1. q = p
      BY <1>6, <2>2 DEF tls13_record_layer_write_record
    <3> HIDE DEF q, p
    <3> QED BY <1>6, <2>1, <2>2, <3>1 DEF Ready, Placed
  <2>3. CASE r.wrec.ct # ct /\ r.wrec.ct # "app"
    <3>1. q = [p EXCEPT !.ret = "FAILURE"]
      BY <1>6, <2>3 DEF tls13_record_layer_write_record, Return
    <3>2. p \in RL
      BY <2>1 DEF Good
    <3> HIDE DEF q, p
    <3>3. /\ SamePending(p, q) /\ q.ret = "FAILURE" /\ q.wbio = p.wbio /\ q.seq = p.seq
      BY <3>1, <3>2 DEF RL, SamePending
    <3>4. SamePending(r, q)
      BY <2>1, <3>3 DEF SamePending
    <3>5. Good(q, base)
      BY <2>1, <2>3, <3>1
    <3>6. Placed(q) \/ r.wrec.ct = "handshake"
      BY <2>1, <3>3 DEF Placed, SamePending
    <3> QED BY <1>6, <2>3, <3>3, <3>4, <3>5, <3>6
  <2>4. CASE r.wrec.ct # ct /\ r.wrec.ct = "app"
    <3> DEFINE m == [p EXCEPT !.wrec_appdata_len = 1]
    <3>1. q = SealAndSend(m, ct, content)
      BY <1>6, <2>4 DEF tls13_record_layer_write_record
    <3>2. p \in RL /\ Good(p, base + 1) /\ p.wrec_appdata_len = 0
      <4>1. r.wrec_appdata_len = 0
        BY <1>1, <2>1, <2>4 DEF Good, WrecNext
      <4> QED BY <2>1, <2>4, <4>1 DEF Good
    <3> HIDE DEF q, p
    <3>3. m \in RL
      BY <3>2 DEF RL
    <3>4. /\ SamePending(p, m) /\ m.wbio = p.wbio /\ m.wrec = p.wrec /\ m.seq = p.seq
          /\ m.wrec_appdata_len = 1
      BY <3>2 DEF RL, SamePending
    <3> HIDE DEF m
    <3>5. Good(m, base) /\ m.wrec.ct = "none"
      <4>1. m.wrec.ct = "none" /\ ~Sealed(m)
        BY <2>1, <3>4 DEF Sealed
      <4>2. Chunks(m.wbio, base + m.wrec_appdata_len) /\ InOrder(m.wbio)
        BY <3>2, <3>4 DEF Good
      <4>3. m.phh_data => m.key_update_request
        BY <3>2, <3>4 DEF Good, SamePending
      <4> QED BY <3>3, <4>1, <4>2, <4>3 DEF Good, WrecNext
    <3>6. NextIs(m.wbio, m.gen, m.seq)
      BY <2>1, <2>4, <3>4 DEF SamePending
    <3>7. ct = "handshake" => m.phh_data
      BY <2>1, <3>4 DEF SamePending
    <3>8. /\ SamePending(m, q)
          /\ q.wrec_appdata_len = m.wrec_appdata_len
          /\ q.ret # "SUCCESS" => Ready(q, base)
          /\ q.ret = "SUCCESS" =>
                /\ Written(q, base + m.wrec_appdata_len)
                /\ ct = "handshake" => NextIs(q.wbio, q.gen + 1, 0)
                /\ ct # "handshake" => NextIs(q.wbio, q.gen, q.seq)
      BY <2>4, <3>1, <3>5, <3>6, <3>7, SealSend
    <3>9. SamePending(r, q)
      BY <2>1, <3>4, <3>8 DEF SamePending
    <3>10. ASSUME q.ret = "SUCCESS"
           PROVE  Good(q, base) /\ q.wrec.ct = "none"
      <4>1. q.wrec.ct = "none" /\ ~Sealed(q) /\ q \in RL /\ InOrder(q.wbio)
        BY <3>8, <3>10 DEF Written, Sealed
      <4>2. Chunks(q.wbio, base + q.wrec_appdata_len)
        BY <3>8, <3>10 DEF Written
      <4>3. q.phh_data => q.key_update_request
        BY <3>5, <3>8 DEF Good, SamePending
      <4> QED BY <4>1, <4>2, <4>3 DEF Good, WrecNext
    <3> QED BY <1>6, <2>4, <3>8, <3>9, <3>10 DEF Ready, Placed
  <2> QED BY <2>2, <2>3, <2>4
<1> QED BY <1>2, <1>3, <1>4, <1>5, <1>6

(* What Good speaks of. *)
SameRecords(r, q) ==
    /\ q.wbio = r.wbio /\ q.wrec = r.wrec /\ q.wrec_appdata_len = r.wrec_appdata_len
    /\ q.gen = r.gen /\ q.seq = r.seq
    /\ q.phh_data = r.phh_data /\ q.key_update_request = r.key_update_request

(* Good and Placed depend on the records, keys and pending flags only, not  *)
(* on the result or the room of a step.                                     *)
LEMMA SameRecordsGood ==
    ASSUME NEW r, NEW q \in RL, NEW base \in Nat, Good(r, base), SameRecords(r, q)
    PROVE  /\ Good(q, base)
           /\ Placed(r) /\ (r.write_closed => q.write_closed) => Placed(q)
<1>1. WrecNext(q, base)
  BY DEF Good, WrecNext, Sealed, SameRecords
<1>2. InOrder(q.wbio) /\ Chunks(q.wbio, base + q.wrec_appdata_len)
  BY DEF Good, SameRecords
<1>3. q.phh_data => q.key_update_request
  BY DEF Good, SameRecords
<1>4. Good(q, base)
  BY <1>1, <1>2, <1>3 DEF Good
<1>5. ASSUME Placed(r), r.write_closed => q.write_closed PROVE Placed(q)
  BY <1>5 DEF Placed, SameRecords
<1> QED BY <1>4, <1>5

(* A return value does not change what Good speaks of. *)
LEMMA ReturnKeeps ==
    ASSUME NEW r, NEW base \in Nat, NEW ret \in Ret, Good(r, base)
    PROVE  LET q == Return(r, ret)
           IN  /\ Good(q, base) /\ q.ret = ret /\ SameRecords(r, q) /\ SamePending(r, q)
               /\ Placed(r) => Placed(q) /\ Kept(q, base)
               /\ Monotone(r, q)
<1> DEFINE q == Return(r, ret)
<1>1. r \in RL /\ q = [r EXCEPT !.ret = ret]
  BY DEF Good, Return
<1> HIDE DEF q
<1>2. q \in RL
  BY <1>1 DEF RL
<1>3. q.ret = ret /\ SameRecords(r, q) /\ SamePending(r, q)
  BY <1>1 DEF RL, SameRecords, SamePending
<1>4. Good(q, base) /\ (Placed(r) => Placed(q))
  BY <1>2, <1>3, SameRecordsGood DEF SamePending
<1>5. Monotone(r, q)
  BY <1>3 DEF Monotone, Closing, SameRecords, SamePending
<1> QED BY <1>3, <1>4, <1>5 DEF Kept, q

(* What sending what is pending guarantees. *)
PendingSent(r, q, base) ==
    /\ Kept(q, base)
    /\ Monotone(r, q)
    /\ q.ret = "SUCCESS" =>
          /\ Closing(r) => q.write_closed
          /\ q.write_closed \/ ~q.phh_data

(* tls13_record_layer_send_alert keeps the write path in order and, once    *)
(* the alert is out, closes the write channel.                              *)
LEMMA SendAlert ==
    ASSUME NEW r, NEW base \in Nat, Ready(r, base), r.alert_data # NoAlert
    PROVE  PendingSent(r, tls13_record_layer_send_alert(r), base)
<1> DEFINE w == tls13_record_layer_write_record(r, "alert", r.alert_data)
           q == tls13_record_layer_send_alert(r)
<1> SUFFICES PendingSent(r, q, base)
  OBVIOUS
<1>1. r \in RL /\ r.alert_data \in Nat
  <2>1. r \in RL
    BY DEF Ready, Good
  <2>2. r.alert_data \in 0 .. NoAlert
    BY <2>1 DEF RL
  <2> QED BY <2>1, <2>2 DEF NoAlert
<1>2. /\ SamePending(r, w)
      /\ r.write_closed => w.wbio = r.wbio /\ w.ret = "EOF"
      /\ w.ret \notin {"SUCCESS", "FAILURE"} => Ready(w, base)
      /\ w.ret = "FAILURE" => Good(w, base)
      /\ w.ret = "SUCCESS" => Ready(w, base)
  BY <1>1, WriteRecord
<1>3. Good(w, base) /\ w.alert_data # NoAlert /\ w \in RL
  BY <1>2 DEF Ready, Good, SamePending
<1>4. CASE w.ret # "SUCCESS"
  <2> DEFINE ret == IF w.ret = "EOF" THEN "ALERT" ELSE w.ret
  <2>1. q = Return(w, ret) /\ ret \in Ret /\ ret # "SUCCESS"
    BY <1>3, <1>4 DEF tls13_record_layer_send_alert, AlertWritten, RL, Ret
  <2>2. /\ Good(q, base) /\ q.ret = ret /\ SameRecords(w, q) /\ SamePending(w, q)
        /\ Placed(w) => Placed(q)
    BY <1>3, <2>1, ReturnKeeps
  <2>3. q.alert_data # NoAlert /\ q.write_closed = r.write_closed
    BY <1>2, <1>3, <2>2 DEF SamePending
  <2>4. Monotone(r, q)
    BY <1>2, <2>2, <2>3 DEF Monotone, Closing, SameRecords
  <2>5. Kept(q, base)
    BY <1>2, <1>4, <2>2, <2>3 DEF Kept, Ready
  <2> QED BY <2>1, <2>2, <2>4, <2>5 DEF PendingSent
<1>5. CASE w.ret = "SUCCESS"
  <2>1. ~r.write_closed
    BY <1>2, <1>5
  <2>2. \/ q = [w EXCEPT !.alert_data = NoAlert, !.write_closed = TRUE]
        \/ q = [w EXCEPT !.alert_data = NoAlert, !.write_closed = TRUE, !.read_closed = TRUE,
                         !.ret = "ALERT"]
    BY <1>5 DEF tls13_record_layer_send_alert, AlertWritten
  <2> HIDE DEF q, w
  <2>3. q \in RL
    <3>1. NoAlert \in 0 .. NoAlert
      BY DEF NoAlert
    <3>2. CASE q = [w EXCEPT !.alert_data = NoAlert, !.write_closed = TRUE]
      BY <1>3, <3>1, <3>2 DEF RL
    <3>3. CASE q = [w EXCEPT !.alert_data = NoAlert, !.write_closed = TRUE,
                             !.read_closed = TRUE, !.ret = "ALERT"]
      BY <1>3, <3>1, <3>3 DEF RL, Ret
    <3> QED BY <2>2, <3>2, <3>3
  <2>4. SameRecords(w, q) /\ q.write_closed
    BY <1>3, <2>2 DEF RL, SameRecords
  <2>5. Good(q, base)
    BY <1>3, <2>3, <2>4, SameRecordsGood
  <2> QED BY <2>1, <2>4, <2>5 DEF PendingSent, Kept, Placed, Monotone, Closing
<1> QED BY <1>4, <1>5

(* tls13_record_layer_send_phh keeps the write path in order: the key       *)
(* changes exactly when the KeyUpdate reply is on the wire.                 *)
LEMMA SendPhh ==
    ASSUME NEW r, NEW base \in Nat, Ready(r, base), r.alert_data = NoAlert, r.phh_data
    PROVE  PendingSent(r, tls13_record_layer_send_phh(r), base)
<1> DEFINE w == tls13_record_layer_write_record(r, "handshake", 0)
           q == tls13_record_layer_send_phh(r)
<1> SUFFICES PendingSent(r, q, base)
  OBVIOUS
<1>1. /\ SamePending(r, w)
      /\ r.write_closed => w.wbio = r.wbio /\ w.ret = "EOF"
      /\ w.ret # "SUCCESS" => Ready(w, base)
      /\ w.ret = "SUCCESS" =>
            Good(w, base) /\ w.wrec.ct = "none" /\ NextIs(w.wbio, w.gen + 1, 0)
  BY WriteRecord DEF Ready
<1>2. CASE w.ret # "SUCCESS"
  <2>1. q = w
    BY <1>2 DEF tls13_record_layer_send_phh
  <2> HIDE DEF q, w
  <2> QED BY <1>1, <1>2, <2>1 DEF PendingSent, Kept, Ready, Monotone, Closing, SamePending
<1>3. CASE w.ret = "SUCCESS"
  <2> DEFINE v == [w EXCEPT !.phh_data = FALSE]
  <2>1. w \in RL /\ ~r.write_closed /\ w.key_update_request
    BY <1>1, <1>3 DEF Ready, Good, SamePending
  <2>2. q = tls13_phh_done_cb(v)
    BY <1>3 DEF tls13_record_layer_send_phh
  <2> HIDE DEF w
  <2>3. v \in RL /\ v.key_update_request
    BY <2>1 DEF RL
  <2>4. q = [v EXCEPT !.gen = v.gen + 1, !.seq = 0, !.key_update_request = FALSE]
    BY <2>2, <2>3 DEF tls13_phh_done_cb
  <2>5. /\ v.gen = w.gen /\ v.wbio = w.wbio /\ v.wrec = w.wrec /\ v.ret = w.ret
        /\ v.wrec_appdata_len = w.wrec_appdata_len /\ v.write_closed = w.write_closed
        /\ v.alert_data = w.alert_data /\ v.phh_data = FALSE
    BY <2>1 DEF RL
  <2> HIDE DEF q, v
  <2>6. q \in RL
    <3>1. v.gen + 1 \in Nat /\ 0 \in 0 .. MaxSeq
      BY <2>3, MaxSeqAssumption DEF RL
    <3> QED BY <2>3, <2>4, <3>1 DEF RL
  <2>7. /\ q.gen = v.gen + 1 /\ q.seq = 0 /\ q.wbio = v.wbio /\ q.wrec = v.wrec
        /\ q.wrec_appdata_len = v.wrec_appdata_len /\ q.write_closed = v.write_closed
        /\ q.alert_data = v.alert_data /\ q.phh_data = FALSE
    BY <2>3, <2>4, <2>5 DEF RL
  <2>8. q.wrec.ct = "none" /\ ~Sealed(q)
    BY <1>1, <1>3, <2>5, <2>7 DEF Sealed
  <2>9. Good(q, base)
    <3>1. InOrder(q.wbio) /\ Chunks(q.wbio, base + q.wrec_appdata_len)
      BY <1>1, <1>3, <2>5, <2>7 DEF Good
    <3> QED BY <2>6, <2>7, <2>8, <3>1 DEF Good, WrecNext
  <2>10. Placed(q)
    BY <1>1, <1>3, <2>5, <2>7 DEF Placed
  <2> QED BY <1>1, <2>1, <2>5, <2>7, <2>9, <2>10
          DEF PendingSent, Kept, Monotone, Closing, SamePending
<1> QED BY <1>2, <1>3

(* tls13_record_layer_send_pending keeps the write path in order, whether   *)
(* an alert, a reply or nothing is pending.                                 *)
LEMMA SendPending ==
    ASSUME NEW r, NEW base \in Nat, Ready(r, base)
    PROVE  PendingSent(r, tls13_record_layer_send_pending(r), base)
<1>1. CASE r.alert_data # NoAlert
  BY <1>1, SendAlert DEF tls13_record_layer_send_pending
<1>2. CASE r.alert_data = NoAlert /\ r.phh_data
  BY <1>2, SendPhh DEF tls13_record_layer_send_pending
<1>3. CASE r.alert_data = NoAlert /\ ~r.phh_data
  <2> DEFINE q == Return(r, "SUCCESS")
  <2>1. /\ Good(q, base) /\ SamePending(r, q) /\ Kept(q, base) /\ Monotone(r, q)
    BY ReturnKeeps DEF Ready, Ret
  <2>2. q = tls13_record_layer_send_pending(r)
    BY <1>3 DEF tls13_record_layer_send_pending
  <2> HIDE DEF q
  <2> QED BY <1>3, <2>1, <2>2 DEF PendingSent, SamePending, Closing
<1> QED BY <1>1, <1>2, <1>3

(* An alert is only given up when another one is pending. *)
LEMMA SendAlertKeeps ==
    ASSUME NEW r, NEW base \in Nat, NEW desc \in 0 .. NoAlert - 1, Kept(r, base)
    PROVE  LET q == tls13_send_alert(r, desc)
           IN  Kept(q, base) /\ Monotone(r, q) /\ Closing(q)
<1> DEFINE q == tls13_send_alert(r, desc)
<1> SUFFICES Kept(q, base) /\ Monotone(r, q) /\ Closing(q)
  OBVIOUS
<1>1. r \in RL /\ Good(r, base)
  BY DEF Kept, Good
<1>2. CASE r.alert_data # NoAlert
  <2>1. q = Return(r, "FAILURE")
    BY <1>2 DEF tls13_send_alert, tls13_record_layer_enqueue_alert
  <2>2. Good(q, base) /\ q.ret = "FAILURE" /\ SamePending(r, q) /\ Monotone(r, q)
    BY <1>1, <2>1, ReturnKeeps DEF Ret
  <2> HIDE DEF q
  <2> QED BY <1>2, <2>2 DEF Kept, Closing, SamePending
<1>3. CASE r.alert_data = NoAlert
  <2> DEFINE a == [r EXCEPT !.alert_data = desc]
  <2>1. q = tls13_record_layer_send_pending(a)
    BY <1>3 DEF tls13_send_alert, tls13_record_layer_enqueue_alert
  <2>2. a \in RL
    <3>1. desc \in 0 .. NoAlert
      BY DEF NoAlert
    <3> QED BY <1>1, <3>1 DEF RL
  <2>3. SameRecords(r, a) /\ a.write_closed = r.write_closed /\ a.alert_data = desc
    BY <1>1 DEF RL, SameRecords
  <2> HIDE DEF a, q
  <2>4. Placed(r)
    BY <1>3 DEF Kept
  <2>5. Ready(a, base)
    BY <1>1, <2>2, <2>3, <2>4, SameRecordsGood DEF Ready
  <2>6. PendingSent(a, q, base)
    BY <2>1, <2>5, SendPending
  <2>7. Closing(a)
    BY <2>3 DEF Closing, NoAlert
  <2> QED BY <2>3, <2>6, <2>7 DEF PendingSent, Monotone, SameRecords
<1> QED BY <1>2, <1>3

(* The reply to a KeyUpdate, with key_update_request set. *)
LEMMA PhhKeeps ==
    ASSUME NEW r, NEW base \in Nat, Ready(r, base)
    PROVE  LET q == tls13_record_layer_phh([r EXCEPT !.key_update_request = TRUE])
           IN  Kept(q, base) /\ Monotone(r, q)
<1> DEFINE k == [r EXCEPT !.key_update_request = TRUE]
           q == tls13_record_layer_phh(k)
           p == [k EXCEPT !.phh_data = TRUE]
<1> SUFFICES Kept(q, base) /\ Monotone(r, q)
  OBVIOUS
<1>1. r \in RL /\ Good(r, base) /\ Placed(r)
  BY DEF Ready, Good
<1>2. k \in RL
  BY <1>1 DEF RL
<1>3. /\ k.wbio = r.wbio /\ k.wrec = r.wrec /\ k.wrec_appdata_len = r.wrec_appdata_len
      /\ k.gen = r.gen /\ k.seq = r.seq /\ k.phh_data = r.phh_data /\ k.key_update_request
      /\ k.write_closed = r.write_closed /\ k.alert_data = r.alert_data
  BY <1>1 DEF RL
<1>4. q = IF k.phh_data THEN Return(k, "FAILURE") ELSE tls13_record_layer_send_pending(p)
  BY DEF tls13_record_layer_phh
<1>5. p \in RL
  BY <1>2 DEF RL
<1>6. /\ p.wbio = k.wbio /\ p.wrec = k.wrec /\ p.wrec_appdata_len = k.wrec_appdata_len
      /\ p.gen = k.gen /\ p.seq = k.seq /\ p.phh_data
      /\ p.key_update_request = k.key_update_request
      /\ p.write_closed = k.write_closed /\ p.alert_data = k.alert_data
  BY <1>2 DEF RL
<1> HIDE DEF k, p, q
<1>7. Ready(k, base)
  <2>1. Good(k, base)
    BY <1>1, <1>2, <1>3 DEF Good, WrecNext, Sealed
  <2> QED BY <1>1, <1>3, <2>1 DEF Ready, Placed
<1>8. Ready(p, base)
  <2>1. Good(p, base)
    BY <1>3, <1>5, <1>6, <1>7 DEF Ready, Good, WrecNext, Sealed
  <2> QED BY <1>6, <1>7, <2>1 DEF Ready, Placed
<1>9. CASE k.phh_data
  <2>1. Kept(q, base) /\ Monotone(k, q)
    BY <1>4, <1>7, <1>9, ReturnKeeps DEF Ready, Ret
  <2> QED BY <1>3, <2>1 DEF Monotone, Closing
<1>10. CASE ~k.phh_data
  <2>1. PendingSent(p, q, base)
    BY <1>4, <1>8, <1>10, SendPending
  <2> QED BY <1>3, <1>6, <2>1 DEF PendingSent, Monotone, Closing
<1> QED BY <1>9, <1>10

(* Writing the next chunk: it is acknowledged exactly when it is written.   *)
LEMMA WriteKeeps ==
    ASSUME NEW r, NEW base \in Nat, Ready(r, base)
    PROVE  LET q == tls13_record_layer_write(r, base + 1)
           IN  /\ Monotone(r, q)
               /\ q.ret = "SUCCESS" => Ready(q, base + 1)
               /\ q.ret # "SUCCESS" => Kept(q, base)
<1> DEFINE q == tls13_record_layer_write(r, base + 1)
           s == tls13_record_layer_send_pending(r)
           w == tls13_record_layer_write_record(s, "app", base + 1)
<1> SUFFICES /\ Monotone(r, q)
             /\ q.ret = "SUCCESS" => Ready(q, base + 1)
             /\ q.ret # "SUCCESS" => Kept(q, base)
  OBVIOUS
<1>1. PendingSent(r, s, base)
  BY SendPending
<1>2. q = IF s.ret # "SUCCESS" THEN s ELSE w
  BY DEF tls13_record_layer_write
<1>3. CASE s.ret # "SUCCESS"
  BY <1>1, <1>2, <1>3 DEF PendingSent
<1>4. CASE s.ret = "SUCCESS"
  <2>1. Ready(s, base)
    BY <1>1, <1>4 DEF PendingSent, Kept, Ready
  <2>2. /\ SamePending(s, w)
        /\ s.write_closed => w.wbio = s.wbio /\ w.ret = "EOF"
        /\ w.ret \notin {"SUCCESS", "FAILURE"} => Ready(w, base)
        /\ w.ret = "FAILURE" => Good(w, base) /\ (Placed(w) \/ s.wrec.ct = "handshake")
        /\ w.ret = "SUCCESS" => Ready(w, base + 1)
    BY <2>1, WriteRecord
  <2> HIDE DEF q, s, w
  <2>3. w.ret = "FAILURE" => s.wrec.ct # "handshake"
    BY <1>1, <1>4, <2>1, <2>2 DEF PendingSent, Ready, Good, WrecNext, Sealed
  <2>4. Monotone(s, w)
    BY <2>2 DEF Monotone, Closing, SamePending
  <2>5. Monotone(r, w)
    BY <1>1, <2>4 DEF PendingSent, Monotone
  <2> QED BY <1>2, <1>4, <2>2, <2>3, <2>5 DEF Kept, Ready
<1> QED BY <1>3, <1>4
-----------------------------------------------------------------------------
(* The read path. *)

RdOK(d) ==
    /\ DOMAIN d = {"rbio", "gen", "seq", "rcontent", "alert", "phh", "hs_msg", "phh_count",
                   "phh_idle", "lost_update", "lost_requests"}
    /\ d.gen \in Nat
    /\ d.seq \in 0 .. MaxSeq
    /\ d.alert \in 0 .. NoAlert - 1
    /\ d.lost_update \in BOOLEAN /\ d.lost_requests \in Nat

AppOK(a) ==
    /\ DOMAIN a = {"call", "shutdown", "wnum", "acked", "consumed"}
    /\ a.call \in {"none", "read", "peek", "write", "shutdown"}
    /\ a.shutdown \subseteq {"sent", "received"}
    /\ a.wnum \in 0 .. WriteLen - 1
    /\ a.acked \in Nat

(* A call that reads in state a leaves alone what the application wrote.    *)
SameWriter(a, b) ==
    /\ b.call = a.call /\ b.wnum = a.wnum /\ b.acked = a.acked
    /\ "sent" \in b.shutdown <=> "sent" \in a.shutdown

CallOK(s, base) == Kept(s.rl, base) /\ RdOK(s.rd) /\ AppOK(s.app)

(* What every operation of the read path guarantees. *)
ReadStep(s, t, base) ==
    CallOK(t, base) /\ Monotone(s.rl, t.rl) /\ SameWriter(s.app, t.app)

(* Two operations of the read path in sequence guarantee what one does.     *)
LEMMA ReadStepTransitive ==
    ASSUME NEW s, NEW t, NEW u, NEW base \in Nat, ReadStep(s, t, base), ReadStep(t, u, base)
    PROVE  ReadStep(s, u, base)
BY DEF ReadStep, Monotone, SameWriter

(* A call that has not failed may go on. *)
LEMMA KeptReady ==
    ASSUME NEW r, NEW base \in Nat, Kept(r, base), r.ret # "FAILURE"
    PROVE  Ready(r, base)
BY DEF Kept, Ready

(* Changing only the read state of a call is a step of the read path.       *)
LEMMA RdChange ==
    ASSUME NEW s, NEW d, NEW base \in Nat, CallOK(s, base), RdOK(d)
    PROVE  ReadStep(s, State(s.rl, d, s.app), base)
BY DEF CallOK, ReadStep, State, Monotone, SameWriter

(* Returning a value from a call is a step of the read path.                *)
LEMMA ReturnsStep ==
    ASSUME NEW s, NEW base \in Nat, NEW ret \in Ret, CallOK(s, base), Placed(s.rl)
    PROVE  ReadStep(s, Returns(s, ret), base) /\ Returns(s, ret).rl.ret = ret
<1>1. LET q == Return(s.rl, ret) IN Kept(q, base) /\ Monotone(s.rl, q) /\ q.ret = ret
  BY ReturnKeeps DEF CallOK, Kept
<1> QED BY <1>1 DEF CallOK, ReadStep, Returns, State, SameWriter

(* tls13_send_alert, called on any error of the read path, keeps the write  *)
(* path in order.                                                           *)
LEMMA AlertStep ==
    ASSUME NEW s, NEW base \in Nat, NEW desc \in 0 .. NoAlert - 1, CallOK(s, base)
    PROVE  ReadStep(s, SendsAlert(s, desc), base)
<1>1. LET q == tls13_send_alert(s.rl, desc) IN Kept(q, base) /\ Monotone(s.rl, q)
  BY SendAlertKeeps DEF CallOK
<1> QED BY <1>1 DEF CallOK, ReadStep, SendsAlert, State, SameWriter

(* tls13_record_layer_process_alert, for every level and description: it    *)
(* may close the channels but writes nothing out of order.                  *)
LEMMA ProcessAlertStep ==
    ASSUME NEW s, NEW body, NEW base \in Nat, CallOK(s, base), Placed(s.rl)
    PROVE  ReadStep(s, tls13_record_layer_process_alert(s, body), base)
<1> DEFINE t == tls13_record_layer_process_alert(s, body)
           c == [s.rl EXCEPT !.read_closed = TRUE, !.ret = "EOF"]
           e == [s.rl EXCEPT !.read_closed = TRUE, !.write_closed = TRUE, !.ret = "ALERT"]
           b == [s.app EXCEPT !.shutdown = @ \cup {"received"}]
<1> SUFFICES ReadStep(s, t, base)
  OBVIOUS
<1>1. s.rl \in RL /\ Good(s.rl, base) /\ AppOK(s.app) /\ RdOK(s.rd)
  BY DEF CallOK, Kept, Good
<1>2. \/ t = State(c, s.rd, b)
      \/ t = Returns(s, "WANT_RETRY")
      \/ t = State(e, s.rd, s.app)
      \/ t = SendsAlert(s, TLS13_ALERT_ILLEGAL_PARAMETER)
  BY DEF tls13_record_layer_process_alert
<1> HIDE DEF t
<1>3. CASE t = State(c, s.rd, b)
  <2>1. c \in RL
    BY <1>1 DEF RL, Ret
  <2>2. SameRecords(s.rl, c) /\ c.write_closed = s.rl.write_closed
        /\ c.alert_data = s.rl.alert_data
    BY <1>1 DEF RL, SameRecords
  <2>3. AppOK(b) /\ SameWriter(s.app, b)
    BY <1>1 DEF AppOK, SameWriter
  <2> HIDE DEF c, b
  <2>4. Kept(c, base)
    BY <1>1, <2>1, <2>2, SameRecordsGood DEF Kept
  <2>5. Monotone(s.rl, c)
    BY <2>2 DEF Monotone, Closing, SameRecords
  <2> QED BY <1>1, <1>3, <2>3, <2>4, <2>5 DEF ReadStep, CallOK, State
<1>4. CASE t = Returns(s, "WANT_RETRY")
  BY <1>4, ReturnsStep DEF Ret
<1>5. CASE t = State(e, s.rd, s.app)
  <2>1. e \in RL
    BY <1>1 DEF RL, Ret
  <2>2. SameRecords(s.rl, e) /\ e.write_closed
    BY <1>1 DEF RL, SameRecords
  <2> HIDE DEF e
  <2>3. Kept(e, base)
    BY <1>1, <2>1, <2>2, SameRecordsGood DEF Kept, Placed
  <2>4. Monotone(s.rl, e)
    BY <2>2 DEF Monotone, Closing, SameRecords
  <2> QED BY <1>1, <1>5, <2>3, <2>4 DEF ReadStep, CallOK, State, SameWriter
<1>6. CASE t = SendsAlert(s, TLS13_ALERT_ILLEGAL_PARAMETER)
  BY <1>6, AlertStep DEF TLS13_ALERT_ILLEGAL_PARAMETER, NoAlert
<1> QED BY <1>2, <1>3, <1>4, <1>5, <1>6

(* tls13_record_layer_read_record, for every record of the peer; the read   *)
(* sequence number stays within its bound.                                  *)
LEMMA ReadRecordStep ==
    ASSUME NEW s, NEW base \in Nat, CallOK(s, base), Placed(s.rl)
    PROVE  ReadStep(s, tls13_record_layer_read_record(s), base)
<1> DEFINE t == tls13_record_layer_read_record(s)
           rec == Head(s.rd.rbio)
           o == [s.rd EXCEPT !.rbio = Tail(@), !.seq = @ + 1]
           f == [o EXCEPT !.rcontent = [ct |-> rec.ct, data |-> rec.body]]
           a == [s.rd EXCEPT !.alert = TLS13_ALERT_RECORD_OVERFLOW]
           so == State(s.rl, o, s.app)
           sf == State(s.rl, f, s.app)
           sa == State(s.rl, a, s.app)
<1> SUFFICES ReadStep(s, t, base)
  OBVIOUS
<1>1. RdOK(s.rd) /\ MaxSeq \in Nat
  BY MaxSeqAssumption DEF CallOK
<1>2. \/ t = Returns(s, "WANT_POLLIN") \/ t = Returns(s, "FAILURE")
      \/ t = Returns(sa, "FAILURE")
      \/ s.rd.seq # MaxSeq /\ t = tls13_record_layer_process_alert(so, rec.body)
      \/ s.rd.seq # MaxSeq /\ t = Returns(sf, "SUCCESS")
      \/ s.rd.seq # MaxSeq /\ t = SendsAlert(sf, TLS13_ALERT_UNEXPECTED_MESSAGE)
  BY DEF tls13_record_layer_read_record, Returns, State
<1> HIDE DEF t
<1>3. CASE t = Returns(s, "WANT_POLLIN") \/ t = Returns(s, "FAILURE")
  BY <1>3, ReturnsStep DEF Ret
<1>4. CASE t = Returns(sa, "FAILURE")
  <2>1. RdOK(a)
    BY <1>1 DEF RdOK, TLS13_ALERT_RECORD_OVERFLOW, NoAlert
  <2> HIDE DEF a
  <2>2. ReadStep(s, sa, base)
    BY <2>1, RdChange
  <2>3. CallOK(sa, base) /\ Placed(sa.rl)
    BY <2>2 DEF ReadStep, State
  <2>4. ReadStep(sa, t, base)
    BY <1>4, <2>3, ReturnsStep DEF Ret
  <2> QED BY <2>2, <2>4, ReadStepTransitive
<1>5. CASE s.rd.seq # MaxSeq
  <2>1. RdOK(o)
    <3>1. s.rd.seq + 1 \in 0 .. MaxSeq
      BY <1>1, <1>5 DEF RdOK
    <3> QED BY <1>1, <3>1 DEF RdOK
  <2>2. RdOK(f)
    <3> HIDE DEF o
    <3> QED BY <2>1 DEF RdOK
  <2> HIDE DEF o, f, rec
  <2>3. ReadStep(s, so, base) /\ ReadStep(s, sf, base)
    BY <2>1, <2>2, RdChange
  <2>4. CallOK(so, base) /\ CallOK(sf, base) /\ Placed(so.rl) /\ Placed(sf.rl)
    BY <2>3 DEF ReadStep, State
  <2> HIDE DEF so, sf
  <2>5. CASE t = tls13_record_layer_process_alert(so, rec.body)
    BY <2>3, <2>4, <2>5, ProcessAlertStep, ReadStepTransitive
  <2>6. CASE t = Returns(sf, "SUCCESS")
    <3>1. ReadStep(sf, t, base)
      BY <2>4, <2>6, ReturnsStep DEF Ret
    <3> QED BY <2>3, <3>1, ReadStepTransitive
  <2>7. CASE t = SendsAlert(sf, TLS13_ALERT_UNEXPECTED_MESSAGE)
    <3>1. ReadStep(sf, t, base)
      BY <2>4, <2>7, AlertStep DEF TLS13_ALERT_UNEXPECTED_MESSAGE, NoAlert
    <3> QED BY <2>3, <3>1, ReadStepTransitive
  <2> QED BY <1>2, <1>3, <1>4, <2>5, <2>6, <2>7
<1> QED BY <1>2, <1>3, <1>4, <1>5

(* tls13_key_update_recv: the read key changes at once, and a requested     *)
(* reply is sent or left pending in order.                                  *)
LEMMA KeyUpdateStep ==
    ASSUME NEW s, NEW request \in BOOLEAN, NEW base \in Nat, CallOK(s, base), Placed(s.rl)
    PROVE  ReadStep(s, tls13_key_update_recv(s, request), base)
<1> DEFINE d == [s.rd EXCEPT !.gen = @ + 1, !.seq = 0]
           q == tls13_record_layer_phh([s.rl EXCEPT !.key_update_request = TRUE])
           t == State(s.rl, d, s.app)
<1>1. RdOK(d)
  BY MaxSeqAssumption DEF CallOK, RdOK
<1>2. ReadStep(s, t, base) /\ t.rl = s.rl
  <2> HIDE DEF d
  <2> QED BY <1>1, RdChange DEF State
<1>3. CASE ~request
  <2>1. tls13_key_update_recv(s, request) = Returns(t, "SUCCESS")
    BY <1>3 DEF tls13_key_update_recv, Returns, State
  <2> HIDE DEF t
  <2>2. ReadStep(t, Returns(t, "SUCCESS"), base)
    BY <1>2, ReturnsStep DEF ReadStep, Ret
  <2> QED BY <1>2, <2>1, <2>2, ReadStepTransitive
<1>4. CASE request
  <2>1. tls13_key_update_recv(s, request) = State(q, d, s.app)
    BY <1>4 DEF tls13_key_update_recv
  <2>2. Kept(q, base) /\ Monotone(s.rl, q)
    BY PhhKeeps DEF CallOK, Kept, Ready
  <2> HIDE DEF q, d
  <2> QED BY <1>1, <2>1, <2>2 DEF ReadStep, CallOK, State, SameWriter
<1> QED BY <1>3, <1>4

(* tls13_new_session_ticket_recv leaves the write path alone.               *)
LEMMA NewSessionTicketStep ==
    ASSUME NEW s, NEW base \in Nat, CallOK(s, base), Placed(s.rl)
    PROVE  ReadStep(s, tls13_new_session_ticket_recv(s), base)
<1> DEFINE l == Return(s.rl, "SUCCESS")
<1>1. AppOK(s.app) /\ SameWriter(s.app, s.app)
  BY DEF CallOK, AppOK, SameWriter
<1>2. Kept(l, base) /\ Monotone(s.rl, l)
  BY ReturnKeeps DEF CallOK, Kept, Ret
<1>3. tls13_new_session_ticket_recv(s) = State(l, s.rd, s.app)
  BY DEF tls13_new_session_ticket_recv, Returns
<1> HIDE DEF l
<1> QED BY <1>1, <1>2, <1>3 DEF ReadStep, CallOK, State

(* The handling of any post-handshake message, malformed ones included.     *)
LEMMA PhhMessageStep ==
    ASSUME NEW s, NEW msg, NEW base \in Nat, CallOK(s, base), Placed(s.rl)
    PROVE  ReadStep(s, PhhMessage(s, msg), base)
<1>1. CASE msg = "key_update_requested"
  BY <1>1, KeyUpdateStep DEF PhhMessage
<1>2. CASE msg = "key_update_not_requested"
  BY <1>2, KeyUpdateStep DEF PhhMessage
<1>3. CASE msg = "key_update_illegal"
  <2>1. PhhMessage(s, msg) = SendsAlert(s, TLS13_ALERT_ILLEGAL_PARAMETER)
    BY <1>3 DEF PhhMessage
  <2> QED BY <2>1, AlertStep DEF TLS13_ALERT_ILLEGAL_PARAMETER, NoAlert
<1>4. CASE msg = "new_session_ticket"
  BY <1>4, NewSessionTicketStep DEF PhhMessage
<1>5. CASE msg \notin {"key_update_requested", "key_update_not_requested",
                      "key_update_illegal", "new_session_ticket"}
  <2>1. PhhMessage(s, msg) = Returns(s, "FAILURE")
    BY <1>5 DEF PhhMessage
  <2> QED BY <2>1, ReturnsStep DEF Ret
<1> QED BY <1>1, <1>2, <1>3, <1>4, <1>5

(* The content asks for a key update, or brings one. *)
Asks(c) == Carries(c.ct, c.data, {"key_update_requested"})

Brings(c) == Carries(c.ct, c.data, KeyUpdates)

(* What is cleared with a message is remembered, and nothing else changes.  *)
LEMMA LostFields ==
    ASSUME NEW d, RdOK(d)
    PROVE  LET e == Lost(d)
           IN  /\ RdOK(e) /\ e.rbio = d.rbio /\ e.gen = d.gen /\ e.seq = d.seq
               /\ e.rcontent = d.rcontent /\ e.alert = d.alert /\ e.phh = d.phh
               /\ e.hs_msg = d.hs_msg /\ e.phh_count = d.phh_count
               /\ e.lost_update <=> d.lost_update \/ Brings(d.rcontent)
               /\ e.lost_requests = d.lost_requests + (IF Asks(d.rcontent) THEN 1 ELSE 0)
<1> DEFINE n == IF Asks(d.rcontent) THEN 1 ELSE 0
           b == d.lost_update \/ Brings(d.rcontent)
<1>1. Lost(d) = [d EXCEPT !.lost_update = b, !.lost_requests = d.lost_requests + n]
  BY DEF Lost, Asks, Brings
<1>2. n \in Nat /\ b \in BOOLEAN /\ d.lost_requests + n \in Nat
  BY DEF RdOK
<1> HIDE DEF n, b
<1> DEFINE e == [d EXCEPT !.lost_update = b, !.lost_requests = d.lost_requests + n]
<1>3. /\ RdOK(e) /\ e.rbio = d.rbio /\ e.gen = d.gen /\ e.seq = d.seq
      /\ e.rcontent = d.rcontent /\ e.alert = d.alert /\ e.phh = d.phh
      /\ e.hs_msg = d.hs_msg /\ e.phh_count = d.phh_count
      /\ e.lost_update = b /\ e.lost_requests = d.lost_requests + n
  BY <1>2 DEF RdOK
<1> HIDE DEF e
<1> QED BY <1>1, <1>3 DEF e, n, b

(* The end of tls13_record_layer_recv_phh changes no record.                *)
LEMMA PhhReturnStep ==
    ASSUME NEW s, NEW base \in Nat, CallOK(s, base)
    PROVE  ReadStep(s, PhhReturn(s), base)
<1> DEFINE e == Lost(s.rd)
           d == [tls_content_clear(e) EXCEPT !.phh = s.rl.ret = "WANT_POLLIN"]
           t == State(s.rl, d, s.app)
           ret == IF PhhRetry THEN "WANT_RETRY" ELSE "WANT_POLLIN"
<1>1. RdOK(d)
  <2>1. RdOK(e)
    BY LostFields DEF CallOK
  <2> HIDE DEF e
  <2> QED BY <2>1 DEF RdOK, tls_content_clear
<1>2. PhhReturn(s) = IF s.rl.ret # "SUCCESS" THEN t ELSE Returns(t, ret)
  BY DEF PhhReturn, Returns, State
<1> HIDE DEF d
<1>3. ReadStep(s, t, base) /\ t.rl = s.rl
  BY <1>1, RdChange DEF State
<1> HIDE DEF t
<1>4. CASE s.rl.ret = "SUCCESS"
  <2>1. Placed(t.rl) /\ CallOK(t, base)
    BY <1>3, <1>4, KeptReady DEF ReadStep, CallOK, Ready
  <2>2. ret \in Ret
    BY DEF Ret
  <2> HIDE DEF ret
  <2>3. ReadStep(t, Returns(t, ret), base)
    BY <2>1, <2>2, ReturnsStep
  <2> QED BY <1>2, <1>3, <1>4, <2>3, ReadStepTransitive
<1> QED BY <1>2, <1>3, <1>4

(* tls13_handshake_msg_recv, for a whole message, a first fragment or a     *)
(* last one.                                                                *)
LEMMA HandshakeMsgRecvStep ==
    ASSUME NEW s, NEW base \in Nat, CallOK(s, base), Placed(s.rl)
    PROVE  ReadStep(s, tls13_handshake_msg_recv(s), base)
<1> DEFINE item == Head(s.rd.rcontent.data)
           d == [s.rd EXCEPT !.rcontent.data = Tail(@), !.hs_msg = item.part = "first"]
           t == State(s.rl, d, s.app)
           m == PhhMessage(t, item.msg)
<1>1. RdOK(d)
  BY DEF CallOK, RdOK
<1>2. tls13_handshake_msg_recv(s) =
          IF item.part = "first" THEN Returns(t, "NESTED") ELSE PhhReturn(m)
  BY DEF tls13_handshake_msg_recv, Returns, State
<1> HIDE DEF d, item
<1>3. ReadStep(s, t, base) /\ t.rl = s.rl
  BY <1>1, RdChange DEF State
<1> HIDE DEF t
<1>4. CallOK(t, base) /\ Placed(t.rl)
  BY <1>3 DEF ReadStep
<1>5. ReadStep(t, Returns(t, "NESTED"), base)
  BY <1>4, ReturnsStep DEF Ret
<1>6. ReadStep(t, m, base)
  BY <1>4, PhhMessageStep
<1> HIDE DEF m
<1>7. ReadStep(m, PhhReturn(m), base)
  BY <1>6, PhhReturnStep DEF ReadStep
<1> QED BY <1>2, <1>3, <1>5, <1>6, <1>7, ReadStepTransitive

(* tls13_record_layer_recv_phh, below the limit on messages and above it.   *)
LEMMA RecvPhhStep ==
    ASSUME NEW s, NEW base \in Nat, CallOK(s, base), Placed(s.rl)
    PROVE  ReadStep(s, tls13_record_layer_recv_phh(s), base)
<1> DEFINE d == [s.rd EXCEPT !.phh = TRUE]
           c == PhhCounted(d)
           t == State(s.rl, d, s.app)
           u == State(s.rl, c, s.app)
           a == SendsAlert(t, TLS13_ALERT_UNEXPECTED_MESSAGE)
<1>1. RdOK(d)
  BY DEF CallOK, RdOK
<1>2. RdOK(c)
  <2> HIDE DEF d
  <2> QED BY <1>1 DEF RdOK, PhhCounted
<1>3. tls13_record_layer_recv_phh(s) =
          IF ~tls13_phh_limit_check(d) THEN PhhReturn(a) ELSE tls13_handshake_msg_recv(u)
  BY DEF tls13_record_layer_recv_phh, tls13_phh_received_cb, State
<1> HIDE DEF d, c
<1>4. ReadStep(s, t, base) /\ ReadStep(s, u, base) /\ u.rl = s.rl
  BY <1>1, <1>2, RdChange DEF State
<1> HIDE DEF t, u
<1>5. ReadStep(t, a, base)
  BY <1>4, AlertStep DEF ReadStep, TLS13_ALERT_UNEXPECTED_MESSAGE, NoAlert
<1> HIDE DEF a
<1>6. ReadStep(a, PhhReturn(a), base)
  BY <1>5, PhhReturnStep DEF ReadStep
<1>7. ReadStep(u, tls13_handshake_msg_recv(u), base)
  BY <1>4, HandshakeMsgRecvStep DEF ReadStep
<1> QED BY <1>3, <1>4, <1>5, <1>6, <1>7, ReadStepTransitive

(* Reading first sends what is pending, then opens a record.                *)
LEMMA PullUpStep ==
    ASSUME NEW s, NEW base \in Nat, CallOK(s, base), Placed(s.rl)
    PROVE  ReadStep(s, PullUp(s), base)
<1> DEFINE l == tls13_record_layer_send_pending(s.rl)
           t == State(l, s.rd, s.app)
<1>1. PendingSent(s.rl, l, base)
  BY SendPending DEF CallOK, Kept, Ready
<1>2. \/ PullUp(s) = t
      \/ l.ret = "SUCCESS" /\ PullUp(s) = Returns(t, "EOF")
      \/ l.ret = "SUCCESS" /\ PullUp(s) = tls13_record_layer_read_record(t)
  BY DEF PullUp, AfterPending, State
<1> HIDE DEF l
<1>3. ReadStep(s, t, base) /\ t.rl = l
  BY <1>1 DEF ReadStep, PendingSent, CallOK, State, SameWriter
<1> HIDE DEF t
<1>4. CASE l.ret = "SUCCESS"
  <2>1. CallOK(t, base) /\ Placed(t.rl)
    BY <1>3, <1>4, KeptReady DEF ReadStep, CallOK, Ready
  <2>2. ReadStep(t, Returns(t, "EOF"), base)
    BY <2>1, ReturnsStep DEF Ret
  <2>3. ReadStep(t, tls13_record_layer_read_record(t), base)
    BY <2>1, ReadRecordStep
  <2> QED BY <1>2, <1>3, <2>2, <2>3, ReadStepTransitive
<1> QED BY <1>2, <1>3, <1>4

(* tls_content_read, reading or peeking, changes no record that was         *)
(* written.                                                                 *)
LEMMA ContentReadStep ==
    ASSUME NEW s, NEW n, NEW peek, NEW base \in Nat, CallOK(s, base), Placed(s.rl)
    PROVE  ReadStep(s, tls_content_read(s, n, peek), base)
<1> DEFINE data == s.rd.rcontent.data
           k == IF n < Len(data) THEN n ELSE Len(data)
           d == [s.rd EXCEPT !.rcontent.data = SubSeq(data, k + 1, Len(data))]
           b == [s.app EXCEPT !.consumed = @ + k]
           l == Return(s.rl, "SUCCESS")
<1>1. RdOK(d)
  BY DEF CallOK, RdOK
<1>2. AppOK(b) /\ SameWriter(s.app, b)
  <2> HIDE DEF k
  <2> QED BY DEF CallOK, AppOK, SameWriter
<1>3. Kept(l, base) /\ Monotone(s.rl, l)
  BY ReturnKeeps DEF CallOK, Kept, Ret
<1>4. tls_content_read(s, n, peek) = IF peek THEN Returns(s, "SUCCESS") ELSE State(l, d, b)
  BY DEF tls_content_read
<1> HIDE DEF d, b, l
<1>5. ReadStep(s, State(l, d, b), base)
  BY <1>1, <1>2, <1>3 DEF ReadStep, CallOK, State
<1>6. ReadStep(s, Returns(s, "SUCCESS"), base)
  BY ReturnsStep DEF Ret
<1> QED BY <1>4, <1>5, <1>6

(* tls13_record_layer_read_internal as a whole.                             *)
LEMMA ReadInternalStep ==
    ASSUME NEW s, NEW n, NEW peek, NEW base \in Nat, CallOK(s, base), Placed(s.rl)
    PROVE  ReadStep(s, tls13_record_layer_read_internal(s, n, peek), base)
<1> DEFINE t == PullUp(s)
           i == tls13_record_layer_read_internal(s, n, peek)
<1> SUFFICES ReadStep(s, i, base)
  OBVIOUS
<1>1. ReadStep(s, t, base)
  BY PullUpStep
<1>2. \/ i = t
      \/ /\ t.rl.ret = "SUCCESS"
         /\ \/ i = Returns(t, "WANT_POLLIN")
            \/ i = tls13_record_layer_recv_phh(t)
            \/ i = SendsAlert(t, TLS13_ALERT_UNEXPECTED_MESSAGE)
            \/ i = tls_content_read(t, n, peek)
  BY DEF tls13_record_layer_read_internal, UseContent
<1> HIDE DEF t, i
<1>3. CASE t.rl.ret = "SUCCESS"
  <2>1. CallOK(t, base) /\ Placed(t.rl)
    BY <1>1, <1>3, KeptReady DEF ReadStep, CallOK, Ready
  <2>2. ReadStep(t, Returns(t, "WANT_POLLIN"), base)
    BY <2>1, ReturnsStep DEF Ret
  <2>3. ReadStep(t, SendsAlert(t, TLS13_ALERT_UNEXPECTED_MESSAGE), base)
    BY <2>1, AlertStep DEF TLS13_ALERT_UNEXPECTED_MESSAGE, NoAlert
  <2>4. ReadStep(t, tls13_record_layer_recv_phh(t), base)
    BY <2>1, RecvPhhStep
  <2>5. ReadStep(t, tls_content_read(t, n, peek), base)
    BY <2>1, ContentReadStep
  <2> QED BY <1>1, <1>2, <2>2, <2>3, <2>4, <2>5, ReadStepTransitive
<1> QED BY <1>1, <1>2, <1>3

(* The alert that tls13_record_layer_read sends after its loop.             *)
LEMMA AfterLoopStep ==
    ASSUME NEW s, NEW base \in Nat, CallOK(s, base)
    PROVE  ReadStep(s, AfterLoop(s), base)
<1>1. ReadStep(s, SendsAlert(s, s.rd.alert), base)
  BY AlertStep DEF CallOK, RdOK
<1>2. ReadStep(s, s, base)
  BY DEF ReadStep, Monotone, SameWriter
<1> QED BY <1>1, <1>2 DEF AfterLoop

(* The read inside tls13_phh_received_cb that waits for the rest of a       *)
(* message.                                                                 *)
LEMMA NestedReadStep ==
    ASSUME NEW s, NEW base \in Nat, CallOK(s, base), Placed(s.rl)
    PROVE  ReadStep(s, NestedRead(s), base)
<1> DEFINE t == PullUp(s)
           a == AfterLoop(t)
           w == Returns(t, "WANT_POLLIN")
           e == SendsAlert(t, TLS13_ALERT_UNEXPECTED_MESSAGE)
           x == NestedRead(s)
<1> SUFFICES ReadStep(s, x, base)
  OBVIOUS
<1>1. ReadStep(s, t, base)
  BY PullUpStep
<1>2. \/ t.rl.ret = "WANT_RETRY" /\ x = Returns(t, "NESTED")
      \/ x = PhhReturn(a)
      \/ /\ t.rl.ret = "SUCCESS"
         /\ \/ x = PhhReturn(w)
            \/ x = PhhReturn(e)
            \/ x = tls13_handshake_msg_recv(t)
  BY DEF NestedRead, UseNestedContent
<1> HIDE DEF t, x
<1>3. ReadStep(s, PhhReturn(a), base)
  <2>1. ReadStep(t, a, base)
    BY <1>1, AfterLoopStep DEF ReadStep
  <2> HIDE DEF a
  <2>2. ReadStep(a, PhhReturn(a), base)
    BY <2>1, PhhReturnStep DEF ReadStep
  <2> QED BY <1>1, <2>1, <2>2, ReadStepTransitive
<1>4. CASE t.rl.ret \in {"WANT_RETRY", "SUCCESS"}
  <2>1. CallOK(t, base) /\ Placed(t.rl)
    BY <1>1, <1>4, KeptReady DEF ReadStep, CallOK, Ready
  <2>2. ReadStep(t, Returns(t, "NESTED"), base) /\ ReadStep(t, w, base)
    BY <2>1, ReturnsStep DEF Ret
  <2>3. ReadStep(t, e, base)
    BY <2>1, AlertStep DEF TLS13_ALERT_UNEXPECTED_MESSAGE, NoAlert
  <2> HIDE DEF w, e
  <2>4. ReadStep(w, PhhReturn(w), base) /\ ReadStep(e, PhhReturn(e), base)
    BY <2>2, <2>3, PhhReturnStep DEF ReadStep
  <2>5. ReadStep(t, tls13_handshake_msg_recv(t), base)
    BY <2>1, HandshakeMsgRecvStep
  <2>6. ReadStep(t, PhhReturn(w), base) /\ ReadStep(t, PhhReturn(e), base)
    BY <2>2, <2>3, <2>4, ReadStepTransitive
  <2> HIDE DEF a
  <2> QED BY <1>1, <1>2, <1>3, <2>2, <2>5, <2>6, ReadStepTransitive
<1> QED BY <1>2, <1>3, <1>4

(* tls13_record_layer_read and tls13_record_layer_peek, one iteration of    *)
(* their loop.                                                              *)
LEMMA ReadLayerStep ==
    ASSUME NEW s, NEW n, NEW peek, NEW base \in Nat, CallOK(s, base), Placed(s.rl)
    PROVE  ReadStep(s, tls13_record_layer_read(s, n, peek), base)
<1> DEFINE t == IF s.rl.ret = "NESTED" THEN NestedRead(s)
                ELSE tls13_record_layer_read_internal(s, n, peek)
<1>1. ReadStep(s, t, base)
  BY NestedReadStep, ReadInternalStep
<1>2. tls13_record_layer_read(s, n, peek) = AfterLoop(t)
  BY DEF tls13_record_layer_read
<1> HIDE DEF t
<1>3. ReadStep(t, AfterLoop(t), base)
  BY <1>1, AfterLoopStep DEF ReadStep
<1> QED BY <1>1, <1>2, <1>3, ReadStepTransitive
-----------------------------------------------------------------------------
(* The inductive invariant.  Between two steps of a call nothing has failed;*)
(* once the application has asked for the shutdown the write channel is     *)
(* closed or an alert is pending, and while SSL_shutdown reads it is closed.*)

CallInv(l, d, a) ==
    /\ Kept(l, a.acked + a.wnum) /\ RdOK(d) /\ AppOK(a)
    /\ a.call # "none" => l.ret \in {"SUCCESS", "WANT_RETRY", "NESTED"}
    /\ "sent" \in a.shutdown => Closing(l)
    /\ a.call = "shutdown" => l.write_closed

Inv == CallInv(rl, rd, app) /\ rl.room = 0

ClosedStep == rl.write_closed => rl'.write_closed /\ rl'.wbio = rl.wbio

(* How many records the BIO takes has no part in the invariant.             *)
LEMMA RoomKeeps ==
    ASSUME NEW r, NEW base \in Nat, NEW n \in Nat, Good(r, base)
    PROVE  LET q == [r EXCEPT !.room = n]
           IN  /\ Good(q, base) /\ (Placed(r) => Placed(q))
               /\ SameRecords(r, q) /\ SamePending(r, q) /\ q.ret = r.ret /\ q.room = n
<1> DEFINE q == [r EXCEPT !.room = n]
<1>1. r \in RL
  BY DEF Good
<1>2. q \in RL
  BY <1>1 DEF RL
<1>3. SameRecords(r, q) /\ SamePending(r, q) /\ q.ret = r.ret /\ q.room = n
  BY <1>1 DEF RL, SameRecords, SamePending
<1> HIDE DEF q
<1>4. Good(q, base) /\ (Placed(r) => Placed(q))
  BY <1>2, <1>3, SameRecordsGood DEF SamePending
<1> QED BY <1>3, <1>4 DEF q

(* The end of a step. *)
LEMMA BecomesKeeps ==
    ASSUME NEW s, CallInv(s.rl, s.rd, s.app), Monotone(rl, s.rl), Becomes(s)
    PROVE  Inv' /\ ClosedStep
<1> DEFINE base == s.app.acked + s.app.wnum
           q == [s.rl EXCEPT !.room = 0]
<1>1. base \in Nat /\ Good(s.rl, base)
  BY WriteLenAssumption DEF CallInv, AppOK, Kept
<1>2. /\ Good(q, base) /\ (Placed(s.rl) => Placed(q))
      /\ SameRecords(s.rl, q) /\ SamePending(s.rl, q) /\ q.ret = s.rl.ret /\ q.room = 0
  BY <1>1, RoomKeeps
<1>3. rl' = q /\ rd' = s.rd /\ app' = s.app
  BY DEF Becomes
<1> HIDE DEF q
<1>4. Kept(q, base)
  BY <1>2 DEF CallInv, Kept, SamePending
<1>5. CallInv(q, s.rd, s.app)
  BY <1>2, <1>4 DEF CallInv, Closing, SamePending
<1>6. Inv'
  BY <1>2, <1>3, <1>5 DEF Inv
<1>7. ClosedStep
  BY <1>2, <1>3 DEF ClosedStep, Monotone, SameRecords, SamePending
<1> QED BY <1>6, <1>7

(* The start of a step. *)
LEMMA CurrentReady ==
    ASSUME NEW room \in 0 .. RoomBound, Inv, rl.ret # "FAILURE"
    PROVE  LET s == Current(room)
           IN  /\ CallOK(s, app.acked + app.wnum)
               /\ Placed(s.rl)
               /\ \A q : Monotone(s.rl, q) => Monotone(rl, q)
               /\ s.app = app /\ s.rd = rd
               /\ SamePending(rl, s.rl) /\ s.rl.ret = rl.ret
<1> DEFINE base == app.acked + app.wnum
           q == [rl EXCEPT !.room = room]
<1>1. base \in Nat /\ room \in Nat /\ Good(rl, base) /\ Placed(rl)
  BY WriteLenAssumption, RoomAssumption DEF Inv, CallInv, AppOK, Kept
<1>2. /\ Good(q, base) /\ Placed(q)
      /\ SameRecords(rl, q) /\ SamePending(rl, q) /\ q.ret = rl.ret
  BY <1>1, RoomKeeps
<1>3. Current(room) = State(q, rd, app)
  BY DEF Current
<1> HIDE DEF q
<1>4. CallOK(State(q, rd, app), base)
  BY <1>2 DEF CallOK, State, Kept, Inv, CallInv
<1>5. \A x : Monotone(q, x) => Monotone(rl, x)
  BY <1>2 DEF Monotone, Closing, SameRecords, SamePending
<1> QED BY <1>2, <1>3, <1>4, <1>5 DEF State

(* A new record layer satisfies the invariant.                              *)
LEMMA InitInv == Init => Inv
<1> SUFFICES ASSUME Init PROVE Inv
  OBVIOUS
<1>1. rl = [wrec |-> NoRecord, wrec_appdata_len |-> 0, gen |-> 0, seq |-> 0,
            wbio |-> << >>, alert_data |-> NoAlert, phh_data |-> FALSE,
            key_update_request |-> FALSE, read_closed |-> FALSE, write_closed |-> FALSE,
            ret |-> "SUCCESS", room |-> 0]
  BY DEF Init
<1>2. NoRecord \in Record /\ NoRecord.ct = "none" /\ << >> \in Seq(Record)
  BY DEF NoRecord, Record
<1>3. rl \in RL
  BY <1>1, <1>2, MaxSeqAssumption DEF RL, Ret, NoAlert
<1>4. /\ rl.wrec.ct = "none" /\ rl.wbio = << >> /\ rl.wrec_appdata_len = 0
      /\ rl.gen = 0 /\ rl.seq = 0 /\ ~rl.phh_data /\ rl.room = 0
  BY <1>1, <1>2
<1>5. InOrder(rl.wbio) /\ Chunks(rl.wbio, 0) /\ NextIs(rl.wbio, rl.gen, rl.seq)
  <2>1. Len(rl.wbio) = 0 /\ \A i \in 1 .. 0 : FALSE
    BY <1>4
  <2> QED BY <1>4, <2>1 DEF InOrder, Chunks, NextIs
<1>6. Good(rl, 0) /\ Placed(rl)
  BY <1>3, <1>4, <1>5 DEF Good, WrecNext, Sealed, Placed
<1>7. app = [call |-> "none", shutdown |-> {}, wnum |-> 0, acked |-> 0, consumed |-> 0]
  BY DEF Init
<1>8. AppOK(app) /\ app.acked + app.wnum = 0 /\ app.call = "none" /\ app.shutdown = {}
  BY <1>7, WriteLenAssumption DEF AppOK
<1>9. RdOK(rd)
  BY MaxSeqAssumption DEF Init, RdOK, NoAlert
<1> QED BY <1>4, <1>6, <1>8, <1>9 DEF Inv, CallInv, Kept

(* An iteration of a call that reads. *)
LEMMA ReadKeeps ==
    ASSUME NEW call \in {"read", "peek"}, NEW n, NEW room \in 0 .. RoomBound,
           Inv, rl.ret # "FAILURE", Read(call, n, room)
    PROVE  Inv' /\ ClosedStep
<1> DEFINE base == app.acked + app.wnum
           c == Current(room)
           s == tls13_record_layer_read(c, n, call = "peek")
           next == IF Loops(s) THEN call ELSE "none"
           a == [s.app EXCEPT !.call = next]
           t == SetCall(s, next)
<1>1. base \in Nat
  BY WriteLenAssumption DEF Inv, CallInv, AppOK
<1>2. /\ CallOK(c, base) /\ Placed(c.rl) /\ c.app = app
      /\ \A q : Monotone(c.rl, q) => Monotone(rl, q)
  BY CurrentReady
<1> HIDE DEF c
<1>3. ReadStep(c, s, base)
  BY <1>1, <1>2, ReadLayerStep
<1>4. Becomes(t)
  BY DEF Read, GoesOn, c
<1>5. t.rl = s.rl /\ t.rd = s.rd /\ t.app = a
  BY DEF SetCall, State
<1>6. next # "none" => s.rl.ret \in {"SUCCESS", "WANT_RETRY", "NESTED"}
  BY DEF Loops
<1>7. next \in {"none", "read", "peek"}
  OBVIOUS
<1> HIDE DEF s, next, t
<1>8. AppOK(a) /\ a.call = next /\ a.acked = app.acked /\ a.wnum = app.wnum
      /\ ("sent" \in a.shutdown <=> "sent" \in app.shutdown)
  BY <1>2, <1>3, <1>7 DEF ReadStep, CallOK, AppOK, SameWriter
<1> HIDE DEF a
<1>9. "sent" \in a.shutdown => Closing(s.rl)
  BY <1>2, <1>3, <1>8 DEF ReadStep, Monotone, Inv, CallInv
<1>10. CallInv(s.rl, s.rd, a)
  BY <1>3, <1>6, <1>7, <1>8, <1>9 DEF CallInv, ReadStep, CallOK
<1>11. Monotone(rl, s.rl)
  BY <1>2, <1>3 DEF ReadStep
<1> QED BY <1>4, <1>5, <1>10, <1>11, BecomesKeeps

(* An iteration of SSL_write. *)
LEMMA WriteStepKeeps ==
    ASSUME NEW room \in 0 .. RoomBound, Inv, rl.ret # "FAILURE",
           app.call \in {"none", "write"}, Write(room)
    PROVE  Inv' /\ ClosedStep
<1> DEFINE base == app.acked + app.wnum
           c == Current(room)
           l == tls13_record_layer_write(c.rl, base + 1)
           none == [app EXCEPT !.call = "none"]
           more == [app EXCEPT !.call = "write", !.wnum = @ + 1]
           all == [app EXCEPT !.call = "none", !.wnum = 0, !.acked = @ + WriteLen]
           a == IF l.ret # "SUCCESS" THEN none
                ELSE IF app.wnum + 1 = WriteLen THEN all ELSE more
           t == State(l, rd, a)
<1>1. /\ base \in Nat /\ app.wnum \in Nat /\ app.acked \in Nat /\ WriteLen \in Nat \ {0}
      /\ app.wnum < WriteLen /\ AppOK(app) /\ RdOK(rd)
  BY WriteLenAssumption DEF Inv, CallInv, AppOK
<1>2. /\ CallOK(c, base) /\ Placed(c.rl)
      /\ \A q : Monotone(c.rl, q) => Monotone(rl, q)
  BY CurrentReady
<1>3. Becomes(t)
  BY DEF Write
<1> HIDE DEF c
<1>4. /\ Monotone(c.rl, l)
      /\ l.ret = "SUCCESS" => Ready(l, base + 1)
      /\ l.ret # "SUCCESS" => Kept(l, base)
  BY <1>1, <1>2, WriteKeeps DEF CallOK, Kept, Ready
<1> HIDE DEF l
<1>5. /\ AppOK(none) /\ none.call = "none" /\ none.acked + none.wnum = base
      /\ none.shutdown = app.shutdown
  BY <1>1 DEF AppOK
<1>6. /\ AppOK(all) /\ all.call = "none" /\ all.acked + all.wnum = app.acked + WriteLen
      /\ all.shutdown = app.shutdown
  BY <1>1 DEF AppOK
<1>7. ASSUME app.wnum + 1 # WriteLen
      PROVE  /\ AppOK(more) /\ more.call = "write" /\ more.shutdown = app.shutdown
             /\ more.acked + more.wnum = base + 1
  BY <1>1, <1>7 DEF AppOK
<1>8. "sent" \in app.shutdown => Closing(l)
  BY <1>2, <1>4 DEF Monotone, Inv, CallInv
<1> HIDE DEF none, more, all
<1>9. CallInv(l, rd, a)
  <2>1. CASE l.ret # "SUCCESS"
    BY <1>1, <1>4, <1>5, <1>8, <2>1 DEF CallInv
  <2>2. CASE l.ret = "SUCCESS" /\ app.wnum + 1 = WriteLen
    <3>1. a = all /\ all.acked + all.wnum = base + 1
      BY <1>1, <1>6, <2>2
    <3>2. Kept(l, base + 1)
      BY <1>4, <2>2 DEF Kept, Ready
    <3> HIDE DEF base, a
    <3> QED BY <1>1, <1>6, <1>8, <3>1, <3>2 DEF CallInv
  <2>3. CASE l.ret = "SUCCESS" /\ app.wnum + 1 # WriteLen
    <3>1. a = more
      BY <2>3
    <3>2. Kept(l, base + 1)
      BY <1>4, <2>3 DEF Kept, Ready
    <3> HIDE DEF base, a
    <3> QED BY <1>1, <1>7, <1>8, <2>3, <3>1, <3>2 DEF CallInv
  <2> QED BY <2>1, <2>2, <2>3
<1>10. Monotone(rl, l)
  BY <1>2, <1>4
<1> HIDE DEF a
<1> QED BY <1>3, <1>9, <1>10, BecomesKeeps DEF State

(* The read of SSL_shutdown, once the write channel is closed. *)
LEMMA ShutdownReadKeeps ==
    ASSUME NEW s, NEW base \in Nat, CallOK(s, base), s.rl.write_closed,
           base = s.app.acked + s.app.wnum, s.app.call \in {"none", "shutdown"}
    PROVE  LET t == ShutdownRead(s)
           IN  CallInv(t.rl, t.rd, t.app) /\ Monotone(s.rl, t.rl)
<1> DEFINE t == tls13_record_layer_read(s, Len(s.rd.rcontent.data) + 512, FALSE)
           ret == IF "received" \in t.app.shutdown THEN "SUCCESS" ELSE "AGAIN"
           u == Returns(t, ret)
           x == ShutdownRead(s)
           goes == [t.app EXCEPT !.call = "shutdown"]
           ends == [u.app EXCEPT !.call = "none"]
<1> SUFFICES CallInv(x.rl, x.rd, x.app) /\ Monotone(s.rl, x.rl)
  OBVIOUS
<1>1. Placed(s.rl)
  BY DEF Placed
<1>2. ReadStep(s, t, base)
  BY <1>1, ReadLayerStep
<1>3. IF Loops(t) THEN x = State(t.rl, t.rd, goes) ELSE x = State(u.rl, u.rd, ends)
  BY DEF ShutdownRead, ShutdownReturn, SetCall
<1> HIDE DEF t, x
<1>4. t.rl.write_closed /\ Placed(t.rl) /\ CallOK(t, base)
  BY <1>2 DEF ReadStep, Monotone, Placed
<1>5. ret \in Ret
  BY DEF Ret
<1> HIDE DEF ret
<1>6. ReadStep(t, u, base)
  BY <1>4, <1>5, ReturnsStep
<1> HIDE DEF u
<1>7. ReadStep(s, u, base)
  BY <1>2, <1>6, ReadStepTransitive
<1>8. AppOK(goes) /\ goes.acked + goes.wnum = base /\ goes.call = "shutdown"
  BY <1>2 DEF ReadStep, CallOK, AppOK, SameWriter
<1>9. AppOK(ends) /\ ends.acked + ends.wnum = base /\ ends.call = "none"
  BY <1>7 DEF ReadStep, CallOK, AppOK, SameWriter
<1> HIDE DEF goes, ends
<1>10. CASE Loops(t)
  <2>1. x.rl = t.rl /\ x.rd = t.rd /\ x.app = goes
    BY <1>3, <1>10 DEF State
  <2>2. CallInv(t.rl, t.rd, goes)
    BY <1>4, <1>8, <1>10 DEF CallInv, CallOK, Loops, Closing
  <2> QED BY <1>2, <2>1, <2>2 DEF ReadStep
<1>11. CASE ~Loops(t)
  <2>1. x.rl = u.rl /\ x.rd = u.rd /\ x.app = ends
    BY <1>3, <1>11 DEF State
  <2>2. u.rl.write_closed
    BY <1>7 DEF ReadStep, Monotone
  <2>3. CallInv(u.rl, u.rd, ends)
    BY <1>7, <1>9, <2>2 DEF CallInv, ReadStep, CallOK, Closing
  <2> QED BY <1>7, <2>1, <2>3 DEF ReadStep
<1> QED BY <1>10, <1>11

(* SSL_shutdown, first call or later, preserves the invariant and writes    *)
(* nothing after the close.                                                 *)
LEMMA ShutdownKeeps ==
    ASSUME NEW room \in 0 .. RoomBound, Inv, SSL_shutdown(room)
    PROVE  Inv' /\ ClosedStep
<1> DEFINE base == app.acked + app.wnum
           s == Current(room)
           first == "sent" \notin s.app.shutdown
           b == [s.app EXCEPT !.shutdown = @ \cup {"sent"}]
           alerted == State(tls13_send_alert(s.rl, TLS13_ALERT_CLOSE_NOTIFY), s.rd, b)
           pending == State(tls13_record_layer_send_pending(s.rl), s.rd, s.app)
           tried == IF first THEN alerted ELSE pending
           t == tls13_legacy_shutdown(s)
<1>1. base \in Nat
  BY WriteLenAssumption DEF Inv, CallInv, AppOK
<1>2. Becomes(t) /\ app.call = "none" /\ rl.ret # "FAILURE"
  BY DEF SSL_shutdown, Idle, Fatal
<1>3. /\ CallOK(s, base) /\ Placed(s.rl) /\ s.app = app
      /\ \A q : Monotone(s.rl, q) => Monotone(rl, q)
      /\ SamePending(rl, s.rl)
  BY <1>2, CurrentReady
<1> HIDE DEF s
<1>4. \/ t = tried
      \/ tried.rl.ret = "EOF" /\ t = Returns(tried, "AGAIN")
      \/ ~first /\ tried.rl.ret = "SUCCESS" /\ t = ShutdownRead(tried)
  BY DEF tls13_legacy_shutdown
<1> HIDE DEF t
<1>5. /\ CallOK(tried, base) /\ Monotone(s.rl, tried.rl)
      /\ tried.app.call = "none" /\ tried.app.acked + tried.app.wnum = base
      /\ "sent" \in tried.app.shutdown => Closing(tried.rl)
      /\ ~first /\ tried.rl.ret = "SUCCESS" => tried.rl.write_closed
  <2>1. CASE first
    <3> DEFINE q == tls13_send_alert(s.rl, TLS13_ALERT_CLOSE_NOTIFY)
    <3>1. Kept(q, base) /\ Monotone(s.rl, q) /\ Closing(q)
      BY <1>1, <1>3, SendAlertKeeps DEF CallOK, TLS13_ALERT_CLOSE_NOTIFY, NoAlert
    <3>2. tried = State(q, s.rd, b)
      BY <2>1
    <3>3. AppOK(b) /\ b.call = "none" /\ b.acked + b.wnum = base
      BY <1>2, <1>3 DEF CallOK, AppOK
    <3> HIDE DEF tried, q, b
    <3> QED BY <1>3, <2>1, <3>1, <3>2, <3>3 DEF CallOK, State
  <2>2. CASE ~first
    <3> DEFINE q == tls13_record_layer_send_pending(s.rl)
    <3>1. PendingSent(s.rl, q, base)
      BY <1>1, <1>3, SendPending DEF CallOK, Kept, Ready
    <3>2. tried = State(q, s.rd, s.app)
      BY <2>2
    <3>3. Closing(s.rl)
      BY <1>3, <2>2 DEF Inv, CallInv, Closing, SamePending
    <3> HIDE DEF tried, q
    <3> QED BY <1>2, <1>3, <3>1, <3>2, <3>3 DEF CallOK, State, PendingSent, Monotone
  <2> QED BY <2>1, <2>2
<1> HIDE DEF tried, first
<1>6. CallInv(t.rl, t.rd, t.app) /\ Monotone(s.rl, t.rl)
  <2>1. CASE t = tried
    BY <1>5, <2>1 DEF CallInv, CallOK
  <2>2. CASE tried.rl.ret = "EOF" /\ t = Returns(tried, "AGAIN")
    <3>1. Placed(tried.rl)
      BY <1>5, <2>2 DEF CallOK, Kept
    <3>2. ReadStep(tried, t, base)
      BY <1>1, <1>5, <2>2, <3>1, ReturnsStep DEF Ret
    <3> QED BY <1>5, <3>2 DEF ReadStep, CallOK, CallInv, SameWriter, Monotone
  <2>3. CASE ~first /\ tried.rl.ret = "SUCCESS" /\ t = ShutdownRead(tried)
    <3>1. CallInv(t.rl, t.rd, t.app) /\ Monotone(tried.rl, t.rl)
      BY <1>1, <1>5, <2>3, ShutdownReadKeeps
    <3> QED BY <1>5, <3>1 DEF Monotone
  <2> QED BY <1>4, <2>1, <2>2, <2>3
<1>7. Monotone(rl, t.rl)
  BY <1>3, <1>6
<1> QED BY <1>2, <1>6, <1>7, BecomesKeeps

(* So does the next iteration of a call in progress.                        *)
LEMMA ContinueKeeps ==
    ASSUME NEW room \in 0 .. RoomBound, Inv, Continue(room)
    PROVE  Inv' /\ ClosedStep
<1>1. rl.ret # "FAILURE"
  BY DEF Continue, Inv, CallInv
<1>2. ASSUME NEW n \in 1 .. 2, app.call \in {"read", "peek"}, Read(app.call, n, room)
      PROVE  Inv' /\ ClosedStep
  BY <1>1, <1>2, ReadKeeps
<1>3. CASE app.call = "write" /\ Write(room)
  BY <1>1, <1>3, WriteStepKeeps
<1>4. CASE app.call = "shutdown" /\ Becomes(ShutdownRead(Current(room)))
  <2> DEFINE base == app.acked + app.wnum
             s == Current(room)
             t == ShutdownRead(s)
  <2>1. base \in Nat
    BY WriteLenAssumption DEF Inv, CallInv, AppOK
  <2>2. /\ CallOK(s, base) /\ s.app = app /\ SamePending(rl, s.rl)
        /\ \A q : Monotone(s.rl, q) => Monotone(rl, q)
    BY <1>1, CurrentReady
  <2> HIDE DEF s
  <2>3. s.rl.write_closed
    BY <1>4, <2>2 DEF Inv, CallInv, SamePending
  <2>4. CallInv(t.rl, t.rd, t.app) /\ Monotone(s.rl, t.rl)
    BY <1>4, <2>1, <2>2, <2>3, ShutdownReadKeeps
  <2>5. Becomes(t)
    BY <1>4 DEF s
  <2> HIDE DEF t
  <2> QED BY <2>2, <2>4, <2>5, BecomesKeeps
<1> QED BY <1>2, <1>3, <1>4 DEF Continue

(* Every step of the connection preserves the invariant, and none writes    *)
(* once the write channel is closed.                                        *)
LEMMA NextInv ==
    ASSUME Inv, [Next]_vars
    PROVE  Inv' /\ (Next => ClosedStep)
<1>1. ASSUME NEW room \in 0 .. RoomBound, Call(room)
      PROVE  Inv' /\ ClosedStep
  <2>1. ASSUME NEW call \in {"read", "peek"}, NEW n \in 1 .. 2, SSL_read(call, n, room)
        PROVE  Inv' /\ ClosedStep
    BY <1>1, <2>1, ReadKeeps DEF SSL_read, Idle, Fatal
  <2>2. CASE SSL_write(room)
    BY <1>1, <2>2, WriteStepKeeps DEF SSL_write, Idle, Fatal
  <2>3. CASE SSL_shutdown(room)
    BY <1>1, <2>3, ShutdownKeeps
  <2>4. CASE Continue(room)
    BY <1>1, <2>4, ContinueKeeps
  <2> QED BY <1>1, <2>1, <2>2, <2>3, <2>4 DEF Call
<1>2. ASSUME rl' = rl, app' = app, RdOK(rd')
      PROVE  Inv' /\ ClosedStep
  BY <1>2 DEF Inv, CallInv, ClosedStep
<1>3. ASSUME NEW kind \in Traffic, PeerSend(kind)
      PROVE  Inv' /\ ClosedStep
  <2>1. rd' = [rd EXCEPT !.rbio = Append(@, PeerRecord(kind))] /\ rl' = rl /\ app' = app
    BY <1>3 DEF PeerSend
  <2>2. RdOK(rd')
    BY <2>1 DEF Inv, CallInv, RdOK
  <2> QED BY <1>2, <2>1, <2>2
<1>4. CASE HalfHourPasses
  <2>1. RdOK(rd')
    BY <1>4 DEF HalfHourPasses, Inv, CallInv, RdOK
  <2> QED BY <1>2, <1>4, <2>1 DEF HalfHourPasses
<1>5. CASE UNCHANGED vars
  <2>1. RdOK(rd')
    BY <1>5 DEF vars, Inv, CallInv
  <2> QED BY <1>2, <1>5, <2>1 DEF vars
<1> QED BY <1>1, <1>3, <1>4, <1>5 DEF Next, Stopped

(* The inductive invariant holds of every behaviour of the record layer,    *)
(* for any bounds and any traffic of the peer.                              *)
THEOREM Invariance == Spec => []Inv
<1>1. Inv /\ [Next]_vars => Inv'
  BY NextInv
<1> QED BY <1>1, InitInv, PTL DEF Spec

(* The state of the record layer keeps its type: in particular neither      *)
(* sequence number goes beyond the largest, where it would start again at 0 *)
(* and reuse a nonce.                                                       *)
THEOREM TypeCorrect == Spec => []TypeOK
<1>1. Inv => TypeOK
  <2> SUFFICES ASSUME Inv PROVE TypeOK
    OBVIOUS
  <2>1. rl \in RL /\ rl.room = 0
    BY DEF Inv, CallInv, Kept, Good
  <2> QED BY <2>1 DEF Inv, CallInv, RdOK, AppOK, TypeOK, RL
<1> QED BY <1>1, Invariance, PTL

(* The peer can open everything that tls13_record_layer_write_record put on *)
(* the wire, in the order it was put there, across every blocked write,     *)
(* KeyUpdate reply and alert.                                               *)
THEOREM WireIsInOrder == Spec => []WireInOrder
<1>1. Inv => WireInOrder
  BY DEF Inv, CallInv, Kept, Good, WireInOrder
<1> QED BY <1>1, Invariance, PTL

(* Application data goes on the wire exactly once and in order, and is      *)
(* acknowledged to the application exactly when it is there, also when an   *)
(* alert or a KeyUpdate reply pushed it out.                                *)
THEOREM DataIsWrittenOnce == Spec => []DataExactlyOnce
<1>1. Inv => DataExactlyOnce
  BY DEF Inv, CallInv, Kept, Good, DataExactlyOnce
<1> QED BY <1>1, Invariance, PTL

(* After the write channel is closed nothing is written, whatever is        *)
(* pending and whatever the application calls.                              *)
THEOREM NothingAfterClose == Spec => ClosedIsFinal
<1>1. Inv /\ [Next]_vars =>
          [rl.write_closed => rl'.write_closed /\ rl'.wbio = rl.wbio]_vars
  BY NextInv DEF ClosedStep
<1> QED BY <1>1, Invariance, PTL DEF Spec, ClosedIsFinal

-----------------------------------------------------------------------------
(***************************************************************************)
(* What an endpoint reads: no request for a key update goes unanswered, no *)
(* call fails without a reason, and application data is read in order.     *)
(*                                                                         *)
(* None of the three properties is inductive.  Owed counts also the request*)
(* in a record that was opened and is being handled.  Conforming says how  *)
(* the records of a conforming peer continue one another and what the      *)
(* endpoint has read, which alerts may be pending and why, and what may be *)
(* left in wrec.  A KeyUpdate that was cleared with the ticket in front of *)
(* it is the exception to the first two: no request is counted as answered *)
(* that was not, and the endpoint stays one key behind its peer.           *)
(***************************************************************************)

(* An error alert is pending. *)
Err(r) == r.alert_data \notin {NoAlert, TLS13_ALERT_CLOSE_NOTIFY}

(* The key updates that were done or promised. *)
Tally(r) == r.gen + (IF r.phh_data THEN 1 ELSE 0)

-----------------------------------------------------------------------------
(* The records of the peer. *)

Messages == {Handshakes[kind] : kind \in DOMAIN Handshakes}

Bodies == {Alerts[kind] : kind \in DOMAIN Alerts}

(* What the peer sends, malformed records included. *)
Wire ==
    [ct : {"app"}, gen : Nat, seq : Nat, body : Seq(Nat)]
    \cup [ct : {"handshake"}, gen : Nat, seq : Nat, body : Messages]
    \cup [ct : {"alert"}, gen : Nat, seq : Nat, body : Bodies]
    \cup [ct : {"overflow", "unexpected"}, gen : Nat, seq : Nat, body : {<< >>}]

(* What is put into the content is application data, of which some may be   *)
(* left for the next call.                                                  *)
ContentOK(c) ==
    /\ DOMAIN c = {"ct", "data"}
    /\ c.data # << >> => c.ct = "app"
    /\ c.ct = "app" => c.data \in Seq(Nat)

Requests(q) == {i \in 1 .. Len(q) : IsRequest(q[i])}

(* The requests that are unread or were thrown away. *)
Open(d) == Cardinality(Requests(d.rbio)) + d.lost_requests

(* The key updates asked for are done, pending, unread or thrown away,      *)
(* unless the write channel is closed or will be.                           *)
Answered(l, d) == l.write_closed \/ Err(l) \/ peer.requests = Tally(l) + Open(d)

PeerOK ==
    /\ DOMAIN peer = {"gen", "seq", "units", "partial", "open", "faulty", "sent", "requests"}
    /\ peer.gen \in Nat /\ peer.seq \in Nat /\ peer.units \in Nat /\ peer.requests \in Nat
    /\ peer.faulty \in BOOLEAN
    /\ peer.partial \in {"none", "request_first", "ticket_first"}
    /\ peer.faulty => ~peer.open

ReadInv ==
    /\ PeerOK
    /\ rd.rbio \in Seq(Wire)
    /\ ContentOK(rd.rcontent)
    /\ rl.ret \in Fatal \/ Answered(rl, rd)

-----------------------------------------------------------------------------
(* A conforming peer. *)

(* The record completes a KeyUpdate, begins a message, or ends one. *)
Updates(rec) == Carries(rec.ct, rec.body, KeyUpdates)

Opens(rec) == rec.ct = "handshake" /\ rec.body[1].part = "first"

Closes(rec) == rec.ct = "handshake" /\ rec.body[1].part = "last"

(* A conforming peer sends nothing else, and nothing after a closing alert. *)
Regular(rec, open) ==
    \/ rec.ct = "app"
    \/ rec.ct = "handshake" /\ rec.body[1].msg \notin {"key_update_illegal", "certificate_request"}
    \/ rec.ct = "alert" /\ \/ rec.body[2] = TLS13_ALERT_USER_CANCELED
                           \/ rec.body[2] = TLS13_ALERT_CLOSE_NOTIFY
                           \/ rec.body[1] = "fatal" /\ ~open

(* The record is the one with number seq under key gen, in the middle of a  *)
(* message or not.                                                          *)
At(rec, gen, seq, middle) == rec.gen = gen /\ rec.seq = seq /\ (Closes(rec) <=> middle)

NextGen(rec) == IF Updates(rec) THEN rec.gen + 1 ELSE rec.gen

NextSeq(rec) == IF Updates(rec) THEN 0 ELSE rec.seq + 1

(* The records q come one after the other and end where the peer is. *)
Chained(q) ==
    /\ \A i \in 1 .. Len(q) : Regular(q[i], peer.open)
    /\ \A i \in 1 .. Len(q) - 1 : At(q[i + 1], NextGen(q[i]), NextSeq(q[i]), Opens(q[i]))
    /\ Len(q) # 0 =>
          /\ peer.gen = NextGen(q[Len(q)]) /\ peer.seq = NextSeq(q[Len(q)])
          /\ peer.partial # "none" <=> Opens(q[Len(q)])

(* The records q begin at this place, or the peer is there. *)
Begin(q, gen, seq, middle) ==
    IF Len(q) # 0 THEN At(q[1], gen, seq, middle)
    ELSE gen = peer.gen /\ seq = peer.seq /\ (peer.partial # "none" <=> middle)

(* What the endpoint has read ends where they begin, or one key before if a *)
(* KeyUpdate was thrown away.                                               *)
Synced(d) ==
    IF d.lost_update THEN Begin(d.rbio, d.gen + 1, 0, FALSE)
    ELSE Begin(d.rbio, d.gen, d.seq, d.hs_msg)

(* What may be left of a call that blocked or failed. *)
Left(r, sent) ==
    /\ r.wrec.ct = "alert" => r.alert_data # NoAlert
    /\ r.wrec.ct = "empty" => r.seq = MaxSeq
    /\ Err(r) => ~r.phh_data \/ r.write_closed \/ sent
    /\ r.alert_data = TLS13_ALERT_CLOSE_NOTIFY => sent /\ ~r.write_closed

Sent(a) == "sent" \in a.shutdown

Reason(d) == ~peer.open \/ d.phh_count > PhhLimit

(* The units of application data in part k of what is unread: the content  *)
(* (0) and the records in the BIO.                                          *)
Part(d, k) ==
    IF k = 0 THEN IF d.rcontent.ct = "app" THEN d.rcontent.data ELSE << >>
    ELSE IF d.rbio[k].ct = "app" THEN d.rbio[k].body ELSE << >>

Parts(d) == [k \in 0 .. Len(d.rbio) |-> Part(d, k)]

(* The units in parts 0 .. m of U are those after lo up to hi, in order and *)
(* without gaps.                                                            *)
Runs(U, m, lo, hi) ==
    /\ lo \in Nat /\ lo <= hi
    /\ \A k \in 0 .. m : U[k] \in Seq(Nat)
    /\ \A k \in 0 .. m : \A i \in 1 .. Len(U[k]) :
          U[k][i] \in lo + 1 .. hi /\ U[k][i] = U[k][1] + i - 1
    /\ \A u \in lo + 1 .. hi : \E k \in 0 .. m : \E i \in 1 .. Len(U[k]) : U[k][i] = u
    /\ \A k, l \in 0 .. m : \A i \in 1 .. Len(U[k]), j \in 1 .. Len(U[l]) :
          k < l => U[k][i] < U[l][j]

Stream(d, consumed) == Runs(Parts(d), Len(d.rbio), consumed, peer.units)

(* The part of the invariant that does not speak of what a call returns. *)
Base(l, d, a) ==
    /\ Chained(d.rbio)
    /\ Synced(d) \/ Err(l) \/ l.read_closed
    /\ d.alert = 0
    /\ d.phh_count \in Nat
    /\ Err(l) => Reason(d)
    /\ Left(l, Sent(a))
    /\ Stream(d, a.consumed)

(* While a message is incomplete there is no content. *)
Tidy(d) == (d.phh => d.hs_msg) /\ (d.hs_msg => d.rcontent.data = << >>)

(* Why it returned what it did. *)
Explained(l, d, a) ==
    /\ l.ret = "NESTED" => d.hs_msg
    /\ l.ret = "FAILURE" => l.seq = MaxSeq \/ d.seq = MaxSeq \/ Sent(a) \/ d.lost_update
    /\ l.ret = "ALERT" => Reason(d)
    /\ l.write_closed => Sent(a) \/ l.ret \in Fatal

Conforms(s) == Base(s.rl, s.rd, s.app) /\ Tidy(s.rd) /\ Explained(s.rl, s.rd, s.app)

Conforming == ~peer.faulty => Conforms(State(rl, rd, app))

-----------------------------------------------------------------------------
(* Messages, records and their number. *)

(* What a message or fragment alone in its record carries. *)
LEMMA FragmentFacts ==
    ASSUME NEW msg, NEW part
    PROVE  LET m == Fragment(msg, part)
           IN  /\ m # << >> /\ Head(m) = m[1] /\ m[1] = [msg |-> msg, part |-> part]
               /\ Tail(m) = << >>
               /\ \A msgs : Carries("handshake", m, msgs) <=> msg \in msgs /\ part # "first"
<1> DEFINE m == Fragment(msg, part)
<1>1. /\ m # << >> /\ Head(m) = m[1] /\ m[1] = [msg |-> msg, part |-> part]
      /\ DOMAIN m = {1} /\ Tail(m) = << >>
  BY DEF Fragment
<1> HIDE DEF m
<1>2. ASSUME NEW msgs PROVE Carries("handshake", m, msgs) <=> msg \in msgs /\ part # "first"
  <2>1. m[1].msg = msg /\ m[1].part = part
    BY <1>1
  <2> QED BY <1>1, <2>1 DEF Carries
<1> QED BY <1>1, <1>2 DEF m

(* The same for a record with two messages. *)
LEMMA PairFacts ==
    ASSUME NEW a, NEW b
    PROVE  LET m == Whole(a) \o Whole(b)
           IN  /\ m # << >> /\ Head(m) = m[1] /\ m[1] = [msg |-> a, part |-> "whole"]
               /\ Tail(m) = Whole(b)
               /\ \A msgs : Carries("handshake", m, msgs) <=> a \in msgs \/ b \in msgs
<1> DEFINE x == [msg |-> a, part |-> "whole"]
           y == [msg |-> b, part |-> "whole"]
           s == <<x>>
           t == <<y>>
           m == s \o t
<1>1. Whole(a) = s /\ Whole(b) = t
  BY DEF Whole
<1>2. s \in Seq({x, y}) /\ Len(s) = 1 /\ s[1] = x /\ t \in Seq({x, y}) /\ Len(t) = 1 /\ t[1] = y
  OBVIOUS
<1>3. x.msg = a /\ x.part = "whole" /\ y.msg = b /\ y.part = "whole"
  OBVIOUS
<1> HIDE DEF s, t, x, y
<1>4. m \in Seq({x, y}) /\ Len(m) = 2 /\ m[1] = x /\ m[2] = y
  <2>1. /\ s \o t \in Seq({x, y}) /\ Len(s \o t) = Len(s) + Len(t)
        /\ \A i \in 1 .. Len(s) + Len(t) :
              (s \o t)[i] = IF i <= Len(s) THEN s[i] ELSE t[i - Len(s)]
    BY <1>2, ConcatProperties
  <2> QED BY <1>2, <2>1
<1> HIDE DEF m
<1>5. DOMAIN m = 1 .. 2 /\ Head(m) = m[1] /\ m # << >>
  BY <1>4
<1>6. Tail(m) = t
  <2>1. Tail(m) \in Seq({x, y}) /\ Len(Tail(m)) = 1 /\ Tail(m)[1] = y
    BY <1>4, <1>5
  <2> DEFINE u == Tail(m)
  <2>2. u \in Seq({x, y}) /\ Len(u) = 1 /\ u[1] = y
    BY <2>1
  <2> HIDE DEF u
  <2>3. Len(u) = Len(t) /\ \A i \in 1 .. Len(u) : u[i] = t[i]
    <3>1. \A i \in 1 .. Len(u) : i = 1
      BY <2>2
    <3> QED BY <1>2, <2>2, <3>1
  <2>4. u = t
    BY <1>2, <2>2, <2>3, SeqEqual
  <2> QED BY <2>4 DEF u
<1>7. ASSUME NEW msgs
      PROVE  Carries("handshake", m, msgs) <=> a \in msgs \/ b \in msgs
  <2>1. \A j : j \in DOMAIN m <=> j = 1 \/ j = 2
    BY <1>5
  <2> QED BY <1>3, <1>4, <2>1 DEF Carries
<1> QED BY <1>1, <1>4, <1>5, <1>6, <1>7 DEF m, x

(* The handshake records of the peer by kind. *)
LEMMA HandshakeKinds ==
    /\ DOMAIN Handshakes = {"update", "update_request", "ticket", "bad_update", "bad_type",
           "two_tickets", "ticket_update", "ticket_request", "request_first", "request_last",
           "ticket_first", "ticket_last"}
    /\ Handshakes["update"] = Fragment("key_update_not_requested", "whole")
    /\ Handshakes["update_request"] = Fragment("key_update_requested", "whole")
    /\ Handshakes["ticket"] = Fragment("new_session_ticket", "whole")
    /\ Handshakes["bad_update"] = Fragment("key_update_illegal", "whole")
    /\ Handshakes["bad_type"] = Fragment("certificate_request", "whole")
    /\ Handshakes["two_tickets"] = Whole("new_session_ticket") \o Whole("new_session_ticket")
    /\ Handshakes["ticket_update"] =
          Whole("new_session_ticket") \o Whole("key_update_not_requested")
    /\ Handshakes["ticket_request"] =
          Whole("new_session_ticket") \o Whole("key_update_requested")
    /\ Handshakes["request_first"] = Fragment("key_update_requested", "first")
    /\ Handshakes["request_last"] = Fragment("key_update_requested", "last")
    /\ Handshakes["ticket_first"] = Fragment("new_session_ticket", "first")
    /\ Handshakes["ticket_last"] = Fragment("new_session_ticket", "last")
<1>1. \A msg : Whole(msg) = Fragment(msg, "whole")
  BY DEF Whole, Fragment
<1> DEFINE w(b) == Whole("new_session_ticket") \o Whole(b)
<1>2. /\ Handshakes["two_tickets"] = w("new_session_ticket")
      /\ Handshakes["ticket_update"] = w("key_update_not_requested")
      /\ Handshakes["ticket_request"] = w("key_update_requested")
  BY DEF Handshakes
<1>3. DOMAIN Handshakes = {"update", "update_request", "ticket", "bad_update", "bad_type",
           "two_tickets", "ticket_update", "ticket_request", "request_first", "request_last",
           "ticket_first", "ticket_last"}
  BY DEF Handshakes
<1>4. /\ Handshakes["update"] = Whole("key_update_not_requested")
      /\ Handshakes["update_request"] = Whole("key_update_requested")
      /\ Handshakes["ticket"] = Whole("new_session_ticket")
      /\ Handshakes["bad_update"] = Whole("key_update_illegal")
      /\ Handshakes["bad_type"] = Whole("certificate_request")
      /\ Handshakes["request_first"] = Fragment("key_update_requested", "first")
      /\ Handshakes["request_last"] = Fragment("key_update_requested", "last")
      /\ Handshakes["ticket_first"] = Fragment("new_session_ticket", "first")
      /\ Handshakes["ticket_last"] = Fragment("new_session_ticket", "last")
  BY DEF Handshakes
<1> QED BY <1>1, <1>2, <1>3, <1>4

(* What a handshake record of the peer holds: one message or fragment, or a *)
(* ticket and a whole message behind it.                                    *)
LEMMA MessageForms ==
    ASSUME NEW m \in Messages
    PROVE  \/ \E msg, part : m = Fragment(msg, part) /\ part \in {"whole", "first", "last"}
           \/ \E msg : m = Whole("new_session_ticket") \o Whole(msg)
<1>1. PICK kind \in DOMAIN Handshakes : m = Handshakes[kind]
  BY DEF Messages
<1> QED BY <1>1, HandshakeKinds

(* A KeyUpdate is the last message of its record, and what a record carries *)
(* is in its first message or behind it.                                    *)
LEMMA MessageFacts ==
    ASSUME NEW m \in Messages
    PROVE  /\ m # << >> /\ Head(m) = m[1]
           /\ m[1].part \in {"whole", "first", "last"}
           /\ m[1].part = "first" \/ m[1].msg \in KeyUpdates => Tail(m) = << >>
           /\ \A msgs : Carries("handshake", m, msgs) <=>
                 \/ m[1].msg \in msgs /\ m[1].part # "first"
                 \/ Carries("handshake", Tail(m), msgs)
<1>1. \A msgs : ~Carries("handshake", << >>, msgs)
  BY DEF Carries
<1>2. ASSUME NEW msg, NEW part, m = Fragment(msg, part), part \in {"whole", "first", "last"}
      PROVE  /\ m # << >> /\ Head(m) = m[1] /\ m[1].msg = msg /\ m[1].part = part
             /\ Tail(m) = << >>
             /\ \A msgs : Carries("handshake", m, msgs) <=> msg \in msgs /\ part # "first"
  <2>1. /\ m # << >> /\ Head(m) = m[1] /\ m[1] = [msg |-> msg, part |-> part]
        /\ Tail(m) = << >>
        /\ \A msgs : Carries("handshake", m, msgs) <=> msg \in msgs /\ part # "first"
    BY <1>2, FragmentFacts
  <2>2. m[1].msg = msg /\ m[1].part = part
    BY <2>1
  <2> QED BY <2>1, <2>2
<1>3. ASSUME NEW msg, m = Whole("new_session_ticket") \o Whole(msg)
      PROVE  /\ m # << >> /\ Head(m) = m[1]
             /\ m[1].msg = "new_session_ticket" /\ m[1].part = "whole"
             /\ \A msgs : Carries("handshake", m, msgs) <=>
                   "new_session_ticket" \in msgs \/ msg \in msgs
             /\ \A msgs : Carries("handshake", Tail(m), msgs) <=> msg \in msgs
  <2>1. /\ m # << >> /\ Head(m) = m[1]
        /\ m[1] = [msg |-> "new_session_ticket", part |-> "whole"] /\ Tail(m) = Whole(msg)
        /\ \A msgs : Carries("handshake", m, msgs) <=>
              "new_session_ticket" \in msgs \/ msg \in msgs
    BY <1>3, PairFacts
  <2>2. m[1].msg = "new_session_ticket" /\ m[1].part = "whole"
    BY <2>1
  <2>3. Whole(msg) = Fragment(msg, "whole")
    BY DEF Whole, Fragment
  <2>4. \A msgs : Carries("handshake", Fragment(msg, "whole"), msgs) <=>
            msg \in msgs /\ "whole" # "first"
    BY FragmentFacts
  <2>5. \A msgs : Carries("handshake", Tail(m), msgs) <=> msg \in msgs
    BY <2>1, <2>3, <2>4
  <2> QED BY <2>1, <2>2, <2>5
<1>4. CASE \E msg, part : m = Fragment(msg, part) /\ part \in {"whole", "first", "last"}
  <2>1. PICK msg, part : m = Fragment(msg, part) /\ part \in {"whole", "first", "last"}
    BY <1>4
  <2> QED BY <1>1, <1>2, <2>1
<1>5. CASE \E msg : m = Whole("new_session_ticket") \o Whole(msg)
  <2>1. PICK msg : m = Whole("new_session_ticket") \o Whole(msg)
    BY <1>5
  <2>2. m[1].msg \notin KeyUpdates /\ m[1].part = "whole"
    BY <1>3, <2>1 DEF KeyUpdates
  <2> QED BY <1>3, <2>1, <2>2
<1> QED BY <1>4, <1>5, MessageForms

(* The fields of a record of the peer. *)
LEMMA WireFacts ==
    ASSUME NEW rec \in Wire
    PROVE  /\ rec.gen \in Nat /\ rec.seq \in Nat
           /\ rec.ct \in {"app", "handshake", "alert", "overflow", "unexpected"}
           /\ rec.ct = "app" => rec.body \in Seq(Nat)
           /\ rec.ct = "handshake" => rec.body \in Messages
           /\ rec.ct = "alert" => rec.body \in Bodies
           /\ rec.ct \in {"overflow", "unexpected"} => rec.body = << >>
BY DEF Wire

(* The requests in the read BIO are finitely many. *)
LEMMA RequestsFinite ==
    ASSUME NEW q \in Seq(Wire)
    PROVE  IsFiniteSet(Requests(q)) /\ Cardinality(Requests(q)) \in Nat
<1>1. Len(q) \in Nat
  OBVIOUS
<1>2. IsFiniteSet(1 .. Len(q))
  BY <1>1, FS_Interval
<1>3. IsFiniteSet(Requests(q))
  BY <1>2, FS_Subset DEF Requests
<1> QED BY <1>3, FS_CardinalityType

(* Taking a record from the BIO takes its request. *)
LEMMA TailRequests ==
    ASSUME NEW q \in Seq(Wire), q # << >>
    PROVE  Cardinality(Requests(q)) =
               Cardinality(Requests(Tail(q))) + (IF IsRequest(q[1]) THEN 1 ELSE 0)
<1> DEFINE t == Tail(q)
           S == Requests(t)
           T == Requests(q) \ {1}
<1>1. Len(q) \in Nat \ {0} /\ Len(t) = Len(q) - 1 /\ t \in Seq(Wire)
      /\ \A i \in 1 .. Len(t) : t[i] = q[i + 1]
  OBVIOUS
<1> HIDE DEF t
<1>2. \A i : i \in S <=> i \in Nat \ {0} /\ i + 1 \in T
  BY <1>1 DEF Requests
<1>3. S \subseteq Nat \ {0} /\ T \subseteq Nat /\ \A j \in T : j - 1 \in S
  BY <1>1, <1>2 DEF Requests
<1> HIDE DEF S, T
<1>4. ExistsBijection(S, T)
  <2> DEFINE f == [i \in S |-> i + 1]
  <2>1. f \in [S -> T]
    BY <1>2
  <2>2. \A a, b \in S : f[a] = f[b] => a = b
    BY <1>3
  <2>3. \A j \in T : \E i \in S : f[i] = j
    <3> SUFFICES ASSUME NEW j \in T PROVE f[j - 1] = j /\ j - 1 \in S
      OBVIOUS
    <3> QED BY <1>3
  <2> HIDE DEF f
  <2>4. f \in Bijection(S, T)
    BY <2>1, <2>2, <2>3, Fun_IsBij
  <2> QED BY <2>4 DEF ExistsBijection
<1>5. IsFiniteSet(S) /\ IsFiniteSet(Requests(q))
  BY <1>1, RequestsFinite DEF S
<1>6. Cardinality(T) = Cardinality(S) /\ Cardinality(S) \in Nat
  BY <1>4, <1>5, FS_Bijection, FS_CardinalityType
<1>7. 1 \in Requests(q) <=> IsRequest(q[1])
  BY <1>1 DEF Requests
<1>8. CASE 1 \in Requests(q)
  <2>1. Cardinality(T) = Cardinality(Requests(q)) - 1
    BY <1>5, <1>8, FS_RemoveElement DEF T
  <2>2. Cardinality(Requests(q)) \in Nat
    BY RequestsFinite
  <2> QED BY <1>6, <1>7, <1>8, <2>1, <2>2 DEF S, t
<1>9. CASE 1 \notin Requests(q)
  <2>1. T = Requests(q)
    BY <1>9 DEF T
  <2> QED BY <1>6, <1>7, <1>9, <2>1 DEF S, t
<1> QED BY <1>8, <1>9

(* A record of the peer adds its request. *)
LEMMA AppendRequests ==
    ASSUME NEW q \in Seq(Wire), NEW rec \in Wire
    PROVE  Cardinality(Requests(Append(q, rec))) =
               Cardinality(Requests(q)) + (IF IsRequest(rec) THEN 1 ELSE 0)
<1> DEFINE t == Append(q, rec)
<1>1. Len(q) \in Nat /\ Len(t) = Len(q) + 1 /\ t[Len(q) + 1] = rec
      /\ \A i \in 1 .. Len(q) : t[i] = q[i]
  OBVIOUS
<1> HIDE DEF t
<1>2. IsFiniteSet(Requests(q)) /\ Cardinality(Requests(q)) \in Nat /\ Len(q) + 1 \notin Requests(q)
  BY <1>1, RequestsFinite DEF Requests
<1>3. CASE IsRequest(rec)
  <2>1. Requests(t) = Requests(q) \cup {Len(q) + 1}
    <3>1. \A i : i \in Requests(t) <=> i \in Requests(q) \/ i = Len(q) + 1
      BY <1>1, <1>3 DEF Requests
    <3> QED BY <3>1
  <2>2. Cardinality(Requests(t)) = Cardinality(Requests(q)) + 1
    BY <1>2, <2>1, FS_AddElement
  <2> QED BY <1>3, <2>2 DEF t
<1>4. CASE ~IsRequest(rec)
  <2>1. Requests(t) = Requests(q)
    <3>1. \A i : i \in Requests(t) <=> i \in Requests(q)
      BY <1>1, <1>4 DEF Requests
    <3> QED BY <3>1
  <2> QED BY <1>2, <1>4, <2>1 DEF t
<1> QED BY <1>3, <1>4

-----------------------------------------------------------------------------
(* Why the write path fails. *)

(* tls13_record_send fails on what a failed seal left behind only. *)
LEMMA SendResult ==
    ASSUME NEW r \in RL
    PROVE  LET q == tls13_record_send(r)
           IN  /\ q.ret \in {"SUCCESS", "WANT_POLLOUT", "FAILURE"}
               /\ q.ret = "FAILURE" <=> r.wrec.ct = "empty"
               /\ q.ret = "SUCCESS" => q.wrec = NoRecord
               /\ q.ret # "SUCCESS" => q.wrec = r.wrec
               /\ q.seq = r.seq
<1> DEFINE q == tls13_record_send(r)
<1>1. CASE r.wrec.ct = "empty" \/ r.room = 0
  <2>1. /\ q = [r EXCEPT !.ret = IF r.wrec.ct = "empty" THEN "FAILURE" ELSE "WANT_POLLOUT"]
    BY <1>1 DEF tls13_record_send, Return
  <2> HIDE DEF q
  <2>2. /\ q.ret = IF r.wrec.ct = "empty" THEN "FAILURE" ELSE "WANT_POLLOUT"
        /\ q.wrec = r.wrec /\ q.seq = r.seq /\ q \in RL
    BY <2>1 DEF RL, Ret
  <2> QED BY <2>2 DEF q
<1>2. CASE ~(r.wrec.ct = "empty" \/ r.room = 0)
  <2>1. q = [r EXCEPT !.wbio = Append(@, r.wrec), !.wrec = NoRecord,
                      !.room = @ - 1, !.ret = "SUCCESS"]
    BY <1>2 DEF tls13_record_send
  <2> HIDE DEF q
  <2>2. q.ret = "SUCCESS" /\ q.wrec = NoRecord /\ q.seq = r.seq
    BY <2>1 DEF RL
  <2> QED BY <1>2, <2>2 DEF q
<1> QED BY <1>1, <1>2

(* Sealing fails when the sequence numbers are exhausted only. *)
LEMMA SealResult ==
    ASSUME NEW r \in RL, NEW ct \in {"app", "handshake", "alert"}, NEW content \in Nat
    PROVE  LET q == SealAndSend(r, ct, content)
           IN  /\ q.ret \in {"SUCCESS", "WANT_POLLOUT", "FAILURE"}
               /\ q.ret = "FAILURE" => q.seq = MaxSeq
               /\ q.ret = "SUCCESS" => q.wrec.ct = "none"
               /\ q.wrec.ct \in {"none", "empty", ct}
               /\ q.wrec.ct = "empty" => q.seq = MaxSeq
<1> DEFINE q == SealAndSend(r, ct, content)
           s == tls13_record_layer_seal_record(r, ct, content)
           rec == [ct |-> ct, gen |-> r.gen, seq |-> r.seq, content |-> content]
<1>1. CASE r.seq = MaxSeq
  <2>1. s = [r EXCEPT !.wrec = EmptyRecord, !.ret = "FAILURE"]
    BY <1>1 DEF tls13_record_layer_seal_record
  <2>2. s.ret = "FAILURE" /\ s.wrec = EmptyRecord /\ s.seq = MaxSeq
    BY <1>1, <2>1 DEF RL
  <2>3. q = s
    BY <2>2 DEF SealAndSend
  <2> HIDE DEF q, s
  <2> QED BY <2>2, <2>3 DEF EmptyRecord, q
<1>2. CASE r.seq # MaxSeq
  <2>1. s = [r EXCEPT !.wrec = rec, !.seq = @ + 1, !.ret = "SUCCESS"]
    BY <1>2 DEF tls13_record_layer_seal_record
  <2>2. rec \in Record /\ r.seq + 1 \in 0 .. MaxSeq /\ rec.ct = ct
    BY <1>2, MaxSeqAssumption DEF RL, Record
  <2> HIDE DEF rec, s
  <2>3. s \in RL /\ s.ret = "SUCCESS" /\ s.wrec = rec
    BY <2>1, <2>2 DEF RL, Ret
  <2>4. q = tls13_record_send(s)
    BY <2>3 DEF SealAndSend, s
  <2>5. /\ q.ret \in {"SUCCESS", "WANT_POLLOUT", "FAILURE"}
        /\ q.ret = "FAILURE" <=> s.wrec.ct = "empty"
        /\ q.ret = "SUCCESS" => q.wrec = NoRecord
        /\ q.ret # "SUCCESS" => q.wrec = s.wrec
    BY <2>3, <2>4, SendResult
  <2> HIDE DEF q
  <2> QED BY <2>2, <2>3, <2>5 DEF NoRecord, q
<1> QED BY <1>1, <1>2

(* tls13_record_layer_write_record fails when the sequence numbers are      *)
(* exhausted, or where a handshake record or an alert was left for another  *)
(* type of record to be written.                                            *)
LEMMA WriteResult ==
    ASSUME NEW r, NEW base \in Nat, NEW ct \in {"app", "handshake", "alert"},
           NEW content \in Nat, Ready(r, base), r.wrec.ct = "empty" => r.seq = MaxSeq
    PROVE  LET q == tls13_record_layer_write_record(r, ct, content)
           IN  /\ q.ret \in {"SUCCESS", "EOF", "WANT_POLLOUT", "FAILURE"}
               /\ q.ret = "EOF" <=> r.write_closed
               /\ q.ret = "FAILURE" =>
                     q.seq = MaxSeq \/ (r.wrec.ct \in {"handshake", "alert"} /\ r.wrec.ct # ct)
               /\ q.ret = "SUCCESS" /\ ct # "app" => q.wrec.ct = "none"
               /\ q.wrec.ct \in {"none", "empty", ct} \/ q.wrec = r.wrec
               /\ q.wrec.ct = "empty" => q.seq = MaxSeq
<1> DEFINE q == tls13_record_layer_write_record(r, ct, content)
           p == tls13_record_send(r)
           Claim ==
             /\ q.ret \in {"SUCCESS", "EOF", "WANT_POLLOUT", "FAILURE"}
             /\ q.ret = "EOF" <=> r.write_closed
             /\ q.ret = "FAILURE" =>
                   q.seq = MaxSeq \/ (r.wrec.ct \in {"handshake", "alert"} /\ r.wrec.ct # ct)
             /\ q.ret = "SUCCESS" /\ ct # "app" => q.wrec.ct = "none"
             /\ q.wrec.ct \in {"none", "empty", ct} \/ q.wrec = r.wrec
             /\ q.wrec.ct = "empty" => q.seq = MaxSeq
<1> SUFFICES Claim
  OBVIOUS
<1>1. r \in RL /\ r.wrec \in Record
  BY DEF Ready, Good, RL
<1>2. CASE r.write_closed
  <2>1. q = [r EXCEPT !.ret = "EOF"]
    BY <1>2 DEF tls13_record_layer_write_record, Return
  <2> HIDE DEF q
  <2>2. q.ret = "EOF" /\ q.wrec = r.wrec /\ q.seq = r.seq
    BY <1>1, <2>1 DEF RL
  <2> QED BY <1>2, <2>2
<1>3. CASE ~r.write_closed /\ ct = "app" /\ r.wrec_appdata_len # 0
  <2>1. q = [r EXCEPT !.wrec_appdata_len = 0, !.ret = "SUCCESS"]
    BY <1>3 DEF tls13_record_layer_write_record
  <2> HIDE DEF q
  <2>2. q.ret = "SUCCESS" /\ q.wrec = r.wrec /\ q.seq = r.seq
    BY <1>1, <2>1 DEF RL
  <2> QED BY <1>3, <2>2
<1>4. CASE ~r.write_closed /\ ~(ct = "app" /\ r.wrec_appdata_len # 0) /\ r.wrec.ct = "none"
  <2>1. q = SealAndSend(r, ct, content)
    BY <1>4 DEF tls13_record_layer_write_record
  <2>2. /\ q.ret \in {"SUCCESS", "WANT_POLLOUT", "FAILURE"}
        /\ q.ret = "FAILURE" => q.seq = MaxSeq
        /\ q.ret = "SUCCESS" => q.wrec.ct = "none"
        /\ q.wrec.ct \in {"none", "empty", ct}
        /\ q.wrec.ct = "empty" => q.seq = MaxSeq
    BY <1>1, <2>1, SealResult
  <2> HIDE DEF q
  <2> QED BY <1>4, <2>2
<1>5. CASE ~r.write_closed /\ ~(ct = "app" /\ r.wrec_appdata_len # 0) /\ r.wrec.ct # "none"
  <2>1. /\ p.ret \in {"SUCCESS", "WANT_POLLOUT", "FAILURE"}
        /\ p.ret = "FAILURE" <=> r.wrec.ct = "empty"
        /\ p.ret = "SUCCESS" => p.wrec = NoRecord
        /\ p.ret # "SUCCESS" => p.wrec = r.wrec
        /\ p.seq = r.seq
    BY <1>1, SendResult
  <2>2. p \in RL
    BY <1>5, RecordSend
  <2>3. CASE p.ret # "SUCCESS" \/ r.wrec.ct = ct
    <3>1. q = p
      BY <1>5, <2>3 DEF tls13_record_layer_write_record
    <3> HIDE DEF p, q
    <3> QED BY <1>5, <2>1, <2>3, <3>1 DEF NoRecord
  <2>4. CASE p.ret = "SUCCESS" /\ r.wrec.ct # ct /\ r.wrec.ct # "app"
    <3>1. q = [p EXCEPT !.ret = "FAILURE"]
      BY <1>5, <2>4 DEF tls13_record_layer_write_record, Return
    <3> HIDE DEF p, q
    <3>2. q.ret = "FAILURE" /\ q.wrec = NoRecord
      BY <2>1, <2>2, <2>4, <3>1 DEF RL
    <3>3. r.wrec.ct \in {"handshake", "alert"}
      BY <1>1, <1>5, <2>1, <2>4 DEF Record
    <3> QED BY <1>5, <2>4, <3>2, <3>3 DEF NoRecord
  <2>5. CASE p.ret = "SUCCESS" /\ r.wrec.ct # ct /\ r.wrec.ct = "app"
    <3> DEFINE m == [p EXCEPT !.wrec_appdata_len = 1]
    <3>1. q = SealAndSend(m, ct, content)
      BY <1>5, <2>5 DEF tls13_record_layer_write_record
    <3>2. m \in RL
      <4> HIDE DEF p
      <4> QED BY <2>2 DEF RL
    <3> HIDE DEF m
    <3>3. /\ q.ret \in {"SUCCESS", "WANT_POLLOUT", "FAILURE"}
          /\ q.ret = "FAILURE" => q.seq = MaxSeq
          /\ q.ret = "SUCCESS" => q.wrec.ct = "none"
          /\ q.wrec.ct \in {"none", "empty", ct}
          /\ q.wrec.ct = "empty" => q.seq = MaxSeq
      BY <3>1, <3>2, SealResult
    <3> HIDE DEF q
    <3> QED BY <1>5, <3>3
  <2> QED BY <2>3, <2>4, <2>5
<1> QED BY <1>2, <1>3, <1>4, <1>5

(* Sending what is pending keeps the number of updates done or promised,    *)
(* and an error alert closes the write channel or stays pending.            *)
Settled(r, q) ==
    /\ Tally(q) = Tally(r)
    /\ r.read_closed => q.read_closed
    /\ Err(r) => \/ Err(q) /\ q.ret # "SUCCESS"
                 \/ q.write_closed /\ q.read_closed /\ q.ret = "ALERT"
    /\ ~Err(r) => ~Err(q)
    /\ q.ret = "SUCCESS" => q.alert_data = NoAlert

(* Of the rest of a call that blocked or failed the same is left. *)
SettledLeft(r, q, sent) ==
    /\ Left(q, sent)
    /\ q.ret \in {"SUCCESS", "EOF", "WANT_POLLOUT", "FAILURE", "ALERT"}
    /\ q.ret = "ALERT" => Err(r)
    /\ q.ret = "FAILURE" => q.seq = MaxSeq \/ sent
    /\ q.write_closed => r.write_closed \/ sent \/ q.ret = "ALERT"
    /\ q.ret = "SUCCESS" => ~q.phh_data \/ q.write_closed

(* tls13_record_layer_send_alert, sent or blocked. *)
LEMMA SendAlertSettles ==
    ASSUME NEW r, NEW base \in Nat, Ready(r, base), r.alert_data # NoAlert
    PROVE  LET q == tls13_record_layer_send_alert(r)
           IN  /\ Settled(r, q)
               /\ \A sent \in BOOLEAN :
                     Left(r, sent) /\ (r.write_closed => sent) => SettledLeft(r, q, sent)
<1> DEFINE w == tls13_record_layer_write_record(r, "alert", r.alert_data)
           q == tls13_record_layer_send_alert(r)
<1>1. r \in RL /\ r.alert_data \in Nat
  <2>1. r \in RL
    BY DEF Ready, Good
  <2>2. r.alert_data \in 0 .. NoAlert
    BY <2>1 DEF RL
  <2> QED BY <2>1, <2>2 DEF NoAlert
<1>2. /\ SamePending(r, w)
      /\ r.write_closed => w.ret = "EOF"
      /\ w.ret \notin {"SUCCESS", "FAILURE"} => Good(w, base)
      /\ w.ret = "FAILURE" => Good(w, base)
      /\ w.ret = "SUCCESS" => Good(w, base)
  BY <1>1, WriteRecord DEF Ready
<1>3. w \in RL
  BY <1>2 DEF Good
<1>4. q = AlertWritten(r, w)
  BY DEF tls13_record_layer_send_alert
<1>5. ASSUME NEW sent \in BOOLEAN, Left(r, sent), r.write_closed => sent
      PROVE  /\ w.ret \in {"SUCCESS", "EOF", "WANT_POLLOUT", "FAILURE"}
             /\ w.ret = "EOF" <=> r.write_closed
             /\ w.ret = "FAILURE" => w.seq = MaxSeq \/ sent
             /\ w.wrec.ct = "empty" => w.seq = MaxSeq
             /\ w.ret = "SUCCESS" => w.wrec.ct = "none"
  <2>1. r.wrec.ct = "empty" => r.seq = MaxSeq
    BY <1>5 DEF Left
  <2>2. /\ w.ret \in {"SUCCESS", "EOF", "WANT_POLLOUT", "FAILURE"}
        /\ w.ret = "EOF" <=> r.write_closed
        /\ w.ret = "FAILURE" =>
              w.seq = MaxSeq \/ (r.wrec.ct \in {"handshake", "alert"} /\ r.wrec.ct # "alert")
        /\ w.wrec.ct = "empty" => w.seq = MaxSeq
        /\ w.ret = "SUCCESS" => w.wrec.ct = "none"
    BY <1>1, <2>1, WriteResult
  <2>3. r.wrec.ct = "handshake" => r.phh_data
    BY DEF Ready, Good, WrecNext, Sealed
  <2> HIDE DEF w
  <2>4. r.phh_data => sent
    BY <1>5 DEF Left, Err, TLS13_ALERT_CLOSE_NOTIFY
  <2> QED BY <2>2, <2>3, <2>4
<1> HIDE DEF w, q
<1>6. CASE w.ret # "SUCCESS"
  <2>1. q = [w EXCEPT !.ret = IF w.ret = "EOF" THEN "ALERT" ELSE w.ret]
    BY <1>4, <1>6 DEF AlertWritten, Return
  <2>2. /\ q.ret = IF w.ret = "EOF" THEN "ALERT" ELSE w.ret
        /\ q.gen = r.gen /\ q.phh_data = r.phh_data /\ q.alert_data = r.alert_data
        /\ q.read_closed = r.read_closed /\ q.write_closed = r.write_closed
        /\ q.seq = w.seq /\ q.wrec = w.wrec
    BY <1>2, <1>3, <2>1 DEF RL, SamePending
  <2>3. q.ret # "SUCCESS"
    BY <1>6, <2>2
  <2>4. Settled(r, q)
    BY <2>2, <2>3 DEF Settled, Tally, Err
  <2>5. ASSUME NEW sent \in BOOLEAN, Left(r, sent), r.write_closed => sent
        PROVE  SettledLeft(r, q, sent)
    <3>1. Left(q, sent)
      BY <1>5, <2>2, <2>5 DEF Left, Err
    <3>2. q.ret = "ALERT" => Err(r)
      BY <1>5, <2>2, <2>5 DEF Left, Err
    <3> QED BY <1>5, <2>2, <2>3, <2>5, <3>1, <3>2 DEF SettledLeft
  <2> QED BY <2>4, <2>5 DEF q
<1>7. CASE w.ret = "SUCCESS"
  <2>1. q = IF r.alert_data = TLS13_ALERT_CLOSE_NOTIFY
            THEN [w EXCEPT !.alert_data = NoAlert, !.write_closed = TRUE]
            ELSE [w EXCEPT !.alert_data = NoAlert, !.write_closed = TRUE, !.read_closed = TRUE,
                           !.ret = "ALERT"]
    BY <1>4, <1>7 DEF AlertWritten
  <2>2. /\ q.alert_data = NoAlert /\ q.write_closed /\ q.seq = w.seq /\ q.wrec = w.wrec
        /\ q.gen = r.gen /\ q.phh_data = r.phh_data
    BY <1>2, <1>3, <2>1 DEF RL, SamePending
  <2>3. /\ Err(r) => q.ret = "ALERT" /\ q.read_closed
        /\ ~Err(r) => q.ret = "SUCCESS" /\ q.read_closed = r.read_closed
    <3>1. CASE r.alert_data = TLS13_ALERT_CLOSE_NOTIFY
      BY <1>2, <1>3, <1>7, <2>1, <3>1 DEF RL, SamePending, Err
    <3>2. CASE r.alert_data # TLS13_ALERT_CLOSE_NOTIFY
      BY <1>3, <2>1, <3>2 DEF RL, Err
    <3> QED BY <3>1, <3>2
  <2>4. Settled(r, q)
    BY <2>2, <2>3 DEF Settled, Tally, Err
  <2>5. ASSUME NEW sent \in BOOLEAN, Left(r, sent), r.write_closed => sent
        PROVE  SettledLeft(r, q, sent)
    <3>1. q.wrec.ct # "alert"
      BY <1>5, <1>7, <2>2, <2>5
    <3>2. Left(q, sent)
      BY <1>5, <2>2, <2>5, <3>1 DEF Left, Err, TLS13_ALERT_CLOSE_NOTIFY, NoAlert
    <3>3. r.alert_data = TLS13_ALERT_CLOSE_NOTIFY => sent
      BY <2>5 DEF Left
    <3> QED BY <2>2, <2>3, <3>2, <3>3 DEF SettledLeft, Err
  <2> QED BY <2>4, <2>5 DEF q
<1> QED BY <1>6, <1>7

(* tls13_record_layer_send_phh: the update is promised until it is done. *)
LEMMA SendPhhSettles ==
    ASSUME NEW r, NEW base \in Nat, Ready(r, base), r.alert_data = NoAlert, r.phh_data
    PROVE  LET q == tls13_record_layer_send_phh(r)
           IN  /\ Settled(r, q)
               /\ \A sent \in BOOLEAN :
                     Left(r, sent) /\ (r.write_closed => sent) => SettledLeft(r, q, sent)
<1> DEFINE w == tls13_record_layer_write_record(r, "handshake", 0)
           q == tls13_record_layer_send_phh(r)
<1>1. /\ SamePending(r, w)
      /\ w.ret # "SUCCESS" => Good(w, base)
      /\ w.ret = "SUCCESS" => Good(w, base)
  BY WriteRecord DEF Ready
<1>2. w \in RL /\ w.phh_data /\ w.key_update_request
  BY <1>1 DEF Good, SamePending
<1>3. ASSUME NEW sent \in BOOLEAN, Left(r, sent), r.write_closed => sent
      PROVE  /\ w.ret \in {"SUCCESS", "EOF", "WANT_POLLOUT", "FAILURE"}
             /\ w.ret = "FAILURE" => w.seq = MaxSeq
             /\ w.wrec.ct = "empty" => w.seq = MaxSeq
             /\ w.wrec.ct # "alert"
             /\ w.ret = "SUCCESS" => w.wrec.ct = "none"
  <2>1. (r.wrec.ct = "empty" => r.seq = MaxSeq) /\ r.wrec.ct # "alert"
    BY <1>3 DEF Left
  <2>2. /\ w.ret \in {"SUCCESS", "EOF", "WANT_POLLOUT", "FAILURE"}
        /\ w.ret = "FAILURE" =>
              w.seq = MaxSeq \/ (r.wrec.ct \in {"handshake", "alert"} /\ r.wrec.ct # "handshake")
        /\ w.wrec.ct = "empty" => w.seq = MaxSeq
        /\ w.wrec.ct \in {"none", "empty", "handshake"} \/ w.wrec = r.wrec
        /\ w.ret = "SUCCESS" => w.wrec.ct = "none"
    BY <2>1, WriteResult
  <2> HIDE DEF w
  <2> QED BY <2>1, <2>2
<1>4. CASE w.ret # "SUCCESS"
  <2>1. q = w
    BY <1>4 DEF tls13_record_layer_send_phh
  <2> HIDE DEF w, q
  <2>2. Settled(r, q)
    BY <1>1, <1>4, <2>1 DEF Settled, Tally, Err, SamePending
  <2>3. ASSUME NEW sent \in BOOLEAN, Left(r, sent), r.write_closed => sent
        PROVE  SettledLeft(r, q, sent)
    <3>1. q.alert_data = NoAlert /\ q.write_closed = r.write_closed
      BY <1>1, <2>1 DEF SamePending
    <3>2. Left(q, sent)
      BY <1>3, <2>1, <2>3, <3>1 DEF Left, Err, NoAlert, TLS13_ALERT_CLOSE_NOTIFY
    <3> QED BY <1>3, <1>4, <2>1, <2>3, <3>1, <3>2 DEF SettledLeft
  <2> QED BY <2>2, <2>3 DEF q
<1>5. CASE w.ret = "SUCCESS"
  <2> DEFINE v == [w EXCEPT !.phh_data = FALSE]
  <2>1. q = tls13_phh_done_cb(v)
    BY <1>5 DEF tls13_record_layer_send_phh
  <2> HIDE DEF w
  <2>2. v \in RL /\ v.key_update_request
    BY <1>2 DEF RL
  <2>3. q = [v EXCEPT !.gen = v.gen + 1, !.seq = 0, !.key_update_request = FALSE]
    BY <2>1, <2>2 DEF tls13_phh_done_cb
  <2>4. /\ v.gen = r.gen /\ v.wrec = w.wrec /\ v.ret = "SUCCESS" /\ v.phh_data = FALSE
        /\ v.alert_data = NoAlert /\ v.read_closed = r.read_closed
        /\ v.write_closed = r.write_closed
    BY <1>1, <1>2, <1>5 DEF RL, SamePending
  <2> HIDE DEF q, v
  <2>5. /\ q.gen = r.gen + 1 /\ q.wrec = w.wrec /\ q.ret = "SUCCESS" /\ q.phh_data = FALSE
        /\ q.alert_data = NoAlert /\ q.read_closed = r.read_closed
        /\ q.write_closed = r.write_closed
    BY <2>2, <2>3, <2>4 DEF RL
  <2>6. r.gen \in Nat
    BY DEF Ready, Good, RL
  <2>7. Settled(r, q)
    BY <2>5, <2>6 DEF Settled, Tally, Err
  <2>8. ASSUME NEW sent \in BOOLEAN, Left(r, sent), r.write_closed => sent
        PROVE  SettledLeft(r, q, sent)
    <3>1. q.wrec.ct = "none"
      BY <1>3, <1>5, <2>5, <2>8
    <3>2. Left(q, sent)
      BY <2>5, <3>1 DEF Left, Err, NoAlert, TLS13_ALERT_CLOSE_NOTIFY
    <3> QED BY <2>5, <3>2 DEF SettledLeft
  <2> QED BY <2>7, <2>8 DEF q
<1> QED BY <1>4, <1>5

(* tls13_record_layer_send_pending as a whole. *)
LEMMA SendPendingSettles ==
    ASSUME NEW r, NEW base \in Nat, Ready(r, base)
    PROVE  LET q == tls13_record_layer_send_pending(r)
           IN  /\ Settled(r, q)
               /\ \A sent \in BOOLEAN :
                     Left(r, sent) /\ (r.write_closed => sent) => SettledLeft(r, q, sent)
<1> DEFINE q == tls13_record_layer_send_pending(r)
<1>1. CASE r.alert_data # NoAlert
  <2>1. q = tls13_record_layer_send_alert(r)
    BY <1>1 DEF tls13_record_layer_send_pending
  <2> QED BY <1>1, <2>1, SendAlertSettles
<1>2. CASE r.alert_data = NoAlert /\ r.phh_data
  <2>1. q = tls13_record_layer_send_phh(r)
    BY <1>2 DEF tls13_record_layer_send_pending
  <2> QED BY <1>2, <2>1, SendPhhSettles
<1>3. CASE r.alert_data = NoAlert /\ ~r.phh_data
  <2>1. q = [r EXCEPT !.ret = "SUCCESS"] /\ r \in RL
    BY <1>3 DEF tls13_record_layer_send_pending, Return, Ready, Good
  <2> HIDE DEF q
  <2>2. /\ q.gen = r.gen /\ q.wrec = r.wrec /\ q.ret = "SUCCESS" /\ q.phh_data = r.phh_data
        /\ q.alert_data = r.alert_data /\ q.read_closed = r.read_closed
        /\ q.write_closed = r.write_closed /\ q.seq = r.seq
    BY <2>1 DEF RL
  <2>3. Settled(r, q)
    BY <1>3, <2>2 DEF Settled, Tally, Err
  <2>4. ASSUME NEW sent \in BOOLEAN, Left(r, sent), r.write_closed => sent
        PROVE  SettledLeft(r, q, sent)
    <3>1. Left(q, sent)
      BY <2>2, <2>4 DEF Left, Err
    <3> QED BY <1>3, <2>2, <2>4, <3>1 DEF SettledLeft
  <2> QED BY <2>3, <2>4 DEF q
<1> QED BY <1>1, <1>2, <1>3

(* tls13_send_alert for an error: the alert is sent, or pending, or the     *)
(* call fails.  If nothing was pending, why it fails is known.              *)
LEMMA ErrorSettles ==
    ASSUME NEW r, NEW base \in Nat, NEW desc \in 1 .. NoAlert - 1, Kept(r, base)
    PROVE  LET q == tls13_send_alert(r, desc)
           IN  /\ q.ret \in Fatal \/ Err(q)
               /\ q.ret # "SUCCESS"
               /\ \A sent \in BOOLEAN :
                     /\ Left(r, sent) /\ (r.write_closed => sent) /\ r.alert_data = NoAlert
                     /\ ~r.phh_data \/ r.write_closed
                     => /\ Left(q, sent)
                        /\ q.ret \in {"WANT_POLLOUT", "FAILURE", "ALERT", "EOF"}
                        /\ q.ret = "FAILURE" => q.seq = MaxSeq \/ sent
                        /\ q.write_closed => sent \/ q.ret = "ALERT"
                        /\ Err(q) \/ q.read_closed
<1> DEFINE q == tls13_send_alert(r, desc)
           p == [r EXCEPT !.alert_data = desc]
<1>1. CASE r.alert_data # NoAlert
  <2>1. q = Return(r, "FAILURE") /\ r \in RL
    BY <1>1 DEF tls13_send_alert, tls13_record_layer_enqueue_alert, Kept, Good
  <2>2. q.ret = "FAILURE"
    BY <2>1 DEF Return, RL
  <2> QED BY <1>1, <2>2 DEF Fatal
<1>2. CASE r.alert_data = NoAlert
  <2>1. Good(r, base) /\ Placed(r) /\ r \in RL
    BY <1>2 DEF Kept, Good
  <2>2. q = tls13_record_layer_send_pending(p)
    BY <1>2 DEF tls13_send_alert, tls13_record_layer_enqueue_alert
  <2>3. p \in RL
    BY <2>1 DEF RL, NoAlert
  <2>4. /\ SameRecords(r, p) /\ p.write_closed = r.write_closed /\ p.alert_data = desc
        /\ p.phh_data = r.phh_data /\ p.wrec = r.wrec /\ p.seq = r.seq
    BY <2>1 DEF RL, SameRecords
  <2> HIDE DEF p, q
  <2>5. Ready(p, base)
    BY <2>1, <2>3, <2>4, SameRecordsGood DEF Ready
  <2>6. Err(p)
    BY <2>4 DEF Err, NoAlert, TLS13_ALERT_CLOSE_NOTIFY
  <2>7. /\ Settled(p, q)
        /\ \A sent \in BOOLEAN :
              Left(p, sent) /\ (p.write_closed => sent) => SettledLeft(p, q, sent)
    BY <2>2, <2>5, SendPendingSettles
  <2>8. (Err(q) /\ q.ret # "SUCCESS") \/ (q.read_closed /\ q.ret = "ALERT")
    BY <2>6, <2>7 DEF Settled
  <2>9. ASSUME NEW sent \in BOOLEAN, Left(r, sent), r.write_closed => sent,
               ~r.phh_data \/ r.write_closed
        PROVE  SettledLeft(p, q, sent)
    <3>1. Left(p, sent)
      BY <1>2, <2>4, <2>6, <2>9 DEF Left, Err
    <3> QED BY <2>4, <2>7, <2>9, <3>1
  <2> QED BY <2>4, <2>8, <2>9 DEF q, SettledLeft, Fatal
<1> QED BY <1>1, <1>2

(* tls13_record_layer_phh with nothing pending: one more update is done or  *)
(* promised, or the call fails.                                             *)
LEMMA PhhSettles ==
    ASSUME NEW r, NEW base \in Nat, Ready(r, base), r.alert_data = NoAlert
    PROVE  LET q == tls13_record_layer_phh([r EXCEPT !.key_update_request = TRUE])
           IN  /\ q.ret = "FAILURE" \/ Tally(q) = Tally(r) + 1
               /\ ~Err(q) /\ (r.read_closed => q.read_closed)
               /\ \A sent \in BOOLEAN :
                     /\ Left(r, sent) /\ (r.write_closed => sent)
                     /\ ~r.phh_data \/ r.write_closed
                     => /\ Left(q, sent)
                        /\ q.ret \in {"SUCCESS", "EOF", "WANT_POLLOUT", "FAILURE"}
                        /\ q.ret = "FAILURE" => q.seq = MaxSeq \/ sent
                        /\ q.write_closed => sent
<1> DEFINE k == [r EXCEPT !.key_update_request = TRUE]
           p == [k EXCEPT !.phh_data = TRUE]
           q == tls13_record_layer_phh(k)
<1>1. Good(r, base) /\ Placed(r) /\ r \in RL /\ r.gen \in Nat
  BY DEF Ready, Good, RL
<1>2. k \in RL /\ k.phh_data = r.phh_data
  BY <1>1 DEF RL
<1>3. CASE r.phh_data
  <2>1. q = Return(k, "FAILURE")
    BY <1>2, <1>3 DEF tls13_record_layer_phh
  <2>2. /\ q.ret = "FAILURE" /\ q.alert_data = NoAlert /\ q.read_closed = r.read_closed
        /\ q.write_closed = r.write_closed /\ q.wrec = r.wrec /\ q.seq = r.seq
    BY <1>1, <2>1 DEF Return, RL
  <2> HIDE DEF q
  <2>3. \A sent : Left(r, sent) => Left(q, sent)
    BY <2>2 DEF Left, Err
  <2> QED BY <1>3, <2>2, <2>3 DEF Err, q
<1>4. CASE ~r.phh_data
  <2>1. q = tls13_record_layer_send_pending(p)
    BY <1>2, <1>4 DEF tls13_record_layer_phh
  <2>2. p \in RL
    BY <1>1 DEF RL
  <2>3. /\ p.phh_data = TRUE /\ p.key_update_request = TRUE /\ p.gen = r.gen
        /\ p.alert_data = NoAlert /\ p.read_closed = r.read_closed
        /\ p.write_closed = r.write_closed /\ p.wrec = r.wrec /\ p.seq = r.seq
        /\ p.wbio = r.wbio /\ p.wrec_appdata_len = r.wrec_appdata_len
    BY <1>1 DEF RL
  <2> HIDE DEF p, q, k
  <2>4. Good(p, base)
    <3>1. WrecNext(p, base)
      BY <1>1, <2>3 DEF Good, WrecNext, Sealed
    <3> QED BY <1>1, <2>2, <2>3, <3>1 DEF Good
  <2>5. Ready(p, base)
    BY <1>1, <2>3, <2>4 DEF Ready, Placed
  <2>6. /\ Settled(p, q)
        /\ \A sent \in BOOLEAN :
              Left(p, sent) /\ (p.write_closed => sent) => SettledLeft(p, q, sent)
    BY <2>1, <2>5, SendPendingSettles
  <2>7. Tally(p) = Tally(r) + 1 /\ ~Err(p)
    BY <1>1, <1>4, <2>3 DEF Tally, Err
  <2>8. ASSUME NEW sent \in BOOLEAN, Left(r, sent), r.write_closed => sent
        PROVE  SettledLeft(p, q, sent)
    <3>1. Left(p, sent)
      BY <2>3, <2>7, <2>8 DEF Left
    <3> QED BY <2>3, <2>6, <2>8, <3>1
  <2> QED BY <2>3, <2>6, <2>7, <2>8 DEF q, k, Settled, SettledLeft
<1> QED BY <1>3, <1>4

(* tls13_record_layer_write: it settles what is pending first. *)
LEMMA WriteSettles ==
    ASSUME NEW r, NEW base \in Nat, Ready(r, base)
    PROVE  LET q == tls13_record_layer_write(r, base + 1)
           IN  /\ Settled(r, q)
               /\ \A sent \in BOOLEAN :
                     Left(r, sent) /\ (r.write_closed => sent) => SettledLeft(r, q, sent)
<1> DEFINE p == tls13_record_layer_send_pending(r)
           q == tls13_record_layer_write(r, base + 1)
           w == tls13_record_layer_write_record(p, "app", base + 1)
<1>1. /\ Settled(r, p)
      /\ \A sent \in BOOLEAN :
            Left(r, sent) /\ (r.write_closed => sent) => SettledLeft(r, p, sent)
  BY SendPendingSettles
<1>2. CASE p.ret # "SUCCESS"
  <2>1. q = p
    BY <1>2 DEF tls13_record_layer_write
  <2> QED BY <1>1, <2>1
<1>3. CASE p.ret = "SUCCESS"
  <2>1. q = w
    BY <1>3 DEF tls13_record_layer_write
  <2>2. Ready(p, base) /\ PendingSent(r, p, base)
    BY <1>3, SendPending, KeptReady DEF PendingSent
  <2>3. p.alert_data = NoAlert /\ ~Err(r) /\ (p.write_closed \/ ~p.phh_data)
    BY <1>1, <1>3, <2>2 DEF Settled, PendingSent
  <2>4. SamePending(p, w)
    <3> HIDE DEF p
    <3> QED BY <2>2, WriteRecord
  <2>5. ASSUME p.wrec.ct = "empty" => p.seq = MaxSeq
        PROVE  /\ w.ret \in {"SUCCESS", "EOF", "WANT_POLLOUT", "FAILURE"}
               /\ w.ret = "EOF" <=> p.write_closed
               /\ w.ret = "FAILURE" => w.seq = MaxSeq \/ p.wrec.ct \in {"handshake", "alert"}
               /\ w.wrec.ct \in {"none", "empty", "app"} \/ w.wrec = p.wrec
               /\ w.wrec.ct = "empty" => w.seq = MaxSeq
    <3> HIDE DEF p
    <3> QED BY <2>2, <2>5, WriteResult
  <2>6. p.wrec.ct = "handshake" => p.phh_data
    BY <2>2 DEF Ready, Good, WrecNext, Sealed
  <2> HIDE DEF p, q, w
  <2>7. Settled(r, q)
    BY <1>1, <2>1, <2>3, <2>4 DEF Settled, SamePending, Tally, Err
  <2>8. ASSUME NEW sent \in BOOLEAN, Left(r, sent), r.write_closed => sent
        PROVE  SettledLeft(r, q, sent)
    <3>1. SettledLeft(r, p, sent) /\ Left(p, sent)
      BY <1>1, <2>8 DEF SettledLeft
    <3>2. (p.wrec.ct = "empty" => p.seq = MaxSeq) /\ p.wrec.ct # "alert"
      BY <2>3, <3>1 DEF Left
    <3>3. /\ w.ret \in {"SUCCESS", "EOF", "WANT_POLLOUT", "FAILURE"}
          /\ w.ret = "FAILURE" => w.seq = MaxSeq
          /\ w.wrec.ct # "alert" /\ (w.wrec.ct = "empty" => w.seq = MaxSeq)
      BY <2>3, <2>5, <2>6, <3>2
    <3>4. /\ w.alert_data = NoAlert /\ w.write_closed = p.write_closed
          /\ w.phh_data = p.phh_data
      BY <2>3, <2>4 DEF SamePending
    <3>5. Left(w, sent)
      BY <3>3, <3>4 DEF Left, Err, NoAlert, TLS13_ALERT_CLOSE_NOTIFY
    <3>6. w.write_closed => r.write_closed \/ sent
      BY <1>3, <3>1, <3>4 DEF SettledLeft
    <3> QED BY <2>1, <2>3, <3>3, <3>4, <3>5, <3>6 DEF SettledLeft
  <2> QED BY <2>7, <2>8 DEF q
<1> QED BY <1>2, <1>3

-----------------------------------------------------------------------------
(* Every request is answered. *)

(* The content while a record is handled may also be a handshake message. *)
Held(c) ==
    \/ ContentOK(c)
    \/ DOMAIN c = {"ct", "data"} /\ c.ct = "handshake" /\ c.data \in Messages

(* As Answered, with the request in the content that is being handled. *)
Owed(s) ==
    \/ s.rl.write_closed \/ Err(s.rl)
    \/ peer.requests = Tally(s.rl) + Open(s.rd) + (IF Asks(s.rd.rcontent) THEN 1 ELSE 0)

(* A call may go on to use the content. *)
Filled(s) ==
    /\ s.rd.rbio \in Seq(Wire) /\ Held(s.rd.rcontent) /\ Owed(s)
    /\ s.rl.alert_data = NoAlert

(* A step of a call may end. *)
Rests(s) ==
    /\ s.rd.rbio \in Seq(Wire) /\ ContentOK(s.rd.rcontent)
    /\ s.rl.ret \in Fatal \/ Answered(s.rl, s.rd)

(* The numbers of requests. *)
LEMMA CountsAreNumbers ==
    ASSUME NEW s, NEW base \in Nat, CallOK(s, base), s.rd.rbio \in Seq(Wire)
    PROVE  Tally(s.rl) \in Nat /\ Open(s.rd) \in Nat
<1>1. Tally(s.rl) \in Nat
  BY DEF CallOK, Kept, Good, RL, Tally
<1>2. Cardinality(Requests(s.rd.rbio)) \in Nat
  BY RequestsFinite
<1>3. s.rd.lost_requests \in Nat
  BY DEF CallOK, RdOK
<1> QED BY <1>1, <1>2, <1>3 DEF Open

(* Content that may be left over holds no request. *)
LEMMA RestsOwed ==
    ASSUME NEW s, NEW base \in Nat, CallOK(s, base),
           s.rd.rbio \in Seq(Wire), ContentOK(s.rd.rcontent)
    PROVE  /\ Owed(s) <=> Answered(s.rl, s.rd)
           /\ Held(s.rd.rcontent)
<1>1. ~Asks(s.rd.rcontent) /\ Held(s.rd.rcontent)
  BY DEF ContentOK, Asks, Carries, Held
<1>2. Tally(s.rl) \in Nat /\ Open(s.rd) \in Nat
  BY CountsAreNumbers
<1> QED BY <1>1, <1>2 DEF Owed, Answered

(* A value returned changes neither. *)
LEMMA ReturnOwed ==
    ASSUME NEW s, NEW base \in Nat, CallOK(s, base), NEW ret
    PROVE  LET t == Returns(s, ret)
           IN  /\ t.rl.ret = ret /\ t.rd = s.rd /\ t.app = s.app
               /\ t.rl.alert_data = s.rl.alert_data /\ t.rl.write_closed = s.rl.write_closed
               /\ Tally(t.rl) = Tally(s.rl) /\ (Err(t.rl) <=> Err(s.rl))
               /\ Owed(t) <=> Owed(s)
               /\ Answered(t.rl, t.rd) <=> Answered(s.rl, s.rd)
<1> DEFINE q == [s.rl EXCEPT !.ret = ret]
<1>1. s.rl \in RL
  BY DEF CallOK, Kept, Good
<1>2. Returns(s, ret) = State(q, s.rd, s.app)
  BY DEF Returns, Return
<1>3. /\ q.ret = ret /\ q.alert_data = s.rl.alert_data /\ q.write_closed = s.rl.write_closed
      /\ q.gen = s.rl.gen /\ q.phh_data = s.rl.phh_data
  BY <1>1 DEF RL
<1> HIDE DEF q
<1>4. Tally(q) = Tally(s.rl) /\ (Err(q) <=> Err(s.rl))
  BY <1>3 DEF Tally, Err
<1> QED BY <1>2, <1>3, <1>4 DEF State, Owed, Answered

(* Once an error alert is to be sent nothing is owed. *)
LEMMA AlertRests ==
    ASSUME NEW s, NEW base \in Nat, CallOK(s, base), NEW desc \in 1 .. NoAlert - 1
    PROVE  LET t == SendsAlert(s, desc)
           IN  /\ t.rl.ret \in Fatal \/ (Answered(t.rl, t.rd) /\ Owed(t))
               /\ t.rl.ret # "SUCCESS"
               /\ t.rd = s.rd /\ t.app = s.app /\ t.rl = tls13_send_alert(s.rl, desc)
<1> DEFINE q == tls13_send_alert(s.rl, desc)
<1>1. (q.ret \in Fatal \/ Err(q)) /\ q.ret # "SUCCESS"
  BY ErrorSettles DEF CallOK
<1>2. SendsAlert(s, desc) = State(q, s.rd, s.app)
  BY DEF SendsAlert
<1> HIDE DEF q
<1> QED BY <1>1, <1>2 DEF State, Answered, Owed, q

(* tls13_record_layer_process_alert leaves the requests alone. *)
LEMMA ProcessAlertRests ==
    ASSUME NEW s, NEW base \in Nat, NEW body, CallOK(s, base), Answered(s.rl, s.rd)
    PROVE  LET t == tls13_record_layer_process_alert(s, body)
           IN  /\ t.rd = s.rd /\ t.rl.ret # "SUCCESS"
               /\ t.rl.ret \in Fatal \/ Answered(t.rl, t.rd)
<1> DEFINE t == tls13_record_layer_process_alert(s, body)
           c == [s.rl EXCEPT !.read_closed = TRUE, !.ret = "EOF"]
           e == [s.rl EXCEPT !.read_closed = TRUE, !.write_closed = TRUE, !.ret = "ALERT"]
           b == [s.app EXCEPT !.shutdown = @ \cup {"received"}]
<1>1. s.rl \in RL
  BY DEF CallOK, Kept, Good
<1>2. \/ t = State(c, s.rd, b)
      \/ t = Returns(s, "WANT_RETRY")
      \/ t = State(e, s.rd, s.app)
      \/ t = SendsAlert(s, TLS13_ALERT_ILLEGAL_PARAMETER)
  BY DEF tls13_record_layer_process_alert
<1>3. /\ c.ret = "EOF" /\ Tally(c) = Tally(s.rl) /\ (Err(c) <=> Err(s.rl))
      /\ c.write_closed = s.rl.write_closed /\ e.ret = "ALERT"
  BY <1>1 DEF RL, Tally, Err
<1> HIDE DEF t, c, e, b
<1>4. CASE t = State(c, s.rd, b) \/ t = State(e, s.rd, s.app)
  BY <1>3, <1>4 DEF State, Answered, Fatal, t
<1>5. CASE t = Returns(s, "WANT_RETRY")
  BY <1>5, ReturnOwed DEF t
<1>6. CASE t = SendsAlert(s, TLS13_ALERT_ILLEGAL_PARAMETER)
  BY <1>6, AlertRests, SMTT(30) DEF TLS13_ALERT_ILLEGAL_PARAMETER, NoAlert, t
<1> QED BY <1>2, <1>4, <1>5, <1>6

(* Opening a record moves its request into the content. *)
LEMMA ReadRecordFills ==
    ASSUME NEW s, NEW base \in Nat, CallOK(s, base), PeerOK, s.rl.alert_data = NoAlert,
           s.rd.rbio \in Seq(Wire), ContentOK(s.rd.rcontent), s.rd.rcontent.data = << >>,
           Answered(s.rl, s.rd)
    PROVE  LET t == tls13_record_layer_read_record(s)
           IN  IF t.rl.ret = "SUCCESS" THEN Filled(t) ELSE Rests(t)
<1> DEFINE t == tls13_record_layer_read_record(s)
           rec == Head(s.rd.rbio)
           o == [s.rd EXCEPT !.rbio = Tail(@), !.seq = @ + 1]
           c == [ct |-> rec.ct, data |-> rec.body]
           f == [o EXCEPT !.rcontent = c]
           a == [s.rd EXCEPT !.alert = TLS13_ALERT_RECORD_OVERFLOW]
           so == State(s.rl, o, s.app)
           sf == State(s.rl, f, s.app)
           sa == State(s.rl, a, s.app)
<1>1. RdOK(s.rd) /\ MaxSeq \in Nat
  BY MaxSeqAssumption DEF CallOK
<1>2. CASE s.rd.rbio = << >>
  <2>1. t = Returns(s, "WANT_POLLIN")
    BY <1>2 DEF tls13_record_layer_read_record
  <2> QED BY <2>1, ReturnOwed DEF Rests
<1>3. CASE s.rd.rbio # << >>
  <2>1. rec \in Wire /\ rec = s.rd.rbio[1] /\ Tail(s.rd.rbio) \in Seq(Wire)
    BY <1>3
  <2>2. /\ rec.ct \in {"app", "handshake", "alert", "overflow", "unexpected"}
        /\ rec.ct = "app" => rec.body \in Seq(Nat)
        /\ rec.ct = "handshake" => rec.body \in Messages
        /\ rec.ct \in {"overflow", "unexpected"} => rec.body = << >>
    BY <2>1, WireFacts
  <2>3. rec.ct = "handshake" => rec.body # << >>
    BY <2>2, MessageFacts
  <2>4. Cardinality(Requests(s.rd.rbio)) =
            Cardinality(Requests(Tail(s.rd.rbio))) + (IF IsRequest(rec) THEN 1 ELSE 0)
    BY <1>3, <2>1, TailRequests
  <2>5. \/ t = Returns(s, "FAILURE")
        \/ t = Returns(sa, "FAILURE")
        \/ s.rd.seq # MaxSeq /\ rec.ct = "alert"
              /\ t = tls13_record_layer_process_alert(so, rec.body)
        \/ s.rd.seq # MaxSeq /\ rec.ct \in {"app", "handshake"} /\ t = Returns(sf, "SUCCESS")
        \/ s.rd.seq # MaxSeq /\ rec.ct \notin {"app", "handshake", "alert"}
              /\ t = SendsAlert(sf, TLS13_ALERT_UNEXPECTED_MESSAGE)
    BY <1>3, <2>3 DEF tls13_record_layer_read_record, Returns, State
  <2>6. /\ o.rbio = Tail(s.rd.rbio) /\ o.rcontent = s.rd.rcontent
        /\ f.rbio = Tail(s.rd.rbio) /\ f.rcontent = c
        /\ a.rbio = s.rd.rbio /\ a.rcontent = s.rd.rcontent
        /\ o.lost_requests = s.rd.lost_requests /\ f.lost_requests = s.rd.lost_requests
    BY <1>1 DEF RdOK
  <2>7. RdOK(a)
    BY <1>1 DEF RdOK, TLS13_ALERT_RECORD_OVERFLOW, NoAlert
  <2>8. ASSUME s.rd.seq # MaxSeq PROVE RdOK(o) /\ RdOK(f)
    <3>1. s.rd.seq + 1 \in 0 .. MaxSeq
      BY <1>1, <2>8 DEF RdOK
    <3>2. RdOK(o)
      BY <1>1, <3>1 DEF RdOK
    <3> HIDE DEF o
    <3> QED BY <3>2 DEF RdOK
  <2> HIDE DEF t, rec, o, f, a
  <2>9. CASE t = Returns(s, "FAILURE")
    BY <2>9, ReturnOwed DEF Rests, Fatal, t
  <2>10. CASE t = Returns(sa, "FAILURE")
    <3>1. CallOK(sa, base) /\ sa.rd = a
      BY <2>7 DEF CallOK, State
    <3> HIDE DEF sa
    <3>2. t.rd = a /\ t.rl.ret = "FAILURE"
      BY <2>10, <3>1, ReturnOwed
    <3> QED BY <2>6, <3>2 DEF Rests, Fatal, t
  <2>11. CASE s.rd.seq # MaxSeq /\ rec.ct = "alert"
              /\ t = tls13_record_layer_process_alert(so, rec.body)
    <3>1. CallOK(so, base) /\ so.rd = o /\ so.rl = s.rl
      BY <2>8, <2>11 DEF CallOK, State
    <3> HIDE DEF so
    <3>2. Answered(so.rl, so.rd)
      <4>1. ~IsRequest(rec)
        BY <2>11 DEF IsRequest, Carries
      <4>2. Cardinality(Requests(Tail(s.rd.rbio))) \in Nat
        BY <2>1, RequestsFinite
      <4>3. Cardinality(Requests(s.rd.rbio)) = Cardinality(Requests(Tail(s.rd.rbio)))
        BY <2>4, <4>1, <4>2
      <4> QED BY <2>6, <3>1, <4>3 DEF Answered, Open
    <3>3. t.rd = so.rd /\ t.rl.ret # "SUCCESS" /\ (t.rl.ret \in Fatal \/ Answered(t.rl, t.rd))
      BY <2>11, <3>1, <3>2, ProcessAlertRests
    <3> QED BY <2>1, <2>6, <3>1, <3>3 DEF Rests, t
  <2>12. CASE s.rd.seq # MaxSeq /\ rec.ct \in {"app", "handshake"} /\ t = Returns(sf, "SUCCESS")
    <3>1. CallOK(sf, base) /\ sf.rd = f /\ sf.rl = s.rl
      BY <2>8, <2>12 DEF CallOK, State
    <3> HIDE DEF sf
    <3>2. Held(c) /\ (Asks(c) <=> IsRequest(rec))
      BY <2>2, <2>3, <2>12 DEF Held, ContentOK, Asks, IsRequest
    <3>3. Owed(sf)
      <4>1. Cardinality(Requests(Tail(s.rd.rbio))) \in Nat
        BY <2>1, RequestsFinite
      <4>2. Tally(s.rl) \in Nat /\ s.rd.lost_requests \in Nat
        BY DEF CallOK, Kept, Good, RL, RdOK, Tally
      <4> HIDE DEF c
      <4> QED BY <2>4, <2>6, <3>1, <3>2, <4>1, <4>2 DEF Answered, Owed, Open
    <3> HIDE DEF c
    <3>4. t.rl.ret = "SUCCESS" /\ t.rd = f /\ Owed(t) /\ t.rl.alert_data = NoAlert
      BY <2>12, <3>1, <3>3, ReturnOwed
    <3> QED BY <2>1, <2>6, <3>2, <3>4 DEF Filled, t
  <2>13. CASE s.rd.seq # MaxSeq /\ rec.ct \notin {"app", "handshake", "alert"}
              /\ t = SendsAlert(sf, TLS13_ALERT_UNEXPECTED_MESSAGE)
    <3>1. CallOK(sf, base) /\ sf.rd = f
      BY <2>8, <2>13 DEF CallOK, State
    <3> HIDE DEF sf
    <3>2. ContentOK(c)
      BY <2>2, <2>13 DEF ContentOK
    <3>3. TLS13_ALERT_UNEXPECTED_MESSAGE \in 1 .. NoAlert - 1
      BY DEF TLS13_ALERT_UNEXPECTED_MESSAGE, NoAlert
    <3> HIDE DEF c
    <3>4. /\ t.rl.ret \in Fatal \/ Answered(t.rl, t.rd)
          /\ t.rl.ret # "SUCCESS" /\ t.rd = f
      BY <2>13, <3>1, <3>3, AlertRests
    <3> QED BY <2>1, <2>6, <3>2, <3>4 DEF Rests, t
  <2> QED BY <2>5, <2>9, <2>10, <2>11, <2>12, <2>13
<1> QED BY <1>2, <1>3

(* Reading up to the point where there is content. *)
LEMMA PullUpFills ==
    ASSUME NEW s, NEW base \in Nat, CallOK(s, base), Placed(s.rl), PeerOK,
           s.rd.rbio \in Seq(Wire), ContentOK(s.rd.rcontent), Answered(s.rl, s.rd)
    PROVE  LET t == PullUp(s)
           IN  IF t.rl.ret = "SUCCESS" THEN Filled(t) ELSE Rests(t)
<1> DEFINE l == tls13_record_layer_send_pending(s.rl)
           p == State(l, s.rd, s.app)
           t == PullUp(s)
<1>1. PendingSent(s.rl, l, base) /\ Settled(s.rl, l)
  BY SendPending, SendPendingSettles DEF CallOK, Kept, Ready
<1>2. \/ l.ret # "SUCCESS" /\ t = p
      \/ l.ret = "SUCCESS" /\ t = Returns(p, "EOF")
      \/ l.ret = "SUCCESS" /\ s.rd.rcontent.data = << >> /\ t = tls13_record_layer_read_record(p)
      \/ l.ret = "SUCCESS" /\ t = p
  BY DEF PullUp, AfterPending, State
<1> HIDE DEF l, t
<1>3. CallOK(p, base) /\ p.rl = l /\ p.rd = s.rd
  BY <1>1 DEF PendingSent, CallOK, State
<1> HIDE DEF p
<1>4. Answered(p.rl, p.rd)
  BY <1>1, <1>3 DEF Settled, PendingSent, Monotone, Answered
<1>5. Owed(p) /\ Held(p.rd.rcontent)
  BY <1>3, <1>4, RestsOwed
<1>6. CASE l.ret # "SUCCESS" /\ t = p
  BY <1>3, <1>4, <1>6 DEF Rests, t
<1>7. CASE l.ret = "SUCCESS" /\ t = p
  <2>1. p.rl.alert_data = NoAlert
    BY <1>1, <1>3, <1>7 DEF Settled
  <2> QED BY <1>3, <1>5, <1>7, <2>1 DEF Filled, t
<1>8. CASE l.ret = "SUCCESS" /\ t = Returns(p, "EOF")
  <2>1. t.rl.ret = "EOF" /\ t.rd = p.rd /\ Answered(t.rl, t.rd)
    BY <1>3, <1>4, <1>8, ReturnOwed
  <2> QED BY <1>3, <2>1 DEF Rests, t
<1>9. CASE l.ret = "SUCCESS" /\ s.rd.rcontent.data = << >>
           /\ t = tls13_record_layer_read_record(p)
  <2>1. p.rl.alert_data = NoAlert
    BY <1>1, <1>3, <1>9 DEF Settled
  <2> QED BY <1>3, <1>4, <1>9, <2>1, ReadRecordFills DEF t
<1> QED BY <1>2, <1>6, <1>7, <1>8, <1>9

(* Whatever the callback returned, the request that is cleared with the     *)
(* message is counted as lost.                                              *)
LEMMA PhhReturnRests ==
    ASSUME NEW s, NEW base \in Nat, CallOK(s, base), s.rd.rbio \in Seq(Wire),
           s.rl.ret \in Fatal \/ Owed(s)
    PROVE  Rests(PhhReturn(s))
<1> DEFINE e == Lost(s.rd)
           d == [tls_content_clear(e) EXCEPT !.phh = s.rl.ret = "WANT_POLLIN"]
           t == State(s.rl, d, s.app)
           ret == IF PhhRetry THEN "WANT_RETRY" ELSE "WANT_POLLIN"
           n == IF Asks(s.rd.rcontent) THEN 1 ELSE 0
<1>1. RdOK(e) /\ e.rbio = s.rd.rbio /\ e.lost_requests = s.rd.lost_requests + n
  BY LostFields DEF CallOK
<1>2. PhhReturn(s) = IF s.rl.ret # "SUCCESS" THEN t ELSE Returns(t, ret)
  BY DEF PhhReturn, Returns, State
<1> HIDE DEF e
<1>3. /\ RdOK(d) /\ d.rbio = s.rd.rbio /\ d.rcontent = NoContent
      /\ d.lost_requests = s.rd.lost_requests + n
  BY <1>1 DEF RdOK, tls_content_clear
<1> HIDE DEF d, ret
<1>4. CallOK(t, base) /\ t.rl = s.rl /\ t.rd = d
  BY <1>3 DEF CallOK, State
<1> HIDE DEF t
<1>5. ContentOK(NoContent)
  BY DEF ContentOK, NoContent
<1>6. t.rl.ret \in Fatal \/ Answered(t.rl, t.rd)
  <2>1. Open(d) = Open(s.rd) + n
    <3>1. Cardinality(Requests(s.rd.rbio)) \in Nat /\ s.rd.lost_requests \in Nat /\ n \in Nat
      BY RequestsFinite DEF CallOK, RdOK
    <3> HIDE DEF n
    <3> QED BY <1>3, <3>1 DEF Open
  <2>2. Tally(s.rl) \in Nat /\ Open(s.rd) \in Nat /\ n \in Nat
    BY CountsAreNumbers
  <2>3. s.rl.write_closed \/ Err(s.rl) \/ s.rl.ret \in Fatal
        \/ peer.requests = Tally(s.rl) + Open(s.rd) + n
    BY DEF Owed
  <2> HIDE DEF n
  <2> QED BY <1>4, <2>1, <2>2, <2>3 DEF Answered
<1>7. CASE s.rl.ret # "SUCCESS"
  BY <1>2, <1>3, <1>4, <1>5, <1>6, <1>7 DEF Rests
<1>8. CASE s.rl.ret = "SUCCESS"
  <2>1. Answered(t.rl, t.rd)
    BY <1>4, <1>6, <1>8 DEF Fatal
  <2>2. Returns(t, ret).rd = d /\ Answered(Returns(t, ret).rl, Returns(t, ret).rd)
    BY <1>4, <2>1, ReturnOwed
  <2> QED BY <1>2, <1>3, <1>5, <1>8, <2>2 DEF Rests
<1> QED BY <1>7, <1>8

(* A KeyUpdate that asks for a reply gets one, now or later. *)
LEMMA PhhMessageRests ==
    ASSUME NEW s, NEW msg, NEW base \in Nat, CallOK(s, base), Placed(s.rl),
           s.rd.rbio \in Seq(Wire), s.rl.alert_data = NoAlert,
           \/ s.rl.write_closed
           \/ peer.requests = Tally(s.rl) + Open(s.rd)
                              + (IF Asks(s.rd.rcontent) THEN 1 ELSE 0)
                              + (IF msg = "key_update_requested" THEN 1 ELSE 0)
    PROVE  LET t == PhhMessage(s, msg)
           IN  t.rd.rbio = s.rd.rbio /\ (t.rl.ret \in Fatal \/ Owed(t))
<1> DEFINE t == PhhMessage(s, msg)
           d == [s.rd EXCEPT !.gen = @ + 1, !.seq = 0]
           q == tls13_record_layer_phh([s.rl EXCEPT !.key_update_request = TRUE])
           sd == State(s.rl, d, s.app)
           n == IF Asks(s.rd.rcontent) THEN 1 ELSE 0
<1>1. Tally(s.rl) \in Nat /\ Open(s.rd) \in Nat /\ n \in Nat
  BY CountsAreNumbers
<1>2. /\ RdOK(d) /\ d.rbio = s.rd.rbio /\ d.rcontent = s.rd.rcontent
      /\ d.lost_requests = s.rd.lost_requests
  BY MaxSeqAssumption DEF CallOK, RdOK
<1>3. Open(d) = Open(s.rd)
  <2> HIDE DEF d
  <2> QED BY <1>2 DEF Open
<1>4. \/ s.rl.write_closed
      \/ peer.requests = Tally(s.rl) + Open(s.rd) + n
                         + (IF msg = "key_update_requested" THEN 1 ELSE 0)
  OBVIOUS
<1> HIDE DEF n
<1>5. ASSUME msg # "key_update_requested" PROVE Owed(s)
  BY <1>1, <1>4, <1>5 DEF Owed, n
<1>6. CASE msg = "key_update_requested"
  <2>1. t = State(q, d, s.app)
    BY <1>6 DEF PhhMessage, tls13_key_update_recv
  <2>2. q.ret = "FAILURE" \/ Tally(q) = Tally(s.rl) + 1
    BY PhhSettles DEF CallOK, Kept, Ready
  <2>3. s.rl.write_closed => q.write_closed
    BY PhhKeeps DEF CallOK, Kept, Ready, Monotone
  <2> HIDE DEF q, d, t
  <2>4. t.rl = q /\ t.rd = d
    BY <2>1 DEF State
  <2>5. q.ret = "FAILURE" \/ q.write_closed \/ peer.requests = Tally(q) + Open(d) + n
    BY <1>1, <1>3, <1>4, <1>6, <2>2, <2>3
  <2>6. q.ret \in Fatal \/ Owed(t)
    BY <1>2, <2>4, <2>5 DEF Owed, Fatal, n
  <2> QED BY <1>2, <2>4, <2>6 DEF t
<1>7. CASE msg = "key_update_not_requested"
  <2>1. t = Returns(sd, "SUCCESS")
    BY <1>7 DEF PhhMessage, tls13_key_update_recv, Returns, State
  <2>2. CallOK(sd, base) /\ sd.rl = s.rl /\ sd.rd = d
    <3> HIDE DEF d
    <3> QED BY <1>2 DEF CallOK, State
  <2> HIDE DEF sd, d, t
  <2>3. Owed(sd)
    BY <1>2, <1>3, <1>5, <1>7, <2>2 DEF Owed
  <2> QED BY <1>2, <2>1, <2>2, <2>3, ReturnOwed DEF t
<1>8. CASE msg = "key_update_illegal"
  <2>1. t = SendsAlert(s, TLS13_ALERT_ILLEGAL_PARAMETER)
    BY <1>8 DEF PhhMessage
  <2>2. TLS13_ALERT_ILLEGAL_PARAMETER \in 1 .. NoAlert - 1
    BY DEF TLS13_ALERT_ILLEGAL_PARAMETER, NoAlert
  <2> HIDE DEF t
  <2> QED BY <2>1, <2>2, AlertRests DEF t
<1>9. CASE msg = "new_session_ticket"
  <2>1. t = Returns(s, "SUCCESS")
    BY <1>9 DEF PhhMessage, tls13_new_session_ticket_recv
  <2> HIDE DEF t
  <2> QED BY <1>5, <1>9, <2>1, ReturnOwed DEF t
<1>10. CASE msg \notin {"key_update_requested", "key_update_not_requested",
                      "key_update_illegal", "new_session_ticket"}
  <2>1. t = Returns(s, "FAILURE")
    BY <1>10 DEF PhhMessage
  <2> HIDE DEF t
  <2> QED BY <2>1, ReturnOwed DEF Fatal, t
<1> QED BY <1>6, <1>7, <1>8, <1>9, <1>10

(* The content holds a message or application data. *)
LEMMA HeldFacts ==
    ASSUME NEW c, Held(c), c.data # << >>
    PROVE  /\ DOMAIN c = {"ct", "data"}
           /\ c.ct = "handshake" =>
                 /\ c.data \in Messages /\ Head(c.data) = c.data[1]
                 /\ c.data[1].part \in {"whole", "first", "last"}
                 /\ c.data[1].part = "first" \/ c.data[1].msg \in KeyUpdates =>
                       Tail(c.data) = << >>
                 /\ \A msgs : Carries("handshake", c.data, msgs) <=>
                       \/ c.data[1].msg \in msgs /\ c.data[1].part # "first"
                       \/ Carries("handshake", Tail(c.data), msgs)
           /\ c.ct # "handshake" => c.ct = "app" /\ c.data \in Seq(Nat) /\ ContentOK(c)
<1>1. /\ DOMAIN c = {"ct", "data"}
      /\ c.ct = "handshake" => c.data \in Messages
      /\ c.ct # "handshake" => c.ct = "app" /\ c.data \in Seq(Nat) /\ ContentOK(c)
  BY DEF Held, ContentOK
<1> QED BY <1>1, MessageFacts

(* tls13_handshake_msg_recv, for a whole message, a first fragment or a     *)
(* last one.                                                                *)
LEMMA MsgRecvRests ==
    ASSUME NEW s, NEW base \in Nat, CallOK(s, base), Placed(s.rl), Filled(s),
           s.rd.rcontent.ct = "handshake", s.rd.rcontent.data # << >>
    PROVE  Rests(tls13_handshake_msg_recv(s))
<1> DEFINE c == s.rd.rcontent
           item == Head(c.data)
           b == [c EXCEPT !.data = Tail(@)]
           d == [s.rd EXCEPT !.rcontent.data = Tail(@), !.hs_msg = item.part = "first"]
           t == State(s.rl, d, s.app)
           m == PhhMessage(t, item.msg)
<1>1. /\ s.rd.rbio \in Seq(Wire) /\ Held(c) /\ Owed(s) /\ s.rl.alert_data = NoAlert
      /\ RdOK(s.rd) /\ ~Err(s.rl) /\ c.ct = "handshake"
  BY DEF CallOK, Filled, Err
<1>2. /\ DOMAIN c = {"ct", "data"} /\ item = c.data[1]
      /\ item.part = "first" \/ item.msg \in KeyUpdates => Tail(c.data) = << >>
      /\ \A msgs : Carries("handshake", c.data, msgs) <=>
            \/ item.msg \in msgs /\ item.part # "first"
            \/ Carries("handshake", Tail(c.data), msgs)
  <2> HIDE DEF c
  <2> QED BY <1>1, HeldFacts DEF c
<1>3. d.rbio = s.rd.rbio /\ d.rcontent = b /\ d.lost_requests = s.rd.lost_requests
  BY <1>1 DEF RdOK
<1>4. RdOK(d)
  BY <1>1 DEF RdOK
<1>5. tls13_handshake_msg_recv(s) =
          IF item.part = "first" THEN Returns(t, "NESTED") ELSE PhhReturn(m)
  BY DEF tls13_handshake_msg_recv, Returns, State
<1> HIDE DEF d
<1>6. CallOK(t, base) /\ Placed(t.rl) /\ t.rl = s.rl /\ t.rd = d
  BY <1>4 DEF CallOK, State
<1> HIDE DEF t
<1>7. Tally(s.rl) \in Nat /\ Open(s.rd) \in Nat /\ Open(d) = Open(s.rd)
  BY <1>1, <1>3, CountsAreNumbers DEF Open
<1>8. b.ct = "handshake" /\ b.data = Tail(c.data) /\ DOMAIN b = {"ct", "data"}
  BY <1>1, <1>2
<1>9. CASE item.part = "first"
  <2>1. ContentOK(b)
    BY <1>2, <1>8, <1>9 DEF ContentOK
  <2>2. ~Asks(c)
    <3>1. ~Carries("handshake", Tail(c.data), {"key_update_requested"})
      BY <1>2, <1>9 DEF Carries
    <3> HIDE DEF c, item
    <3> QED BY <1>1, <1>2, <1>9, <3>1 DEF Asks
  <2> HIDE DEF b, c, item
  <2>3. Answered(t.rl, t.rd)
    BY <1>1, <1>6, <1>7, <2>2 DEF Answered, Owed, c
  <2>4. Returns(t, "NESTED").rd = d /\ Answered(Returns(t, "NESTED").rl, Returns(t, "NESTED").rd)
    BY <1>6, <2>3, ReturnOwed
  <2> QED BY <1>1, <1>3, <1>5, <1>9, <2>1, <2>4 DEF Rests
<1>10. CASE item.part # "first"
  <2>1. /\ Asks(c) <=> item.msg = "key_update_requested" \/ Asks(b)
        /\ ~(item.msg = "key_update_requested" /\ Asks(b))
    <3> HIDE DEF b, item, c
    <3>1. Asks(c) <=> item.msg = "key_update_requested" \/ Asks(b)
      BY <1>1, <1>2, <1>8, <1>10 DEF Asks
    <3>2. ASSUME item.msg = "key_update_requested" PROVE ~Asks(b)
      BY <1>2, <1>8, <3>2 DEF Asks, Carries, KeyUpdates
    <3> QED BY <3>1, <3>2
  <2> HIDE DEF b, item, c
  <2>2. \/ t.rl.write_closed
        \/ peer.requests = Tally(t.rl) + Open(t.rd) + (IF Asks(t.rd.rcontent) THEN 1 ELSE 0)
                           + (IF item.msg = "key_update_requested" THEN 1 ELSE 0)
    BY <1>1, <1>3, <1>6, <1>7, <2>1 DEF Owed, c
  <2>3. m.rd.rbio = t.rd.rbio /\ (m.rl.ret \in Fatal \/ Owed(m))
    BY <1>1, <1>3, <1>6, <2>2, PhhMessageRests
  <2>4. CallOK(m, base)
    BY <1>6, PhhMessageStep DEF ReadStep
  <2> HIDE DEF m
  <2>5. Rests(PhhReturn(m))
    BY <1>1, <1>3, <1>6, <2>3, <2>4, PhhReturnRests
  <2> QED BY <1>5, <1>10, <2>5
<1> QED BY <1>9, <1>10

(* tls13_record_layer_recv_phh, below the limit on messages and above it. *)
LEMMA RecvPhhRests ==
    ASSUME NEW s, NEW base \in Nat, CallOK(s, base), Placed(s.rl), Filled(s),
           s.rd.rcontent.ct = "handshake", s.rd.rcontent.data # << >>
    PROVE  Rests(tls13_record_layer_recv_phh(s))
<1> DEFINE d == [s.rd EXCEPT !.phh = TRUE]
           c == PhhCounted(d)
           t == State(s.rl, d, s.app)
           u == State(s.rl, c, s.app)
           a == SendsAlert(t, TLS13_ALERT_UNEXPECTED_MESSAGE)
<1>1. /\ RdOK(d) /\ d.rbio = s.rd.rbio /\ d.rcontent = s.rd.rcontent
      /\ d.lost_requests = s.rd.lost_requests
  BY DEF CallOK, RdOK
<1>2. /\ RdOK(c) /\ c.rbio = s.rd.rbio /\ c.rcontent = s.rd.rcontent
      /\ c.lost_requests = s.rd.lost_requests
  <2> HIDE DEF d
  <2> QED BY <1>1 DEF RdOK, PhhCounted
<1>3. tls13_record_layer_recv_phh(s) =
          IF ~tls13_phh_limit_check(d) THEN PhhReturn(a) ELSE tls13_handshake_msg_recv(u)
  BY DEF tls13_record_layer_recv_phh, tls13_phh_received_cb, State
<1> HIDE DEF d, c
<1>4. /\ CallOK(t, base) /\ t.rd = d
      /\ CallOK(u, base) /\ u.rd = c /\ u.rl = s.rl
  BY <1>1, <1>2 DEF CallOK, State
<1> HIDE DEF t, u
<1>5. Rests(tls13_handshake_msg_recv(u))
  <2>1. Filled(u)
    BY <1>2, <1>4 DEF Filled, Owed, Open
  <2> QED BY <1>2, <1>4, <2>1, MsgRecvRests
<1>6. Rests(PhhReturn(a))
  <2>1. TLS13_ALERT_UNEXPECTED_MESSAGE \in 1 .. NoAlert - 1
    BY DEF TLS13_ALERT_UNEXPECTED_MESSAGE, NoAlert
  <2>2. (a.rl.ret \in Fatal \/ Owed(a)) /\ a.rd = d
    BY <1>4, <2>1, AlertRests
  <2>3. CallOK(a, base)
    BY <1>4, AlertStep DEF ReadStep, TLS13_ALERT_UNEXPECTED_MESSAGE, NoAlert
  <2> HIDE DEF a
  <2> QED BY <1>1, <2>2, <2>3, PhhReturnRests DEF Filled
<1> QED BY <1>3, <1>5, <1>6

(* Reading application data, or looking at it, leaves the requests alone. *)
LEMMA ContentReadRests ==
    ASSUME NEW s, NEW n \in Nat, NEW peek, NEW base \in Nat, CallOK(s, base), Filled(s),
           s.rd.rcontent.ct # "handshake", s.rd.rcontent.data # << >>
    PROVE  Rests(tls_content_read(s, n, peek))
<1> DEFINE data == s.rd.rcontent.data
           k == IF n < Len(data) THEN n ELSE Len(data)
           c == [s.rd.rcontent EXCEPT !.data = SubSeq(data, k + 1, Len(data))]
           d == [s.rd EXCEPT !.rcontent.data = SubSeq(data, k + 1, Len(data))]
           b == [s.app EXCEPT !.consumed = @ + k]
           l == Return(s.rl, "SUCCESS")
           r == Returns(s, "SUCCESS")
<1>1. /\ DOMAIN s.rd.rcontent = {"ct", "data"} /\ s.rd.rcontent.ct = "app"
      /\ data \in Seq(Nat) /\ ContentOK(s.rd.rcontent)
  BY HeldFacts DEF Filled
<1>2. Len(data) \in Nat /\ k \in Nat /\ SubSeq(data, k + 1, Len(data)) \in Seq(Nat)
  BY <1>1, SubSeqProperties
<1>3. c.ct = "app" /\ c.data \in Seq(Nat) /\ DOMAIN c = {"ct", "data"}
  BY <1>1, <1>2
<1>4. d.rcontent = c /\ d.rbio = s.rd.rbio /\ d.lost_requests = s.rd.lost_requests
  BY DEF CallOK, RdOK
<1>5. tls_content_read(s, n, peek) = IF peek THEN r ELSE State(l, d, b)
  BY DEF tls_content_read
<1>6. Owed(s) /\ s.rd.rbio \in Seq(Wire)
  BY DEF Filled
<1>7. Answered(s.rl, s.rd)
  BY <1>1, <1>6, RestsOwed
<1>8. /\ r.rd = s.rd /\ Answered(r.rl, r.rd) /\ r.rl = l
  <2>1. r.rl = l
    BY DEF Returns, State
  <2> HIDE DEF l
  <2> QED BY <1>7, <2>1, ReturnOwed
<1> HIDE DEF c, d, b, l, r, k
<1>9. ContentOK(c)
  BY <1>3 DEF ContentOK
<1>10. Rests(r)
  BY <1>1, <1>6, <1>8 DEF Rests
<1>11. Rests(State(l, d, b))
  BY <1>4, <1>6, <1>8, <1>9 DEF Rests, State, Answered, Open
<1> QED BY <1>5, <1>10, <1>11

(* What may be left to a call that goes on or starts. *)
Begins(s) ==
    PeerOK /\ s.rd.rbio \in Seq(Wire) /\ ContentOK(s.rd.rcontent) /\ Answered(s.rl, s.rd)

(* tls13_record_layer_read_internal as a whole. *)
LEMMA ReadInternalRests ==
    ASSUME NEW s, NEW n \in Nat, NEW peek, NEW base \in Nat, CallOK(s, base), Placed(s.rl),
           Begins(s)
    PROVE  Rests(tls13_record_layer_read_internal(s, n, peek))
<1> DEFINE t == PullUp(s)
           i == tls13_record_layer_read_internal(s, n, peek)
<1>1. CallOK(t, base) /\ (IF t.rl.ret = "SUCCESS" THEN Filled(t) ELSE Rests(t))
  BY PullUpStep, PullUpFills DEF ReadStep, Begins
<1>2. \/ t.rl.ret # "SUCCESS" /\ i = t
      \/ /\ t.rl.ret = "SUCCESS"
         /\ \/ t.rd.rcontent.data = << >> /\ i = Returns(t, "WANT_POLLIN")
            \/ /\ t.rd.rcontent.data # << >> /\ t.rd.rcontent.ct = "handshake"
               /\ i = tls13_record_layer_recv_phh(t)
            \/ /\ t.rd.rcontent.data # << >> /\ t.rd.rcontent.ct # "handshake"
               /\ \/ i = SendsAlert(t, TLS13_ALERT_UNEXPECTED_MESSAGE)
                  \/ i = tls_content_read(t, n, peek)
  BY DEF tls13_record_layer_read_internal, UseContent
<1> HIDE DEF t, i
<1>3. CASE t.rl.ret # "SUCCESS" /\ i = t
  BY <1>1, <1>3 DEF i
<1>4. CASE t.rl.ret = "SUCCESS"
  <2>1. Filled(t) /\ Placed(t.rl)
    BY <1>1, <1>4, KeptReady DEF CallOK, Ready
  <2>2. CASE t.rd.rcontent.data = << >> /\ i = Returns(t, "WANT_POLLIN")
    <3>1. ContentOK(t.rd.rcontent)
      BY <2>1, <2>2, MessageFacts DEF Filled, Held
    <3>2. Answered(t.rl, t.rd)
      BY <1>1, <2>1, <3>1, RestsOwed DEF Filled
    <3>3. i.rd = t.rd /\ Answered(i.rl, i.rd)
      BY <1>1, <2>2, <3>2, ReturnOwed
    <3> QED BY <2>1, <3>1, <3>3 DEF Rests, Filled, i
  <2>3. CASE /\ t.rd.rcontent.data # << >> /\ t.rd.rcontent.ct = "handshake"
             /\ i = tls13_record_layer_recv_phh(t)
    BY <1>1, <2>1, <2>3, RecvPhhRests DEF i
  <2>4. CASE /\ t.rd.rcontent.data # << >> /\ t.rd.rcontent.ct # "handshake"
             /\ i = SendsAlert(t, TLS13_ALERT_UNEXPECTED_MESSAGE)
    <3>1. ContentOK(t.rd.rcontent)
      BY <2>1, <2>4, HeldFacts DEF Filled
    <3>2. TLS13_ALERT_UNEXPECTED_MESSAGE \in 1 .. NoAlert - 1
      BY DEF TLS13_ALERT_UNEXPECTED_MESSAGE, NoAlert
    <3>3. i.rd = t.rd /\ (i.rl.ret \in Fatal \/ Answered(i.rl, i.rd))
      BY <1>1, <2>4, <3>2, AlertRests
    <3> QED BY <2>1, <3>1, <3>3 DEF Rests, Filled, i
  <2>5. CASE /\ t.rd.rcontent.data # << >> /\ t.rd.rcontent.ct # "handshake"
             /\ i = tls_content_read(t, n, peek)
    BY <1>1, <2>1, <2>5, ContentReadRests DEF i
  <2> QED BY <1>2, <1>4, <2>2, <2>3, <2>4, <2>5
<1> QED BY <1>2, <1>3, <1>4

(* The alert sent after the loop. *)
LEMMA AfterLoopRests ==
    ASSUME NEW s, NEW base \in Nat, CallOK(s, base), Rests(s)
    PROVE  Rests(AfterLoop(s))
<1>1. CASE AfterLoop(s) = s
  BY <1>1
<1>2. CASE s.rd.alert # 0 /\ AfterLoop(s) = SendsAlert(s, s.rd.alert)
  <2> DEFINE t == SendsAlert(s, s.rd.alert)
  <2>1. s.rd.alert \in 1 .. NoAlert - 1
    BY <1>2 DEF CallOK, RdOK, NoAlert
  <2>2. t.rd = s.rd /\ (t.rl.ret \in Fatal \/ Answered(t.rl, t.rd))
    BY <2>1, AlertRests
  <2> HIDE DEF t
  <2>3. Rests(t)
    BY <2>2 DEF Rests
  <2> QED BY <1>2, <2>3 DEF t
<1> QED BY <1>1, <1>2 DEF AfterLoop

(* The read inside tls13_phh_received_cb that waits for the rest of a       *)
(* message.                                                                 *)
LEMMA NestedReadRests ==
    ASSUME NEW s, NEW base \in Nat, CallOK(s, base), Placed(s.rl), Begins(s)
    PROVE  Rests(NestedRead(s))
<1> DEFINE t == PullUp(s)
           a == AfterLoop(t)
           w == Returns(t, "WANT_POLLIN")
           e == SendsAlert(t, TLS13_ALERT_UNEXPECTED_MESSAGE)
           x == NestedRead(s)
<1>1. CallOK(t, base) /\ (IF t.rl.ret = "SUCCESS" THEN Filled(t) ELSE Rests(t))
  BY PullUpStep, PullUpFills DEF ReadStep, Begins
<1>2. \/ t.rl.ret = "WANT_RETRY" /\ x = Returns(t, "NESTED")
      \/ t.rl.ret # "SUCCESS" /\ x = PhhReturn(a)
      \/ /\ t.rl.ret = "SUCCESS"
         /\ \/ t.rd.rcontent.data = << >> /\ x = PhhReturn(w)
            \/ x = PhhReturn(e)
            \/ /\ t.rd.rcontent.data # << >> /\ t.rd.rcontent.ct = "handshake"
               /\ x = tls13_handshake_msg_recv(t)
  BY DEF NestedRead, UseNestedContent
<1> HIDE DEF t, x
<1>3. CASE t.rl.ret = "WANT_RETRY" /\ x = Returns(t, "NESTED")
  <2>1. Rests(t) /\ Answered(t.rl, t.rd)
    BY <1>1, <1>3 DEF Rests, Fatal
  <2>2. x.rd = t.rd /\ Answered(x.rl, x.rd)
    BY <1>1, <1>3, <2>1, ReturnOwed
  <2> QED BY <2>1, <2>2 DEF Rests, x
<1>4. CASE t.rl.ret # "SUCCESS" /\ x = PhhReturn(a)
  <2>1. CallOK(a, base) /\ Rests(a)
    BY <1>1, <1>4, AfterLoopStep, AfterLoopRests DEF ReadStep
  <2> HIDE DEF a
  <2>2. a.rd.rbio \in Seq(Wire) /\ (a.rl.ret \in Fatal \/ Owed(a))
    BY <2>1, RestsOwed DEF Rests
  <2> QED BY <1>4, <2>1, <2>2, PhhReturnRests DEF x
<1>5. CASE t.rl.ret = "SUCCESS"
  <2>1. Filled(t) /\ Placed(t.rl)
    BY <1>1, <1>5, KeptReady DEF CallOK, Ready
  <2>2. CASE t.rd.rcontent.data = << >> /\ x = PhhReturn(w)
    <3>1. w.rd = t.rd /\ Owed(w)
      BY <1>1, <2>1, ReturnOwed DEF Filled
    <3>2. CallOK(w, base)
      BY <1>1, <2>1, ReturnsStep DEF ReadStep, Ret
    <3> HIDE DEF w
    <3> QED BY <2>1, <2>2, <3>1, <3>2, PhhReturnRests DEF Filled, x
  <2>3. CASE x = PhhReturn(e)
    <3>1. TLS13_ALERT_UNEXPECTED_MESSAGE \in 1 .. NoAlert - 1
      BY DEF TLS13_ALERT_UNEXPECTED_MESSAGE, NoAlert
    <3>2. e.rd = t.rd /\ (e.rl.ret \in Fatal \/ Owed(e))
      BY <1>1, <3>1, AlertRests
    <3>3. CallOK(e, base)
      BY <1>1, AlertStep DEF ReadStep, TLS13_ALERT_UNEXPECTED_MESSAGE, NoAlert
    <3> HIDE DEF e
    <3> QED BY <2>1, <2>3, <3>2, <3>3, PhhReturnRests DEF Filled, x
  <2>4. CASE /\ t.rd.rcontent.data # << >> /\ t.rd.rcontent.ct = "handshake"
             /\ x = tls13_handshake_msg_recv(t)
    BY <1>1, <2>1, <2>4, MsgRecvRests DEF x
  <2> QED BY <1>2, <1>5, <2>2, <2>3, <2>4
<1> QED BY <1>2, <1>3, <1>4, <1>5

(* An iteration of tls13_record_layer_read or tls13_record_layer_peek. *)
LEMMA ReadLayerRests ==
    ASSUME NEW s, NEW n \in Nat, NEW peek, NEW base \in Nat, CallOK(s, base), Placed(s.rl),
           Begins(s)
    PROVE  Rests(tls13_record_layer_read(s, n, peek))
<1> DEFINE t == IF s.rl.ret = "NESTED" THEN NestedRead(s)
                ELSE tls13_record_layer_read_internal(s, n, peek)
<1>1. CallOK(t, base) /\ Rests(t)
  BY NestedReadStep, ReadInternalStep, NestedReadRests, ReadInternalRests DEF ReadStep
<1>2. tls13_record_layer_read(s, n, peek) = AfterLoop(t)
  BY DEF tls13_record_layer_read
<1> HIDE DEF t
<1> QED BY <1>1, <1>2, AfterLoopRests

-----------------------------------------------------------------------------
(* The inductive invariant of the read side. *)

(* The start of a step. *)
LEMMA CurrentBegins ==
    ASSUME NEW room \in 0 .. RoomBound, Inv, ReadInv, rl.ret \notin Fatal
    PROVE  LET s == Current(room)
           IN  Begins(s) /\ Tally(s.rl) = Tally(rl) /\ (Err(s.rl) <=> Err(rl))
<1> DEFINE s == Current(room)
<1>1. s.rd = rd /\ SamePending(rl, s.rl)
  BY CurrentReady DEF Fatal
<1> HIDE DEF s
<1>2. Tally(s.rl) = Tally(rl) /\ (Err(s.rl) <=> Err(rl)) /\ s.rl.write_closed = rl.write_closed
  BY <1>1 DEF SamePending, Tally, Err
<1>3. Begins(s)
  BY <1>1, <1>2 DEF Begins, ReadInv, Answered
<1> QED BY <1>2, <1>3 DEF s

(* The end of a step. *)
LEMMA BecomesReads ==
    ASSUME NEW s, s.rl \in RL, PeerOK, Rests(s), Becomes(s)
    PROVE  ReadInv'
<1> DEFINE q == [s.rl EXCEPT !.room = 0]
<1>1. rl' = q /\ rd' = s.rd /\ peer' = peer
  BY DEF Becomes
<1>3. /\ Tally(q) = Tally(s.rl) /\ (Err(q) <=> Err(s.rl)) /\ q.ret = s.rl.ret
      /\ q.write_closed = s.rl.write_closed
  BY DEF RL, Tally, Err
<1> HIDE DEF q
<1>4. PeerOK'
  BY <1>1 DEF PeerOK
<1>5. (rl.ret \in Fatal \/ Answered(rl, rd))'
  BY <1>1, <1>3 DEF Rests, Answered
<1>6. (rd.rbio \in Seq(Wire) /\ ContentOK(rd.rcontent))'
  BY <1>1 DEF Rests
<1> QED BY <1>4, <1>5, <1>6 DEF ReadInv

(* The call in progress has no part in it. *)
LEMMA CallRests ==
    ASSUME NEW s, NEW a
    PROVE  Rests(State(s.rl, s.rd, a)) <=> Rests(s)
BY DEF Rests, State

(* An iteration of SSL_read or SSL_peek. *)
LEMMA ReadReads ==
    ASSUME NEW call, NEW n \in 1 .. 2, NEW room \in 0 .. RoomBound,
           Inv, ReadInv, rl.ret \notin Fatal, Read(call, n, room)
    PROVE  ReadInv'
<1> DEFINE base == app.acked + app.wnum
           c == Current(room)
           s == tls13_record_layer_read(c, n, call = "peek")
           a == [s.app EXCEPT !.call = IF Loops(s) THEN call ELSE "none"]
           t == State(s.rl, s.rd, a)
<1>1. base \in Nat /\ n \in Nat
  BY WriteLenAssumption DEF Inv, CallInv, AppOK
<1>2. CallOK(c, base) /\ Placed(c.rl) /\ Begins(c)
  BY CurrentReady, CurrentBegins DEF Fatal
<1> HIDE DEF c
<1>3. CallOK(s, base) /\ Rests(s)
  BY <1>1, <1>2, ReadLayerStep, ReadLayerRests DEF ReadStep
<1>4. Becomes(t)
  BY DEF Read, GoesOn, SetCall, c
<1> HIDE DEF s, a
<1>5. t.rl \in RL /\ Rests(t)
  BY <1>3, CallRests DEF CallOK, Kept, Good, State
<1> HIDE DEF t
<1> QED BY <1>4, <1>5, BecomesReads DEF ReadInv

(* An iteration of SSL_write. *)
LEMMA WriteReads ==
    ASSUME NEW room \in 0 .. RoomBound, Inv, ReadInv, rl.ret \notin Fatal, Write(room)
    PROVE  ReadInv'
<1> DEFINE base == app.acked + app.wnum
           c == Current(room)
           l == tls13_record_layer_write(c.rl, base + 1)
<1>1. base \in Nat
  BY WriteLenAssumption DEF Inv, CallInv, AppOK
<1>2. CallOK(c, base) /\ Placed(c.rl) /\ Begins(c) /\ c.rd = rd
  BY CurrentReady, CurrentBegins DEF Fatal
<1>3. PICK a : Becomes(State(l, rd, a))
  BY DEF Write
<1> HIDE DEF c
<1>4. /\ Monotone(c.rl, l) /\ Settled(c.rl, l)
      /\ l.ret = "SUCCESS" => Ready(l, base + 1)
      /\ l.ret # "SUCCESS" => Kept(l, base)
  BY <1>1, <1>2, WriteKeeps, WriteSettles DEF CallOK, Kept, Ready
<1> HIDE DEF l
<1>5. l \in RL
  BY <1>4 DEF Ready, Kept, Good
<1>6. l.ret \in Fatal \/ Answered(l, rd)
  BY <1>2, <1>4 DEF Settled, Monotone, Begins, Answered, Fatal
<1> DEFINE t == State(l, rd, a)
<1>7. Rests(t) /\ t.rl = l
  BY <1>2, <1>6 DEF Rests, State, Begins
<1>8. Becomes(t)
  BY <1>3
<1> HIDE DEF t
<1> QED BY <1>5, <1>7, <1>8, BecomesReads DEF ReadInv

(* What sending a close_notify changes. *)
CloseSent(r, q) ==
    /\ Tally(q) = Tally(r) /\ (Err(q) <=> Err(r)) /\ (r.read_closed => q.read_closed)
    /\ Left(r, FALSE) /\ ~r.write_closed =>
          Left(q, TRUE) /\ q.ret \in {"SUCCESS", "EOF", "WANT_POLLOUT", "FAILURE"}

(* The close_notify of SSL_shutdown, which gives way to a pending alert. *)
LEMMA CloseSettles ==
    ASSUME NEW r, NEW base \in Nat, Kept(r, base)
    PROVE  CloseSent(r, tls13_send_alert(r, TLS13_ALERT_CLOSE_NOTIFY))
<1> DEFINE q == tls13_send_alert(r, TLS13_ALERT_CLOSE_NOTIFY)
           p == [r EXCEPT !.alert_data = TLS13_ALERT_CLOSE_NOTIFY]
<1>1. r \in RL /\ Good(r, base)
  BY DEF Kept, Good
<1>2. CASE r.alert_data # NoAlert
  <2>1. q = [r EXCEPT !.ret = "FAILURE"]
    BY <1>2 DEF tls13_send_alert, tls13_record_layer_enqueue_alert, Return
  <2>2. /\ q.ret = "FAILURE" /\ q.alert_data = r.alert_data /\ q.phh_data = r.phh_data
        /\ q.gen = r.gen /\ q.read_closed = r.read_closed /\ q.wrec = r.wrec /\ q.seq = r.seq
        /\ q.write_closed = r.write_closed
    BY <1>1, <2>1 DEF RL
  <2> HIDE DEF q
  <2> QED BY <2>2 DEF CloseSent, Tally, Err, Left, q
<1>3. CASE r.alert_data = NoAlert
  <2>1. Placed(r)
    BY <1>3 DEF Kept
  <2>2. q = tls13_record_layer_send_pending(p)
    BY <1>3 DEF tls13_send_alert, tls13_record_layer_enqueue_alert
  <2>3. p \in RL
    BY <1>1 DEF RL, NoAlert, TLS13_ALERT_CLOSE_NOTIFY
  <2>4. /\ SameRecords(r, p) /\ p.write_closed = r.write_closed
        /\ p.alert_data = TLS13_ALERT_CLOSE_NOTIFY /\ p.read_closed = r.read_closed
        /\ p.phh_data = r.phh_data /\ p.wrec = r.wrec /\ p.seq = r.seq /\ p.gen = r.gen
    BY <1>1 DEF RL, SameRecords
  <2> HIDE DEF p, q
  <2>5. Ready(p, base)
    BY <1>1, <2>1, <2>3, <2>4, SameRecordsGood DEF Ready
  <2>6. ~Err(p) /\ ~Err(r) /\ Tally(p) = Tally(r)
    BY <1>3, <2>4 DEF Err, Tally
  <2>7. /\ Settled(p, q)
        /\ \A sent \in BOOLEAN :
              Left(p, sent) /\ (p.write_closed => sent) => SettledLeft(p, q, sent)
    BY <2>2, <2>5, SendPendingSettles
  <2>8. ASSUME Left(r, FALSE), ~r.write_closed
        PROVE  Left(q, TRUE) /\ q.ret \in {"SUCCESS", "EOF", "WANT_POLLOUT", "FAILURE"}
    <3>1. Left(p, TRUE)
      BY <2>4, <2>6, <2>8 DEF Left, TLS13_ALERT_CLOSE_NOTIFY, NoAlert
    <3> QED BY <2>6, <2>7, <3>1 DEF SettledLeft
  <2> QED BY <2>4, <2>6, <2>7, <2>8 DEF CloseSent, Settled, q
<1> QED BY <1>2, <1>3

(* Once the write channel is closed there is nothing to answer. *)
LEMMA ShutdownReadRests ==
    ASSUME NEW s, NEW base \in Nat, CallOK(s, base), s.rl.write_closed, PeerOK,
           s.rd.rbio \in Seq(Wire), ContentOK(s.rd.rcontent)
    PROVE  Rests(ShutdownRead(s)) /\ ShutdownRead(s).rl \in RL
<1> DEFINE n == Len(s.rd.rcontent.data) + 512
           t == tls13_record_layer_read(s, n, FALSE)
           ret == IF "received" \in t.app.shutdown THEN "SUCCESS" ELSE "AGAIN"
           u == Returns(t, ret)
           x == ShutdownRead(s)
<1>1. n \in Nat
  <2>1. s.rd.rcontent.data = << >> \/ s.rd.rcontent.data \in Seq(Nat)
    BY DEF ContentOK
  <2>2. Len(s.rd.rcontent.data) \in Nat
    BY <2>1
  <2> QED BY <2>2
<1> HIDE DEF n
<1>2. Placed(s.rl) /\ Begins(s)
  BY DEF Placed, Begins, Answered
<1>3. CallOK(t, base) /\ t.rl.write_closed /\ Rests(t)
  BY <1>1, <1>2, ReadLayerStep, ReadLayerRests DEF ReadStep, Monotone
<1>4. \/ x = State(t.rl, t.rd, [t.app EXCEPT !.call = "shutdown"])
      \/ x = State(u.rl, u.rd, [u.app EXCEPT !.call = "none"])
  BY ZenonT(40) DEF ShutdownRead, ShutdownReturn, SetCall, n
<1> HIDE DEF t, x, ret
<1>5. u.rl.write_closed /\ u.rd = t.rd
  BY <1>3, ReturnOwed
<1>6. t.rl \in RL /\ u.rl \in RL
  <2>1. t.rl \in RL /\ ret \in Ret
    BY <1>3 DEF CallOK, Kept, Good, Ret, ret
  <2>2. u.rl = [t.rl EXCEPT !.ret = ret]
    BY DEF Returns, Return, State
  <2> QED BY <2>1, <2>2, SMTT(30) DEF RL
<1> HIDE DEF u
<1>7. Rests(u)
  BY <1>3, <1>5 DEF Rests, Answered
<1>8. x.rl \in RL
  BY <1>4, <1>6 DEF State
<1> QED BY <1>3, <1>4, <1>7, <1>8, CallRests DEF x

(* SSL_shutdown, first call or later. *)
LEMMA ShutdownReads ==
    ASSUME NEW room \in 0 .. RoomBound, Inv, ReadInv, SSL_shutdown(room)
    PROVE  ReadInv'
<1> DEFINE base == app.acked + app.wnum
           s == Current(room)
           first == "sent" \notin s.app.shutdown
           b == [s.app EXCEPT !.shutdown = @ \cup {"sent"}]
           q == tls13_send_alert(s.rl, TLS13_ALERT_CLOSE_NOTIFY)
           p == tls13_record_layer_send_pending(s.rl)
           tried == IF first THEN State(q, s.rd, b) ELSE State(p, s.rd, s.app)
           t == tls13_legacy_shutdown(s)
<1>1. base \in Nat
  BY WriteLenAssumption DEF Inv, CallInv, AppOK
<1>2. Becomes(t) /\ app.call = "none" /\ rl.ret \notin Fatal
  BY DEF SSL_shutdown, Idle
<1>3. /\ CallOK(s, base) /\ Placed(s.rl) /\ Begins(s) /\ s.app = app
      /\ SamePending(rl, s.rl)
  BY <1>2, CurrentReady, CurrentBegins DEF Fatal
<1> HIDE DEF s
<1>4. \/ t = tried
      \/ tried.rl.ret = "EOF" /\ t = Returns(tried, "AGAIN")
      \/ ~first /\ tried.rl.ret = "SUCCESS" /\ t = ShutdownRead(tried)
  BY DEF tls13_legacy_shutdown
<1> HIDE DEF t
<1>5. Kept(q, base) /\ Monotone(s.rl, q) /\ CloseSent(s.rl, q) /\ AppOK(b)
  <2>1. Kept(q, base) /\ Monotone(s.rl, q) /\ CloseSent(s.rl, q)
    BY <1>1, <1>3, SendAlertKeeps, CloseSettles DEF CallOK, TLS13_ALERT_CLOSE_NOTIFY, NoAlert
  <2> HIDE DEF q
  <2>2. AppOK(b)
    BY <1>3 DEF CallOK, AppOK
  <2> QED BY <2>1, <2>2
<1>6. PendingSent(s.rl, p, base) /\ Settled(s.rl, p)
  BY <1>1, <1>3, SendPending, SendPendingSettles DEF CallOK, Kept, Ready
<1> HIDE DEF q, p, b
<1>7. /\ CallOK(tried, base) /\ tried.rd = s.rd
      /\ ~first /\ tried.rl.ret = "SUCCESS" => tried.rl.write_closed
      /\ tried.rl.ret \in Fatal \/ Answered(tried.rl, s.rd)
  <2>1. CASE first
    <3>1. tried = State(q, s.rd, b)
      BY <2>1
    <3>2. q.ret \in Fatal \/ Answered(q, s.rd)
      BY <1>3, <1>5 DEF CloseSent, Monotone, Begins, Answered, Fatal
    <3> HIDE DEF tried
    <3> QED BY <1>3, <1>5, <2>1, <3>1, <3>2 DEF CallOK, State
  <2>2. CASE ~first
    <3>1. tried = State(p, s.rd, s.app)
      BY <2>2
    <3>2. Answered(p, s.rd)
      BY <1>3, <1>6 DEF Settled, PendingSent, Monotone, Begins, Answered
    <3>3. p.ret = "SUCCESS" => p.write_closed
      BY <1>3, <1>6, <2>2 DEF Inv, CallInv, Closing, SamePending, PendingSent, Monotone
    <3> HIDE DEF tried
    <3> QED BY <1>3, <1>6, <3>1, <3>2, <3>3 DEF CallOK, State, PendingSent
  <2> QED BY <2>1, <2>2
<1>8. s.rd.rbio \in Seq(Wire) /\ ContentOK(s.rd.rcontent) /\ PeerOK
  BY <1>3 DEF Begins
<1> HIDE DEF tried, first
<1>9. CASE t = tried
  BY <1>2, <1>7, <1>8, <1>9, BecomesReads DEF Rests, CallOK, Kept, Good
<1>10. CASE tried.rl.ret = "EOF" /\ t = Returns(tried, "AGAIN")
  <2>1. Answered(tried.rl, tried.rd)
    BY <1>7, <1>10 DEF Fatal
  <2>2. t.rd = s.rd /\ Answered(t.rl, t.rd)
    BY <1>1, <1>7, <1>10, <2>1, ReturnOwed
  <2>3. Placed(tried.rl)
    BY <1>7, <1>10 DEF CallOK, Kept
  <2>4. CallOK(t, base)
    BY <1>1, <1>7, <1>10, <2>3, ReturnsStep DEF ReadStep, Ret
  <2>5. Rests(t) /\ t.rl \in RL
    BY <1>8, <2>2, <2>4 DEF Rests, CallOK, Kept, Good
  <2> QED BY <1>2, <1>8, <2>5, BecomesReads
<1>11. CASE ~first /\ tried.rl.ret = "SUCCESS" /\ t = ShutdownRead(tried)
  <2>1. Rests(t) /\ t.rl \in RL
    BY <1>1, <1>7, <1>8, <1>11, ShutdownReadRests
  <2> QED BY <1>2, <1>8, <2>1, BecomesReads
<1> QED BY <1>4, <1>9, <1>10, <1>11

Item(msg, part) == [msg |-> msg, part |-> part]

(* What its handshake records begin with. *)
LEMMA HandshakeFacts ==
    /\ Handshakes["update"][1] = Item("key_update_not_requested", "whole")
    /\ Handshakes["update_request"][1] = Item("key_update_requested", "whole")
    /\ Handshakes["ticket"][1] = Item("new_session_ticket", "whole")
    /\ Handshakes["bad_update"][1] = Item("key_update_illegal", "whole")
    /\ Handshakes["bad_type"][1] = Item("certificate_request", "whole")
    /\ Handshakes["two_tickets"][1] = Item("new_session_ticket", "whole")
    /\ Handshakes["ticket_update"][1] = Item("new_session_ticket", "whole")
    /\ Handshakes["ticket_request"][1] = Item("new_session_ticket", "whole")
    /\ Handshakes["request_first"][1] = Item("key_update_requested", "first")
    /\ Handshakes["request_last"][1] = Item("key_update_requested", "last")
    /\ Handshakes["ticket_first"][1] = Item("new_session_ticket", "first")
    /\ Handshakes["ticket_last"][1] = Item("new_session_ticket", "last")
<1>1. \A msg, part : Fragment(msg, part)[1] = Item(msg, part)
  BY FragmentFacts DEF Item
<1>2. \A b : (Whole("new_session_ticket") \o Whole(b))[1] = Item("new_session_ticket", "whole")
  BY PairFacts DEF Item
<1>3. /\ Handshakes["two_tickets"][1] = Item("new_session_ticket", "whole")
      /\ Handshakes["ticket_update"][1] = Item("new_session_ticket", "whole")
      /\ Handshakes["ticket_request"][1] = Item("new_session_ticket", "whole")
  BY <1>2, HandshakeKinds, Zenon
<1>4. /\ Handshakes["update"][1] = Item("key_update_not_requested", "whole")
      /\ Handshakes["update_request"][1] = Item("key_update_requested", "whole")
      /\ Handshakes["ticket"][1] = Item("new_session_ticket", "whole")
      /\ Handshakes["bad_update"][1] = Item("key_update_illegal", "whole")
      /\ Handshakes["bad_type"][1] = Item("certificate_request", "whole")
  BY <1>1, HandshakeKinds, Zenon
<1>5. /\ Handshakes["request_first"][1] = Item("key_update_requested", "first")
      /\ Handshakes["request_last"][1] = Item("key_update_requested", "last")
      /\ Handshakes["ticket_first"][1] = Item("new_session_ticket", "first")
      /\ Handshakes["ticket_last"][1] = Item("new_session_ticket", "last")
  BY <1>1, HandshakeKinds, Zenon
<1> QED BY <1>3, <1>4, <1>5

(* Which of them carry a KeyUpdate, and which a request. *)
LEMMA CarriersOfUpdates ==
    ASSUME NEW kind \in DOMAIN Handshakes
    PROVE  /\ Carries("handshake", Handshakes[kind], KeyUpdates) <=>
                 kind \in {"update", "update_request", "request_last", "ticket_update",
                           "ticket_request"}
           /\ Carries("handshake", Handshakes[kind], {"key_update_requested"}) <=>
                 kind \in {"update_request", "request_last", "ticket_request"}
<1>1. \A msg, part, msgs :
          Carries("handshake", Fragment(msg, part), msgs) <=> msg \in msgs /\ part # "first"
  BY FragmentFacts
<1>2. \A a, b, msgs :
          Carries("handshake", Whole(a) \o Whole(b), msgs) <=> a \in msgs \/ b \in msgs
  BY PairFacts
<1>3. ASSUME NEW msg, NEW part, Handshakes[kind] = Fragment(msg, part)
      PROVE  /\ Carries("handshake", Handshakes[kind], KeyUpdates) <=>
                   msg \in KeyUpdates /\ part # "first"
             /\ Carries("handshake", Handshakes[kind], {"key_update_requested"}) <=>
                   msg = "key_update_requested" /\ part # "first"
  BY <1>1, <1>3
<1>4. ASSUME NEW a, NEW b, Handshakes[kind] = Whole(a) \o Whole(b)
      PROVE  /\ Carries("handshake", Handshakes[kind], KeyUpdates) <=>
                   a \in KeyUpdates \/ b \in KeyUpdates
             /\ Carries("handshake", Handshakes[kind], {"key_update_requested"}) <=>
                   a = "key_update_requested" \/ b = "key_update_requested"
  BY <1>2, <1>4
<1>5. CASE kind \in {"two_tickets", "ticket_update", "ticket_request"}
  <2>1. /\ kind = "two_tickets" =>
              Handshakes[kind] = Whole("new_session_ticket") \o Whole("new_session_ticket")
        /\ kind = "ticket_update" =>
              Handshakes[kind] = Whole("new_session_ticket") \o Whole("key_update_not_requested")
        /\ kind = "ticket_request" =>
              Handshakes[kind] = Whole("new_session_ticket") \o Whole("key_update_requested")
    BY HandshakeKinds, Zenon
  <2>2. CASE kind = "two_tickets"
    <3>1. /\ Carries("handshake", Handshakes[kind], KeyUpdates) <=>
                "new_session_ticket" \in KeyUpdates
          /\ Carries("handshake", Handshakes[kind], {"key_update_requested"}) <=>
                "new_session_ticket" = "key_update_requested"
      BY <1>4, <2>1, <2>2
    <3> QED BY <2>2, <3>1 DEF KeyUpdates
  <2>3. CASE kind = "ticket_update"
    <3>1. /\ Carries("handshake", Handshakes[kind], KeyUpdates) <=>
                "new_session_ticket" \in KeyUpdates \/ "key_update_not_requested" \in KeyUpdates
          /\ Carries("handshake", Handshakes[kind], {"key_update_requested"}) <=>
                \/ "new_session_ticket" = "key_update_requested"
                \/ "key_update_not_requested" = "key_update_requested"
      BY <1>4, <2>1, <2>3, Zenon
    <3> QED BY <2>3, <3>1 DEF KeyUpdates
  <2>4. CASE kind = "ticket_request"
    <3>1. /\ Carries("handshake", Handshakes[kind], KeyUpdates) <=>
                "new_session_ticket" \in KeyUpdates \/ "key_update_requested" \in KeyUpdates
          /\ Carries("handshake", Handshakes[kind], {"key_update_requested"}) <=>
                \/ "new_session_ticket" = "key_update_requested"
                \/ "key_update_requested" = "key_update_requested"
      BY <1>4, <2>1, <2>4, Zenon
    <3> QED BY <2>4, <3>1 DEF KeyUpdates
  <2> QED BY <1>5, <2>2, <2>3, <2>4
<1>6. CASE kind \in {"update", "update_request", "ticket", "bad_update", "bad_type"}
  BY <1>3, <1>6, HandshakeKinds DEF KeyUpdates
<1>7. CASE kind \in {"request_first", "request_last", "ticket_first", "ticket_last"}
  BY <1>3, <1>7, HandshakeKinds DEF KeyUpdates
<1> QED BY <1>5, <1>6, <1>7, HandshakeKinds

(* What the peer sends. *)
LEMMA PeerRecordFacts ==
    ASSUME NEW kind \in Kinds, PeerOK
    PROVE  LET rec == PeerRecord(kind)
           IN  /\ rec \in Wire /\ rec.gen = peer.gen /\ rec.seq = peer.seq
               /\ kind \in DOMAIN Units => rec.ct = "app"
               /\ kind \in DOMAIN Units => rec.body = [i \in 1 .. Units[kind] |-> peer.units + i]
               /\ kind \in DOMAIN Handshakes => rec.ct = "handshake" /\ rec.body = Handshakes[kind]
               /\ kind \in DOMAIN Alerts => rec.ct = "alert" /\ rec.body = Alerts[kind]
               /\ kind \in {"overflow", "unexpected"} => rec.ct = kind
<1> DEFINE rec == PeerRecord(kind)
           R(ct, body) == [ct |-> ct, gen |-> peer.gen, seq |-> peer.seq, body |-> body]
           data == [i \in 1 .. Units[kind] |-> peer.units + i]
<1>1. /\ DOMAIN Units = {"data_0", "data_1", "data_2"}
      /\ DOMAIN Handshakes = {"update", "update_request", "ticket", "bad_update", "bad_type",
                              "two_tickets", "ticket_update", "ticket_request",
                              "request_first", "request_last", "ticket_first", "ticket_last"}
      /\ DOMAIN Alerts = {"close_notify", "user_canceled", "fatal_alert", "warning_alert"}
  BY DEF Units, Handshakes, Alerts
<1>2. peer.gen \in Nat /\ peer.seq \in Nat /\ peer.units \in Nat
  BY DEF PeerOK
<1>3. CASE kind \in DOMAIN Units
  <2>1. kind \notin DOMAIN Handshakes /\ kind \notin DOMAIN Alerts
        /\ kind \notin {"overflow", "unexpected"}
    BY <1>1, <1>3
  <2>2. rec = R("app", data)
    BY <1>3, <2>1 DEF PeerRecord
  <2>3. Units[kind] \in Nat
    BY <1>3, <1>1 DEF Units
  <2>4. data \in Seq(Nat)
    <3>1. data \in [1 .. Units[kind] -> Nat]
      BY <1>2, <2>3
    <3> QED BY <2>3, <3>1
  <2> HIDE DEF rec
  <2> QED BY <1>2, <1>3, <2>2, <2>4, <2>1 DEF Wire, rec
<1>4. CASE kind \in DOMAIN Handshakes
  <2>1. kind \notin DOMAIN Units /\ kind \notin DOMAIN Alerts
        /\ kind \notin {"overflow", "unexpected"}
    BY <1>1, <1>4
  <2>2. rec = R("handshake", Handshakes[kind])
    BY <1>4, <2>1 DEF PeerRecord
  <2>3. Handshakes[kind] \in Messages
    BY <1>4 DEF Messages
  <2> HIDE DEF rec
  <2> QED BY <1>2, <1>4, <2>1, <2>2, <2>3 DEF Wire, rec
<1>5. CASE kind \in DOMAIN Alerts
  <2>1. kind \notin DOMAIN Units /\ kind \notin DOMAIN Handshakes
        /\ kind \notin {"overflow", "unexpected"}
    BY <1>1, <1>5
  <2>2. rec = R("alert", Alerts[kind])
    BY <1>5, <2>1 DEF PeerRecord
  <2>3. Alerts[kind] \in Bodies
    BY <1>5 DEF Bodies
  <2> HIDE DEF rec
  <2> QED BY <1>2, <1>5, <2>1, <2>2, <2>3 DEF Wire, rec
<1>6. CASE kind \notin DOMAIN Units /\ kind \notin DOMAIN Handshakes /\ kind \notin DOMAIN Alerts
  <2>1. kind \in {"overflow", "unexpected"}
    BY <1>1, <1>6 DEF Kinds, Malformed
  <2>2. rec = R(kind, << >>)
    BY <1>6 DEF PeerRecord
  <2> HIDE DEF rec
  <2> QED BY <1>2, <1>6, <2>1, <2>2 DEF Wire, rec
<1> QED BY <1>3, <1>4, <1>5, <1>6

RequestingKinds == {"update_request", "request_last", "ticket_request"}

UpdatingKinds == RequestingKinds \cup {"update", "ticket_update"}

(* The kinds that ask for a key update. *)
LEMMA RequestKinds ==
    ASSUME NEW kind \in Kinds, PeerOK
    PROVE  IsRequest(PeerRecord(kind)) <=> kind \in RequestingKinds
<1> DEFINE rec == PeerRecord(kind)
<1>1. /\ rec \in Wire
      /\ kind \in DOMAIN Units => rec.ct = "app"
      /\ kind \in DOMAIN Handshakes => rec.ct = "handshake" /\ rec.body = Handshakes[kind]
      /\ kind \in DOMAIN Alerts => rec.ct = "alert"
      /\ kind \in {"overflow", "unexpected"} => rec.ct = kind
  BY PeerRecordFacts
<1> HIDE DEF rec
<1>2. CASE kind \in DOMAIN Handshakes
  BY <1>1, <1>2, CarriersOfUpdates DEF IsRequest, RequestingKinds, rec
<1>3. CASE kind \notin DOMAIN Handshakes
  <2>1. rec.ct # "handshake"
    BY <1>1, <1>3 DEF Kinds, Malformed, Units, Alerts, Handshakes
  <2>2. kind \notin RequestingKinds
    BY <1>3 DEF Handshakes, RequestingKinds
  <2> QED BY <2>1, <2>2 DEF IsRequest, Carries, rec
<1> QED BY <1>2, <1>3

(* The state of the peer after it. *)
LEMMA PeerKeeps ==
    ASSUME NEW kind \in Traffic, PeerOK, PeerSend(kind)
    PROVE  PeerOK'
<1> DEFINE more == IF kind \in DOMAIN Units THEN Units[kind] ELSE 0
           update == kind \in UpdatingKinds
           faulty == kind \in Malformed \/ (peer.partial # "none" /\ kind = "data_1")
           open == kind \notin {"close_notify", "fatal_alert"} /\ ~faulty
           asked == IF kind \in RequestingKinds THEN 1 ELSE 0
           new == [gen |-> peer.gen + IF update THEN 1 ELSE 0,
                   seq |-> IF update THEN 0 ELSE peer.seq + 1,
                   units |-> peer.units + more,
                   partial |-> IF kind \in {"request_first", "ticket_first"}
                               THEN kind ELSE "none",
                   open |-> open,
                   faulty |-> faulty,
                   sent |-> peer.sent + 1,
                   requests |-> peer.requests + asked]
<1>1. more \in Nat
  BY DEF Units
<1>2. peer' = new
  BY DEF PeerSend, UpdatingKinds, RequestingKinds
<1>3. faulty \in BOOLEAN /\ asked \in Nat /\ (faulty => ~open)
  OBVIOUS
<1> HIDE DEF faulty, more, open, asked
<1>4. /\ DOMAIN new = {"gen", "seq", "units", "partial", "open", "faulty", "sent", "requests"}
      /\ new.gen \in Nat /\ new.seq \in Nat /\ new.units \in Nat /\ new.requests \in Nat
      /\ new.partial \in {"none", "request_first", "ticket_first"}
  BY <1>1, <1>3 DEF PeerOK
<1>5. new.faulty = faulty /\ new.open = open
  OBVIOUS
<1> HIDE DEF new
<1> QED BY <1>2, <1>3, <1>4, <1>5 DEF PeerOK

(* A record of the peer and the count of its requests. *)
LEMMA PeerSendReads ==
    ASSUME NEW kind \in Traffic, Inv, ReadInv, PeerSend(kind)
    PROVE  ReadInv'
<1> DEFINE rec == PeerRecord(kind)
           n == IF kind \in RequestingKinds THEN 1 ELSE 0
<1>1. kind \in Kinds /\ PeerOK /\ peer.requests \in Nat
  BY TrafficAssumption DEF ReadInv, PeerOK
<1>2. rec \in Wire /\ (IsRequest(rec) <=> kind \in RequestingKinds)
  BY <1>1, PeerRecordFacts, RequestKinds
<1>3. /\ rd' = [rd EXCEPT !.rbio = Append(@, rec)] /\ rl' = rl
      /\ peer'.requests = peer.requests + n
  BY DEF PeerSend, RequestingKinds
<1>4. PeerOK'
  BY <1>1, PeerKeeps
<1> HIDE DEF rec
<1>5. /\ rd'.rbio = Append(rd.rbio, rec) /\ rd'.rcontent = rd.rcontent
      /\ rd'.lost_requests = rd.lost_requests /\ rd.lost_requests \in Nat
  BY <1>3 DEF Inv, CallInv, RdOK
<1>6. rd'.rbio \in Seq(Wire) /\ ContentOK(rd'.rcontent)
  BY <1>2, <1>5 DEF ReadInv
<1>7. Cardinality(Requests(rd'.rbio)) = Cardinality(Requests(rd.rbio)) + n
  BY <1>2, <1>5, AppendRequests DEF ReadInv
<1>8. Cardinality(Requests(rd.rbio)) \in Nat
  BY RequestsFinite DEF ReadInv
<1>9. Tally(rl) \in Nat
  BY DEF Inv, CallInv, Kept, Good, RL, Tally
<1> HIDE DEF n
<1>10. n \in Nat
  BY DEF n
<1>11. (rl.ret \in Fatal \/ Answered(rl, rd))'
  BY <1>1, <1>3, <1>5, <1>7, <1>8, <1>9, <1>10 DEF ReadInv, Answered, Open
<1>12. (rd.rbio \in Seq(Wire) /\ ContentOK(rd.rcontent))'
  BY <1>6
<1> QED BY <1>4, <1>11, <1>12 DEF ReadInv

(* Every step of the connection preserves the invariant. *)
LEMMA NextReads ==
    ASSUME Inv, ReadInv, [Next]_vars
    PROVE  ReadInv'
<1>1. ASSUME NEW room \in 0 .. RoomBound, Call(room)
      PROVE  ReadInv'
  <2>1. ASSUME NEW call \in {"read", "peek"}, NEW n \in 1 .. 2, SSL_read(call, n, room)
        PROVE  ReadInv'
    BY <1>1, <2>1, ReadReads DEF SSL_read, Idle
  <2>2. CASE SSL_write(room)
    BY <1>1, <2>2, WriteReads DEF SSL_write, Idle
  <2>3. CASE SSL_shutdown(room)
    BY <1>1, <2>3, ShutdownReads
  <2>4. CASE Continue(room)
    <3>1. rl.ret \notin Fatal
      BY <2>4 DEF Continue, Inv, CallInv, Fatal
    <3>2. ASSUME NEW n \in 1 .. 2, Read(app.call, n, room) PROVE ReadInv'
      BY <1>1, <3>1, <3>2, ReadReads
    <3>3. CASE Write(room)
      BY <1>1, <3>1, <3>3, WriteReads
    <3>4. CASE app.call = "shutdown" /\ Becomes(ShutdownRead(Current(room)))
      <4> DEFINE base == app.acked + app.wnum
                 s == Current(room)
                 t == ShutdownRead(s)
      <4>1. base \in Nat
        BY WriteLenAssumption DEF Inv, CallInv, AppOK
      <4>2. CallOK(s, base) /\ SamePending(rl, s.rl) /\ Begins(s)
        BY <1>1, <3>1, CurrentReady, CurrentBegins DEF Fatal
      <4>3. Becomes(t)
        BY <3>4
      <4> HIDE DEF s
      <4>4. s.rl.write_closed
        BY <3>4, <4>2 DEF Inv, CallInv, SamePending
      <4>5. Rests(t) /\ t.rl \in RL
        BY <4>1, <4>2, <4>4, ShutdownReadRests DEF Begins
      <4> HIDE DEF t
      <4> QED BY <4>3, <4>5, BecomesReads DEF ReadInv
    <3> QED BY <2>4, <3>2, <3>3, <3>4 DEF Continue
  <2> QED BY <1>1, <2>1, <2>2, <2>3, <2>4 DEF Call
<1>2. ASSUME NEW kind \in Traffic, PeerSend(kind)
      PROVE  ReadInv'
  BY <1>2, PeerSendReads
<1>3. CASE HalfHourPasses
  <2>1. /\ rl' = rl /\ peer' = peer /\ rd'.rbio = rd.rbio /\ rd'.rcontent = rd.rcontent
        /\ rd'.lost_requests = rd.lost_requests
    BY <1>3 DEF HalfHourPasses, Inv, CallInv, RdOK
  <2>2. PeerOK' /\ (rl.ret \in Fatal \/ Answered(rl, rd))'
    BY <2>1 DEF ReadInv, PeerOK, Answered, Open
  <2> QED BY <2>1, <2>2 DEF ReadInv
<1>4. CASE UNCHANGED vars
  BY <1>4 DEF vars, ReadInv, PeerOK, Answered, Open
<1> QED BY <1>1, <1>2, <1>3, <1>4 DEF Next, Stopped

(* It holds of the initial state. *)
LEMMA InitReads == Init => ReadInv
<1> SUFFICES ASSUME Init PROVE ReadInv
  OBVIOUS
<1>1. PeerOK
  BY DEF Init, PeerOK
<1>2. rd.rbio = << >> /\ rd.rcontent = NoContent
  BY DEF Init
<1>3. ContentOK(rd.rcontent)
  BY <1>2 DEF ContentOK, NoContent
<1>4. Cardinality(Requests(rd.rbio)) = 0
  <2>1. Requests(rd.rbio) = {}
    BY <1>2 DEF Requests
  <2> QED BY <2>1, FS_EmptySet
<1>5. Tally(rl) = 0 /\ peer.requests = 0 /\ rd.lost_requests = 0
  BY DEF Init, Tally
<1> QED BY <1>1, <1>2, <1>3, <1>4, <1>5 DEF ReadInv, Answered, Open

(* The requests of the peer are accounted for at every step of every call,  *)
(* for any traffic: done, promised, unread, or thrown away with the ticket  *)
(* they came behind (tls13_record_layer_recv_phh).                          *)
THEOREM ReadInvariance == Spec => []ReadInv
<1>1. Inv /\ ReadInv /\ [Next]_vars => ReadInv'
  BY NextReads
<1> QED BY <1>1, InitReads, Invariance, PTL DEF Spec

(* Every KeyUpdate that asks for a reply is answered by exactly one update  *)
(* of the write key, done, pending or still to come, however the replies    *)
(* block and whatever else the peer sends: tls13_key_update_recv,           *)
(* tls13_record_layer_phh and tls13_phh_done_cb lose none and repeat none.  *)
(* Those that tls13_record_layer_recv_phh clears behind another message are *)
(* the only ones that are not, and are counted.                             *)
THEOREM UpdatesAreAnswered == Spec => []RequestsAnswered
<1>1. Inv /\ ReadInv => RequestsAnswered
  <2> SUFFICES ASSUME Inv, ReadInv, ~GivingUp, ~rl.write_closed
               PROVE  peer.requests = rl.gen + (IF rl.phh_data THEN 1 ELSE 0)
                                      + Cardinality(Requests(rd.rbio)) + rd.lost_requests
    BY DEF RequestsAnswered, Requests
  <2>1. peer.requests = Tally(rl) + (Cardinality(Requests(rd.rbio)) + rd.lost_requests)
    BY DEF ReadInv, Answered, Open, Err, GivingUp
  <2>2. Tally(rl) \in Nat /\ Cardinality(Requests(rd.rbio)) \in Nat /\ rd.lost_requests \in Nat
    BY RequestsFinite DEF ReadInv, Inv, CallInv, Kept, Good, RL, RdOK, Tally
  <2> QED BY <2>1, <2>2 DEF Tally
<1> QED BY <1>1, Invariance, ReadInvariance, PTL

-----------------------------------------------------------------------------
(* Application data in order. *)

(* The content is empty and a record moves into it. *)
LEMMA RunsShift ==
    ASSUME NEW U, NEW V, NEW m \in Nat, NEW lo, NEW hi \in Nat, Runs(U, m + 1, lo, hi),
           U[0] = << >>, \A k \in 0 .. m : V[k] = U[k + 1]
    PROVE  Runs(V, m, lo, hi)
<1>1. \A k \in 0 .. m : k + 1 \in 0 .. m + 1 /\ V[k] = U[k + 1]
  OBVIOUS
<1>2. lo \in Nat /\ lo <= hi /\ \A k \in 0 .. m : V[k] \in Seq(Nat)
  BY <1>1 DEF Runs
<1>3. ASSUME NEW k \in 0 .. m, NEW i \in 1 .. Len(V[k])
      PROVE  V[k][i] \in lo + 1 .. hi /\ V[k][i] = V[k][1] + i - 1
  <2>1. k + 1 \in 0 .. m + 1 /\ V[k] = U[k + 1]
    BY <1>1
  <2>2. i \in 1 .. Len(U[k + 1])
    BY <2>1
  <2>3. \A h \in 0 .. m + 1 : \A j \in 1 .. Len(U[h]) :
            U[h][j] \in lo + 1 .. hi /\ U[h][j] = U[h][1] + j - 1
    BY DEF Runs
  <2>4. U[k + 1][i] \in lo + 1 .. hi /\ U[k + 1][i] = U[k + 1][1] + i - 1
    BY <2>1, <2>2, <2>3
  <2> QED BY <2>1, <2>4
<1>4. ASSUME NEW u \in lo + 1 .. hi
      PROVE  \E k \in 0 .. m : \E i \in 1 .. Len(V[k]) : V[k][i] = u
  <2>1. PICK k \in 0 .. m + 1 : \E i \in 1 .. Len(U[k]) : U[k][i] = u
    BY DEF Runs
  <2>2. k # 0
    BY <2>1
  <2>3. k - 1 \in 0 .. m /\ V[k - 1] = U[k]
    BY <1>1, <2>2
  <2> QED BY <2>1, <2>3
<1>5. ASSUME NEW k \in 0 .. m, NEW l \in 0 .. m, NEW i \in 1 .. Len(V[k]),
             NEW j \in 1 .. Len(V[l]), k < l
      PROVE  V[k][i] < V[l][j]
  <2>1. k + 1 < l + 1 /\ k + 1 \in 0 .. m + 1 /\ l + 1 \in 0 .. m + 1
    BY <1>5
  <2> QED BY <1>1, <2>1 DEF Runs
<1> QED BY <1>2, <1>3, <1>4, <1>5 DEF Runs

(* The application reads the first n units of the content. *)
LEMMA RunsTake ==
    ASSUME NEW U, NEW V, NEW m \in Nat, NEW lo, NEW hi \in Nat, Runs(U, m, lo, hi),
           U[0] # << >>, NEW n \in 0 .. Len(U[0]),
           V[0] = SubSeq(U[0], n + 1, Len(U[0])), \A k \in 1 .. m : V[k] = U[k]
    PROVE  Runs(V, m, lo + n, hi)
<1> DEFINE data == U[0]
           z == Len(data)
<1>1. /\ lo \in Nat /\ data \in Seq(Nat) /\ z \in Nat \ {0} /\ 0 \in 0 .. m
      /\ \A k \in 0 .. m : k # 0 => k \in 1 .. m
  BY DEF Runs
<1>2. \A i \in 1 .. z : data[i] \in lo + 1 .. hi /\ data[i] = data[1] + i - 1
  BY <1>1 DEF Runs
<1>3. \A k \in 1 .. m : \A i \in 1 .. z, j \in 1 .. Len(U[k]) : data[i] < U[k][j]
  <2>1. \A k \in 1 .. m : k \in 0 .. m /\ 0 < k
    OBVIOUS
  <2> QED BY <1>1, <2>1 DEF Runs
<1>4. \A k \in 1 .. m : \A j \in 1 .. Len(U[k]) :
          U[k][j] \in lo + 1 .. hi /\ U[k][j] = U[k][1] + j - 1
  BY DEF Runs
<1>5. data[1] = lo + 1
  <2>1. 1 \in 1 .. z /\ data[1] \in lo + 1 .. hi
    BY <1>1, <1>2
  <2>2. lo + 1 \in lo + 1 .. hi
    BY <1>1, <2>1
  <2>3. PICK k \in 0 .. m : \E i \in 1 .. Len(U[k]) : U[k][i] = lo + 1
    BY <2>2 DEF Runs
  <2>4. PICK i \in 1 .. Len(U[k]) : U[k][i] = lo + 1
    BY <2>3
  <2>5. k = 0
    <3>1. ASSUME k # 0 PROVE FALSE
      <4>1. k \in 1 .. m
        BY <1>1, <3>1
      <4>2. data[1] < U[k][i]
        BY <1>3, <2>1, <2>4, <4>1
      <4> QED BY <1>1, <2>1, <2>4, <4>2
    <3> QED BY <3>1
  <2>6. i \in 1 .. z /\ data[i] = lo + 1 /\ data[i] = data[1] + i - 1
    BY <1>2, <2>4, <2>5
  <2> QED BY <1>1, <2>1, <2>6, SMTT(30)
<1>6. ASSUME NEW i \in 1 .. z PROVE data[i] = lo + i /\ i \in Nat
  <2>1. data[i] = data[1] + i - 1
    BY <1>2
  <2>2. i \in Nat
    BY <1>1
  <2> HIDE DEF data, z
  <2> QED BY <1>1, <1>5, <2>1, <2>2
<1>7. lo + z <= hi
  <2> HIDE DEF data, z
  <2>1. z \in 1 .. z
    BY <1>1
  <2>2. data[z] = lo + z /\ data[z] \in lo + 1 .. hi
    BY <1>2, <1>6, <2>1
  <2> QED BY <1>1, <2>2
<1>8. V[0] \in Seq(Nat) /\ Len(V[0]) = z - n /\ \A i \in 1 .. z - n : V[0][i] = lo + n + i
  <2>1. /\ V[0] \in Seq(Nat) /\ Len(V[0]) = z - n
        /\ \A i \in 1 .. z - n : V[0][i] = data[n + i]
    <3>1. CASE n = z
      <4>1. V[0] = << >>
        BY <1>1, <3>1
      <4> QED BY <1>1, <3>1, <4>1
    <3>2. CASE n # z
      <4>1. n + 1 \in 1 .. z /\ z \in n + 1 - 1 .. z /\ n + 1 <= z
        BY <1>1, <3>2
      <4> QED BY <1>1, <4>1, SMTT(30)
    <3> QED BY <3>1, <3>2
  <2>2. n \in Nat /\ n <= z
    BY <1>1
  <2> HIDE DEF data, z
  <2>3. ASSUME NEW i \in 1 .. z - n PROVE V[0][i] = lo + n + i
    <3>1. n + i \in 1 .. z /\ i \in Nat
      BY <1>1, <2>2
    <3>2. data[n + i] = lo + (n + i)
      BY <1>6, <3>1
    <3>3. V[0][i] = data[n + i]
      BY <2>1
    <3>4. lo + (n + i) = lo + n + i
      BY <1>1, <2>2, <3>1
    <3> QED BY <3>2, <3>3, <3>4
  <2> QED BY <2>1, <2>3
<1> HIDE DEF data, z
<1>9. ASSUME NEW k \in 1 .. m, NEW j \in 1 .. Len(U[k]) PROVE U[k][j] \in lo + n + 1 .. hi
  <2>1. z \in 1 .. z
    BY <1>1
  <2>2. lo + z < U[k][j] /\ U[k][j] \in lo + 1 .. hi
    BY <1>3, <1>4, <1>6, <2>1
  <2>3. n <= z /\ n \in Nat
    BY <1>1 DEF z, data
  <2> QED BY <1>1, <2>2, <2>3, SMTT(30)
<1>10. n \in Nat /\ n <= z /\ lo + n \in Nat /\ lo + n <= hi
  BY <1>1, <1>7 DEF z, data
<1>11. \A k \in 0 .. m : V[k] \in Seq(Nat)
  BY <1>1, <1>8 DEF Runs
<1>12. ASSUME NEW k \in 0 .. m, NEW i \in 1 .. Len(V[k])
       PROVE  V[k][i] \in lo + n + 1 .. hi /\ V[k][i] = V[k][1] + i - 1
  <2>1. CASE k = 0
    <3>1. i \in 1 .. z - n /\ 1 \in 1 .. z - n
      BY <1>1, <1>8, <1>10, <2>1
    <3>2. V[0][i] = lo + n + i /\ V[0][1] = lo + n + 1
      BY <1>8, <3>1
    <3>3. i \in Nat /\ lo + n + i <= hi /\ i >= 1
      BY <1>1, <1>7, <1>10, <3>1
    <3>4. /\ lo + n + i \in lo + n + 1 .. hi
          /\ lo + n + i = lo + n + 1 + i - 1
      BY <1>1, <1>10, <3>3
    <3> QED BY <2>1, <3>2, <3>4
  <2>2. CASE k # 0
    BY <1>1, <1>4, <1>9, <2>2
  <2> QED BY <2>1, <2>2
<1>13. ASSUME NEW u \in lo + n + 1 .. hi
       PROVE  \E k \in 0 .. m : \E i \in 1 .. Len(V[k]) : V[k][i] = u
  <2>1. u \in lo + 1 .. hi
    BY <1>1, <1>10
  <2>2. PICK k \in 0 .. m : \E i \in 1 .. Len(U[k]) : U[k][i] = u
    BY <2>1 DEF Runs
  <2>3. CASE k = 0
    <3>1. PICK i \in 1 .. z : data[i] = u
      BY <2>2, <2>3 DEF z, data
    <3>2. u = lo + i
      BY <1>6, <3>1
    <3>3. i - n \in 1 .. z - n
      BY <1>1, <1>10, <3>2
    <3>4. V[0][i - n] = lo + n + (i - n)
      BY <1>8, <3>3
    <3>5. V[0][i - n] = u
      <4>1. i \in Nat /\ lo + n + (i - n) = lo + i
        BY <1>1, <1>10
      <4> QED BY <3>2, <3>4, <4>1
    <3> QED BY <1>1, <1>8, <3>3, <3>5
  <2>4. CASE k # 0
    BY <1>1, <2>2, <2>4
  <2> QED BY <2>3, <2>4
<1>14. ASSUME NEW k \in 0 .. m, NEW l \in 0 .. m, NEW i \in 1 .. Len(V[k]),
              NEW j \in 1 .. Len(V[l]), k < l
       PROVE  V[k][i] < V[l][j]
  <2>1. l \in 1 .. m /\ V[l] = U[l]
    BY <1>14
  <2>2. CASE k = 0
    <3>1. i \in 1 .. z - n
      BY <1>8, <2>2
    <3>2. n + i \in 1 .. z /\ i \in Nat
      BY <1>1, <1>10, <3>1
    <3>3. V[0][i] = lo + n + i
      BY <1>8, <3>1
    <3>4. data[n + i] = lo + (n + i) /\ data[n + i] < U[l][j]
      BY <1>3, <1>6, <2>1, <3>2
    <3>5. lo + n + i < U[l][j]
      BY <1>1, <1>10, <3>2, <3>4
    <3> QED BY <2>1, <2>2, <3>5, <3>3
  <2>3. CASE k # 0
    <3>1. V[k] = U[k]
      BY <2>3
    <3> QED BY <1>14, <2>1, <3>1 DEF Runs
  <2> QED BY <2>2, <2>3
<1> QED BY <1>10, <1>11, <1>12, <1>13, <1>14 DEF Runs

(* The peer sends a record with n more units. *)
LEMMA RunsAppend ==
    ASSUME NEW U, NEW V, NEW m \in Nat, NEW lo, NEW hi \in Nat, NEW n \in Nat,
           Runs(U, m, lo, hi), \A k \in 0 .. m : V[k] = U[k],
           V[m + 1] \in Seq(Nat), Len(V[m + 1]) = n, \A i \in 1 .. n : V[m + 1][i] = hi + i
    PROVE  Runs(V, m + 1, lo, hi + n)
<1>1. /\ lo \in Nat /\ lo <= hi
      /\ \A k \in 0 .. m + 1 : k # m + 1 => k \in 0 .. m /\ V[k] = U[k]
      /\ \A k \in 0 .. m : k \in 0 .. m + 1
  BY DEF Runs
<1>2. \A k \in 0 .. m + 1 : V[k] \in Seq(Nat)
  BY <1>1 DEF Runs
<1>3. ASSUME NEW k \in 0 .. m + 1, NEW i \in 1 .. Len(V[k])
      PROVE  /\ V[k][i] \in lo + 1 .. hi + n /\ V[k][i] = V[k][1] + i - 1
             /\ k # m + 1 => V[k][i] <= hi
  <2>1. CASE k = m + 1
    <3>1. i \in 1 .. n /\ 1 \in 1 .. n /\ i \in Nat
      BY <2>1
    <3>2. V[m + 1][i] = hi + i /\ V[m + 1][1] = hi + 1
      BY <3>1
    <3>3. hi + i \in lo + 1 .. hi + n /\ hi + i = hi + 1 + i - 1
      BY <1>1, <3>1
    <3> QED BY <2>1, <3>2, <3>3
  <2>2. CASE k # m + 1
    <3>1. k \in 0 .. m /\ V[k] = U[k]
      BY <1>1, <2>2
    <3>2. \A h \in 0 .. m : \A j \in 1 .. Len(U[h]) :
              U[h][j] \in lo + 1 .. hi /\ U[h][j] = U[h][1] + j - 1
      BY DEF Runs
    <3>3. U[k][i] \in lo + 1 .. hi /\ U[k][i] = U[k][1] + i - 1
      BY <3>1, <3>2
    <3> QED BY <1>1, <3>1, <3>3
  <2> QED BY <2>1, <2>2
<1>4. ASSUME NEW u \in lo + 1 .. hi + n
      PROVE  \E k \in 0 .. m + 1 : \E i \in 1 .. Len(V[k]) : V[k][i] = u
  <2>1. CASE u <= hi
    <3>1. u \in lo + 1 .. hi
      BY <1>1, <2>1
    <3>2. PICK k \in 0 .. m : \E i \in 1 .. Len(U[k]) : U[k][i] = u
      BY <3>1 DEF Runs
    <3> QED BY <1>1, <3>2
  <2>2. CASE ~(u <= hi)
    <3>1. u - hi \in 1 .. n /\ V[m + 1][u - hi] = u
      BY <1>1, <2>2
    <3> QED BY <3>1
  <2> QED BY <2>1, <2>2
<1>5. ASSUME NEW k \in 0 .. m + 1, NEW l \in 0 .. m + 1, NEW i \in 1 .. Len(V[k]),
             NEW j \in 1 .. Len(V[l]), k < l
      PROVE  V[k][i] < V[l][j]
  <2>1. k # m + 1 /\ k \in 0 .. m /\ V[k] = U[k]
    BY <1>1, <1>5
  <2>2. CASE l = m + 1
    <3>1. V[k][i] <= hi /\ V[k][i] \in lo + 1 .. hi + n
      BY <1>3, <2>1
    <3>2. V[l][j] = hi + j /\ j \in 1 .. n
      BY <2>2
    <3> QED BY <1>1, <3>1, <3>2, SMTT(30)
  <2>3. CASE l # m + 1
    <3>1. l \in 0 .. m /\ V[l] = U[l]
      BY <1>1, <2>3
    <3> QED BY <1>5, <2>1, <3>1 DEF Runs
  <2> QED BY <2>2, <2>3
<1> QED BY <1>1, <1>2, <1>3, <1>4, <1>5 DEF Runs

(* What is unread depends only on the records and the units of the content. *)
LEMMA StreamSame ==
    ASSUME NEW d, NEW e, NEW lo, Stream(d, lo), e.rbio = d.rbio, Part(e, 0) = Part(d, 0)
    PROVE  Stream(e, lo)
<1>1. ASSUME NEW k \in 0 .. Len(d.rbio) PROVE Part(e, k) = Part(d, k)
  BY DEF Part
<1>2. Parts(e) = Parts(d)
  BY <1>1 DEF Parts
<1> QED BY <1>2 DEF Stream

(* A record is taken from the BIO. *)
LEMMA StreamOpened ==
    ASSUME NEW d, NEW e, NEW lo, Stream(d, lo), peer.units \in Nat,
           d.rbio \in Seq(Wire), d.rbio # << >>, e.rbio = Tail(d.rbio),
           Part(d, 0) = << >>, Part(e, 0) = Part(d, 1)
    PROVE  Stream(e, lo)
<1> DEFINE m == Len(e.rbio)
           U == Parts(d)
           V == Parts(e)
<1>1. /\ m \in Nat /\ Len(d.rbio) = m + 1
      /\ \A k \in 1 .. m : e.rbio[k] = d.rbio[k + 1]
  OBVIOUS
<1>2. Runs(U, m + 1, lo, peer.units)
  BY <1>1 DEF Stream
<1> HIDE DEF m
<1>3. U[0] = << >>
  BY <1>1 DEF Parts
<1>4. ASSUME NEW k \in 0 .. m PROVE V[k] = U[k + 1]
  <2>1. k + 1 \in 0 .. m + 1 /\ V[k] = Part(e, k) /\ U[k + 1] = Part(d, k + 1)
    BY <1>1 DEF Parts, m
  <2>2. CASE k = 0
    BY <2>1, <2>2
  <2>3. CASE k # 0
    <3>1. e.rbio[k] = d.rbio[k + 1] /\ k + 1 # 0
      BY <1>1, <2>3
    <3>2. Part(e, k) = Part(d, k + 1)
      BY <2>3, <3>1 DEF Part
    <3> QED BY <2>1, <3>2
  <2> QED BY <2>2, <2>3
<1> HIDE DEF U, V
<1>5. Runs(V, m, lo, peer.units)
  BY <1>1, <1>2, <1>3, <1>4, RunsShift
<1> QED BY <1>5 DEF Stream, V, m

(* The application reads k units. *)
LEMMA StreamTaken ==
    ASSUME NEW d, NEW e, NEW lo, Stream(d, lo), peer.units \in Nat, Len(d.rbio) \in Nat,
           Part(d, 0) # << >>, NEW n \in 0 .. Len(Part(d, 0)), e.rbio = d.rbio,
           Part(e, 0) = SubSeq(Part(d, 0), n + 1, Len(Part(d, 0)))
    PROVE  Stream(e, lo + n)
<1> DEFINE m == Len(d.rbio)
           U == Parts(d)
           V == Parts(e)
<1>1. Runs(U, m, lo, peer.units) /\ U[0] = Part(d, 0) /\ V[0] = Part(e, 0)
  BY DEF Stream, Parts
<1>2. ASSUME NEW k \in 1 .. m PROVE V[k] = U[k]
  BY DEF Parts, Part
<1> HIDE DEF m, U, V
<1>3. Runs(V, m, lo + n, peer.units)
  <2>1. m \in Nat
    BY DEF m
  <2>2. n \in 0 .. Len(U[0]) /\ U[0] # << >> /\ V[0] = SubSeq(U[0], n + 1, Len(U[0]))
    BY <1>1
  <2> QED BY <1>1, <1>2, <2>1, <2>2, RunsTake
<1> QED BY <1>3 DEF Stream, V, m

-----------------------------------------------------------------------------
(* The records of a conforming peer. *)

(* After the first record come the others. *)
LEMMA ChainTail ==
    ASSUME NEW q \in Seq(Wire), q # << >>, Chained(q)
    PROVE  /\ Chained(Tail(q)) /\ Regular(q[1], peer.open)
           /\ Begin(Tail(q), NextGen(q[1]), NextSeq(q[1]), Opens(q[1]))
<1> DEFINE t == Tail(q)
           m == Len(t)
<1>1. /\ m \in Nat /\ Len(q) = m + 1 /\ \A i \in 1 .. m : t[i] = q[i + 1]
  OBVIOUS
<1> HIDE DEF t, m
<1>2. Regular(q[1], peer.open)
  BY <1>1 DEF Chained
<1>3. ASSUME NEW i \in 1 .. m PROVE Regular(t[i], peer.open)
  <2>1. i + 1 \in 1 .. Len(q) /\ t[i] = q[i + 1]
    BY <1>1
  <2> QED BY <2>1 DEF Chained
<1>4. ASSUME NEW i \in 1 .. m - 1
      PROVE  At(t[i + 1], NextGen(t[i]), NextSeq(t[i]), Opens(t[i]))
  <2>1. /\ i + 1 \in 1 .. Len(q) - 1 /\ i \in 1 .. m /\ i + 1 \in 1 .. m
    BY <1>1
  <2>2. t[i] = q[i + 1] /\ t[i + 1] = q[i + 1 + 1]
    BY <1>1, <2>1
  <2>3. \A j \in 1 .. Len(q) - 1 : At(q[j + 1], NextGen(q[j]), NextSeq(q[j]), Opens(q[j]))
    BY DEF Chained
  <2> QED BY <2>1, <2>2, <2>3
<1>5. m # 0 => t[m] = q[Len(q)] /\ Len(q) # 0
  BY <1>1
<1>6. Chained(t)
  <2>1. m # 0 => /\ peer.gen = NextGen(t[m]) /\ peer.seq = NextSeq(t[m])
                 /\ peer.partial # "none" <=> Opens(t[m])
    BY <1>5 DEF Chained
  <2> QED BY <1>3, <1>4, <2>1 DEF Chained, m
<1>7. Begin(t, NextGen(q[1]), NextSeq(q[1]), Opens(q[1]))
  <2>1. CASE m = 0
    <3>1. Len(q) = 1 /\ Len(t) = 0
      BY <1>1, <2>1 DEF m
    <3> QED BY <3>1 DEF Begin, Chained
  <2>2. CASE m # 0
    <3>1. 1 \in 1 .. Len(q) - 1 /\ t[1] = q[1 + 1] /\ Len(t) # 0
      BY <1>1, <2>2 DEF m
    <3>2. \A j \in 1 .. Len(q) - 1 : At(q[j + 1], NextGen(q[j]), NextSeq(q[j]), Opens(q[j]))
      BY DEF Chained
    <3> QED BY <3>1, <3>2 DEF Begin
  <2> QED BY <2>1, <2>2
<1> QED BY <1>2, <1>6, <1>7 DEF t

-----------------------------------------------------------------------------
(* Reading from a conforming peer. *)

(* What is pending is sent. *)
Steady(s) ==
    /\ Chained(s.rd.rbio) /\ s.rd.alert = 0 /\ s.rd.phh_count \in Nat
    /\ Left(s.rl, Sent(s.app)) /\ Stream(s.rd, s.app.consumed)
    /\ s.rl.alert_data = NoAlert /\ (~s.rl.phh_data \/ s.rl.write_closed)
    /\ s.rl.write_closed => Sent(s.app)

(* Where the unread records begin once the messages in data are complete. *)
Past(d, data) ==
    IF Carries("handshake", data, KeyUpdates) THEN Begin(d.rbio, d.gen + 1, 0, FALSE)
    ELSE Begin(d.rbio, d.gen, d.seq, FALSE)

(* The content is a message yet to be handled. *)
Ahead(d) ==
    LET item == d.rcontent.data[1]
    IN  /\ item.msg \in {"key_update_requested", "key_update_not_requested", "new_session_ticket"}
        /\ item.part = "last" <=> d.hs_msg
        /\ ~d.lost_update
        /\ IF item.part = "first" THEN Begin(d.rbio, d.gen, d.seq, TRUE)
           ELSE Past(d, d.rcontent.data)

Loaded(s) ==
    /\ Steady(s) /\ (s.rd.phh => s.rd.hs_msg)
    /\ IF s.rd.rcontent.ct = "handshake" /\ s.rd.rcontent.data # << >> THEN Ahead(s.rd)
       ELSE Synced(s.rd) /\ (s.rd.hs_msg => s.rd.rcontent.data = << >>)

(* The fields a returned value leaves alone. *)
LEMMA ReturnFields ==
    ASSUME NEW s, NEW base \in Nat, CallOK(s, base), NEW ret
    PROVE  LET t == Returns(s, ret)
           IN  /\ t.rl.ret = ret /\ t.rd = s.rd /\ t.app = s.app
               /\ SamePending(s.rl, t.rl) /\ t.rl.wrec = s.rl.wrec /\ t.rl.seq = s.rl.seq
<1> DEFINE q == [s.rl EXCEPT !.ret = ret]
<1>1. s.rl \in RL
  BY DEF CallOK, Kept, Good
<1>2. Returns(s, ret) = State(q, s.rd, s.app)
  BY DEF Returns, Return
<1>3. q.ret = ret /\ SamePending(s.rl, q) /\ q.wrec = s.rl.wrec /\ q.seq = s.rl.seq
  BY <1>1 DEF RL, SamePending
<1> HIDE DEF q
<1> QED BY <1>2, <1>3 DEF State

(* A call returns without having changed anything else. *)
LEMMA ReturnConforms ==
    ASSUME NEW s, NEW base \in Nat, CallOK(s, base), Steady(s), Tidy(s.rd),
           Synced(s.rd) \/ s.rl.read_closed, NEW ret, ret # "ALERT",
           ret = "FAILURE" => s.rd.seq = MaxSeq \/ s.rd.lost_update,
           ret = "NESTED" => s.rd.hs_msg
    PROVE  Conforms(Returns(s, ret))
<1> DEFINE t == Returns(s, ret)
<1>1. /\ t.rl.ret = ret /\ t.rd = s.rd /\ t.app = s.app
      /\ SamePending(s.rl, t.rl) /\ t.rl.wrec = s.rl.wrec /\ t.rl.seq = s.rl.seq
  BY ReturnFields
<1> HIDE DEF t
<1>2. ~Err(t.rl) /\ Left(t.rl, Sent(t.app))
  BY <1>1 DEF Steady, SamePending, Err, Left
<1>3. Base(t.rl, t.rd, t.app)
  BY <1>1, <1>2 DEF Steady, Base, SamePending
<1>4. Explained(t.rl, t.rd, t.app)
  BY <1>1 DEF Steady, Explained, SamePending
<1> QED BY <1>1, <1>3, <1>4 DEF Conforms, t

(* An alert for which there is a reason. *)
LEMMA ErrorConforms ==
    ASSUME NEW s, NEW base \in Nat, NEW desc \in 1 .. NoAlert - 1, CallOK(s, base), Steady(s),
           Reason(s.rd)
    PROVE  LET t == SendsAlert(s, desc)
           IN  /\ Base(t.rl, t.rd, t.app) /\ Explained(t.rl, t.rd, t.app)
               /\ t.rl.ret # "WANT_POLLIN" /\ t.rd = s.rd
               /\ Err(t.rl) \/ t.rl.read_closed
<1> DEFINE q == tls13_send_alert(s.rl, desc)
           t == SendsAlert(s, desc)
           sent == Sent(s.app)
<1>1. t.rl = q /\ t.rd = s.rd /\ t.app = s.app
  BY DEF SendsAlert, State
<1>2. sent \in BOOLEAN
  BY DEF Sent
<1>3. /\ Left(s.rl, sent) /\ (s.rl.write_closed => sent) /\ s.rl.alert_data = NoAlert
      /\ ~s.rl.phh_data \/ s.rl.write_closed
  BY DEF Steady
<1> HIDE DEF sent
<1>4. /\ Left(q, sent)
      /\ q.ret \in {"WANT_POLLOUT", "FAILURE", "ALERT", "EOF"}
      /\ q.ret = "FAILURE" => q.seq = MaxSeq \/ sent
      /\ q.write_closed => sent \/ q.ret = "ALERT"
      /\ Err(q) \/ q.read_closed
  BY <1>2, <1>3, ErrorSettles DEF CallOK
<1> HIDE DEF q
<1>5. Base(q, s.rd, s.app)
  BY <1>4 DEF Steady, Base, sent
<1>6. Explained(q, s.rd, s.app)
  BY <1>4 DEF Explained, Fatal, sent
<1> HIDE DEF t
<1> QED BY <1>1, <1>4, <1>5, <1>6 DEF t

(* The records sent by a conforming peer, as they are opened. *)
LEMMA RegularFacts ==
    ASSUME NEW rec \in Wire, Regular(rec, peer.open)
    PROVE  /\ rec.ct \in {"app", "handshake", "alert"}
           /\ rec.ct = "alert" =>
                 \/ rec.body[2] = TLS13_ALERT_USER_CANCELED
                 \/ rec.body[2] = TLS13_ALERT_CLOSE_NOTIFY
                 \/ rec.body[1] = "fatal" /\ ~peer.open
           /\ rec.ct = "handshake" =>
                 rec.body[1].msg \in {"key_update_requested", "key_update_not_requested",
                                      "new_session_ticket"}
<1>1. ASSUME rec.ct = "handshake"
      PROVE  rec.body[1].msg \in {"key_update_requested", "key_update_not_requested",
                                  "new_session_ticket"}
  <2>1. rec.body \in Messages
    BY <1>1, WireFacts
  <2>2. PICK kind \in DOMAIN Handshakes : rec.body = Handshakes[kind]
    BY <2>1 DEF Messages
  <2>3. kind \in {"update", "update_request", "ticket", "bad_update", "bad_type",
           "two_tickets", "ticket_update", "ticket_request", "request_first", "request_last",
           "ticket_first", "ticket_last"}
    BY HandshakeKinds
  <2>4. rec.body[1].msg \in {"key_update_requested", "key_update_not_requested",
            "new_session_ticket", "key_update_illegal", "certificate_request"}
    BY <2>2, <2>3, HandshakeFacts DEF Item
  <2> QED BY <1>1, <2>4 DEF Regular
<1> QED BY <1>1 DEF Regular

(* tls13_record_layer_process_alert, for what a conforming peer sends. *)
LEMMA ProcessAlertConforms ==
    ASSUME NEW s, NEW base \in Nat, NEW body, CallOK(s, base), Steady(s), Tidy(s.rd),
           Synced(s.rd), \/ body[2] = TLS13_ALERT_USER_CANCELED
                         \/ body[2] = TLS13_ALERT_CLOSE_NOTIFY
                         \/ body[1] = "fatal" /\ ~peer.open
    PROVE  LET t == tls13_record_layer_process_alert(s, body)
           IN  Conforms(t) /\ t.rd = s.rd /\ t.rl.ret # "SUCCESS"
<1> DEFINE t == tls13_record_layer_process_alert(s, body)
           c == [s.rl EXCEPT !.read_closed = TRUE, !.ret = "EOF"]
           e == [s.rl EXCEPT !.read_closed = TRUE, !.write_closed = TRUE, !.ret = "ALERT"]
           b == [s.app EXCEPT !.shutdown = @ \cup {"received"}]
<1>1. s.rl \in RL
  BY DEF CallOK, Kept, Good
<1>2. \/ t = State(c, s.rd, b)
      \/ t = Returns(s, "WANT_RETRY")
      \/ ~peer.open /\ t = State(e, s.rd, s.app)
  BY DEF tls13_record_layer_process_alert
<1>3. /\ c.ret = "EOF" /\ c.alert_data = s.rl.alert_data /\ c.phh_data = s.rl.phh_data
      /\ c.write_closed = s.rl.write_closed /\ c.read_closed
      /\ c.wrec = s.rl.wrec /\ c.seq = s.rl.seq
  BY <1>1 DEF RL
<1>4. /\ e.ret = "ALERT" /\ e.alert_data = s.rl.alert_data /\ e.phh_data = s.rl.phh_data
      /\ e.write_closed /\ e.read_closed
      /\ e.wrec = s.rl.wrec /\ e.seq = s.rl.seq
  BY <1>1 DEF RL
<1>5. (Sent(b) <=> Sent(s.app)) /\ b.consumed = s.app.consumed
  BY DEF CallOK, AppOK, Sent
<1> HIDE DEF t, c, e, b
<1>6. CASE t = State(c, s.rd, b)
  <2>1. t.rl = c /\ t.rd = s.rd /\ t.app = b
    BY <1>6 DEF State
  <2>2. ~Err(c) /\ Left(c, Sent(b))
    BY <1>3, <1>5 DEF Steady, Err, Left
  <2>3. Base(c, s.rd, b)
    BY <1>5, <2>2 DEF Steady, Base
  <2>4. Explained(c, s.rd, b)
    BY <1>3, <1>5 DEF Steady, Explained
  <2> QED BY <1>3, <2>1, <2>3, <2>4 DEF Conforms, t
<1>7. CASE t = Returns(s, "WANT_RETRY")
  <2>1. Conforms(t)
    BY <1>7, ReturnConforms
  <2> QED BY <1>7, <2>1, ReturnFields DEF t
<1>8. CASE ~peer.open /\ t = State(e, s.rd, s.app)
  <2>1. t.rl = e /\ t.rd = s.rd /\ t.app = s.app
    BY <1>8 DEF State
  <2>2. ~Err(e) /\ Left(e, Sent(s.app))
    BY <1>4 DEF Steady, Err, Left, TLS13_ALERT_CLOSE_NOTIFY, NoAlert
  <2>3. Base(e, s.rd, s.app)
    BY <2>2 DEF Steady, Base
  <2>4. Explained(e, s.rd, s.app)
    BY <1>4, <1>8 DEF Explained, Reason, Fatal
  <2> QED BY <1>4, <2>1, <2>3, <2>4 DEF Conforms, t
<1> QED BY <1>2, <1>6, <1>7, <1>8

(* Opening a record of a conforming peer. *)
LEMMA ReadRecordConforms ==
    ASSUME NEW s, NEW base \in Nat, CallOK(s, base), PeerOK, s.rd.rbio \in Seq(Wire),
           Steady(s), Tidy(s.rd), Synced(s.rd), s.rd.rcontent.data = << >>
    PROVE  LET t == tls13_record_layer_read_record(s)
           IN  /\ t.rd.hs_msg = s.rd.hs_msg
               /\ t.rl.ret # "SUCCESS" => Conforms(t)
               /\ t.rl.ret = "SUCCESS" => Loaded(t)
               /\ t.rl.ret = "SUCCESS" /\ s.rd.hs_msg => t.rd.rcontent.ct = "handshake"
<1> DEFINE t == tls13_record_layer_read_record(s)
           rec == Head(s.rd.rbio)
           o == [s.rd EXCEPT !.rbio = Tail(@), !.seq = @ + 1]
           c == [ct |-> rec.ct, data |-> rec.body]
           f == [o EXCEPT !.rcontent = c]
           so == State(s.rl, o, s.app)
           sf == State(s.rl, f, s.app)
<1>1. RdOK(s.rd) /\ MaxSeq \in Nat /\ peer.units \in Nat
  BY MaxSeqAssumption DEF CallOK, PeerOK
<1>2. CASE s.rd.rbio = << >>
  <2>1. t = Returns(s, "WANT_POLLIN")
    BY <1>2 DEF tls13_record_layer_read_record
  <2>2. Conforms(Returns(s, "WANT_POLLIN"))
    BY ReturnConforms
  <2> QED BY <2>1, <2>2, ReturnFields
<1>3. CASE s.rd.rbio # << >> /\ ~s.rd.lost_update
  <2>1. rec \in Wire /\ rec = s.rd.rbio[1] /\ Tail(s.rd.rbio) \in Seq(Wire) /\ Len(s.rd.rbio) # 0
    BY <1>3
  <2>2. /\ Chained(Tail(s.rd.rbio)) /\ Regular(rec, peer.open)
        /\ Begin(Tail(s.rd.rbio), NextGen(rec), NextSeq(rec), Opens(rec))
    BY <1>3, <2>1, ChainTail DEF Steady
  <2>3. rec.gen = s.rd.gen /\ rec.seq = s.rd.seq /\ (Closes(rec) <=> s.rd.hs_msg)
    BY <1>3, <2>1 DEF Synced, Begin, At
  <2>4. /\ rec.ct \in {"app", "handshake", "alert"}
        /\ rec.ct = "alert" => \/ rec.body[2] = TLS13_ALERT_USER_CANCELED
                               \/ rec.body[2] = TLS13_ALERT_CLOSE_NOTIFY
                               \/ rec.body[1] = "fatal" /\ ~peer.open
        /\ rec.ct = "handshake" =>
              rec.body[1].msg \in {"key_update_requested", "key_update_not_requested",
                                   "new_session_ticket"}
    BY <2>1, <2>2, RegularFacts
  <2>5. rec.ct = "handshake" =>
            /\ rec.body # << >> /\ rec.body[1].part \in {"whole", "first", "last"}
            /\ rec.body[1].part = "first" => ~Updates(rec)
    <3>1. rec.ct = "handshake" => rec.body \in Messages
      BY <2>1, WireFacts
    <3>2. ~Carries("handshake", << >>, KeyUpdates)
      BY DEF Carries
    <3> HIDE DEF rec
    <3> QED BY <3>1, <3>2, MessageFacts DEF Updates
  <2>6. \/ s.rd.seq = MaxSeq /\ t = Returns(s, "FAILURE")
        \/ s.rd.seq # MaxSeq /\ rec.ct = "alert"
              /\ t = tls13_record_layer_process_alert(so, rec.body)
        \/ s.rd.seq # MaxSeq /\ rec.ct # "alert" /\ t = Returns(sf, "SUCCESS")
    BY <1>3, <2>3, <2>4, <2>5 DEF tls13_record_layer_read_record, Returns, State
  <2>7. /\ o.rbio = Tail(s.rd.rbio) /\ o.rcontent = s.rd.rcontent
        /\ o.gen = s.rd.gen /\ o.seq = s.rd.seq + 1 /\ o.hs_msg = s.rd.hs_msg
        /\ o.alert = s.rd.alert /\ o.phh_count = s.rd.phh_count /\ o.phh = s.rd.phh
        /\ ~o.lost_update
    BY <1>1, <1>3 DEF RdOK
  <2>8. /\ f.rbio = Tail(s.rd.rbio) /\ f.rcontent = c
        /\ f.gen = s.rd.gen /\ f.seq = s.rd.seq + 1 /\ f.hs_msg = s.rd.hs_msg
        /\ f.alert = s.rd.alert /\ f.phh_count = s.rd.phh_count /\ f.phh = s.rd.phh
        /\ ~f.lost_update
    BY <1>1, <1>3 DEF RdOK
  <2>9. ASSUME s.rd.seq # MaxSeq PROVE RdOK(o) /\ RdOK(f)
    <3>1. s.rd.seq + 1 \in 0 .. MaxSeq
      BY <1>1, <2>9 DEF RdOK
    <3>2. RdOK(o)
      BY <1>1, <3>1 DEF RdOK
    <3> HIDE DEF o
    <3> QED BY <3>2 DEF RdOK
  <2>10. Part(s.rd, 0) = << >>
    BY DEF Part
  <2> HIDE DEF t, rec, o, f
  <2>11. Part(s.rd, 1) = IF rec.ct = "app" THEN rec.body ELSE << >>
    BY <2>1 DEF Part
  <2>12. ASSUME rec.ct # "handshake"
         PROVE  Begin(Tail(s.rd.rbio), s.rd.gen, s.rd.seq + 1, FALSE) /\ s.rd.hs_msg = FALSE
    <3>1. ~Closes(rec) /\ ~Opens(rec) /\ ~Updates(rec)
      BY <2>12 DEF Closes, Opens, Updates, Carries
    <3>2. NextGen(rec) = s.rd.gen /\ NextSeq(rec) = s.rd.seq + 1
      BY <2>3, <3>1 DEF NextGen, NextSeq
    <3>3. s.rd.hs_msg = FALSE
      BY <1>1, <2>3, <3>1 DEF RdOK
    <3>4. Begin(Tail(s.rd.rbio), s.rd.gen, s.rd.seq + 1, FALSE)
      BY <2>2, <3>1, <3>2 DEF Begin, At
    <3> QED BY <3>3, <3>4
  <2>13. CASE s.rd.seq = MaxSeq /\ t = Returns(s, "FAILURE")
    <3>1. Conforms(t)
      BY <2>13, ReturnConforms
    <3> QED BY <2>13, <3>1, ReturnFields DEF t
  <2>14. CASE s.rd.seq # MaxSeq /\ rec.ct = "alert"
              /\ t = tls13_record_layer_process_alert(so, rec.body)
    <3>1. CallOK(so, base) /\ so.rd = o /\ so.rl = s.rl /\ so.app = s.app
      BY <2>9, <2>14 DEF CallOK, State
    <3> HIDE DEF so
    <3>2. Stream(o, s.app.consumed)
      <4>1. Part(o, 0) = << >>
        BY <2>7 DEF Part
      <4> QED BY <1>1, <1>3, <2>7, <2>10, <2>11, <2>14, <4>1, StreamOpened DEF Steady
    <3>3. Steady(so)
      BY <2>2, <2>7, <3>1, <3>2 DEF Steady
    <3>4. Tidy(so.rd) /\ Synced(so.rd)
      BY <2>7, <2>14, <2>12, <3>1 DEF Tidy, Synced
    <3> QED BY <2>4, <2>7, <2>14, <3>1, <3>3, <3>4, ProcessAlertConforms DEF t
  <2>15. CASE s.rd.seq # MaxSeq /\ rec.ct # "alert" /\ t = Returns(sf, "SUCCESS")
    <3>1. CallOK(sf, base) /\ sf.rd = f /\ sf.rl = s.rl /\ sf.app = s.app
      BY <2>9, <2>15 DEF CallOK, State
    <3> HIDE DEF sf
    <3>2. Stream(f, s.app.consumed)
      <4>1. Part(f, 0) = IF rec.ct = "app" THEN rec.body ELSE << >>
        BY <2>8 DEF Part
      <4> QED BY <1>1, <1>3, <2>8, <2>10, <2>11, <4>1, StreamOpened DEF Steady
    <3>3. /\ t.rl.ret = "SUCCESS" /\ t.rd = f /\ t.app = s.app
          /\ SamePending(s.rl, t.rl) /\ t.rl.wrec = s.rl.wrec /\ t.rl.seq = s.rl.seq
      BY <2>15, <3>1, ReturnFields
    <3>4. Steady(t)
      BY <2>2, <2>8, <3>2, <3>3 DEF Steady, SamePending, Left, Err
    <3>5. CASE rec.ct = "app"
      <4>1. Synced(f) /\ ~f.hs_msg
        BY <2>8, <2>12, <3>5 DEF Synced
      <4>2. f.rcontent.ct # "handshake"
        BY <2>8, <3>5
      <4> QED BY <2>8, <3>3, <3>4, <4>1, <4>2 DEF Loaded, Tidy, t
    <3>6. CASE rec.ct = "handshake"
      <4>1. f.rcontent.ct = "handshake" /\ f.rcontent.data = rec.body
        BY <2>8, <3>6
      <4>2. Ahead(f)
        <5>1. rec.body[1].part = "last" <=> f.hs_msg
          BY <2>3, <2>8, <3>6 DEF Closes
        <5>2. CASE rec.body[1].part = "first"
          <6>1. Begin(f.rbio, f.gen, f.seq, TRUE)
            BY <2>2, <2>3, <2>5, <2>8, <3>6, <5>2 DEF NextGen, NextSeq, Opens
          <6> QED BY <2>4, <2>8, <3>6, <4>1, <5>1, <5>2, <6>1 DEF Ahead
        <5>3. CASE rec.body[1].part # "first"
          <6>1. Past(f, rec.body)
            BY <2>2, <2>3, <2>8, <3>6, <5>3 DEF NextGen, NextSeq, Updates, Opens, Past
          <6> QED BY <2>4, <2>8, <3>6, <4>1, <5>1, <5>3, <6>1 DEF Ahead
        <5> QED BY <5>2, <5>3
      <4> QED BY <2>5, <2>8, <3>3, <3>4, <3>6, <4>1, <4>2 DEF Loaded, Tidy, t
    <3> QED BY <2>4, <2>15, <3>5, <3>6
  <2> QED BY <2>6, <2>13, <2>14, <2>15
<1>4. CASE s.rd.rbio # << >> /\ s.rd.lost_update
  <2>1. rec = s.rd.rbio[1] /\ Len(s.rd.rbio) # 0
    BY <1>4
  <2>2. rec.gen = s.rd.gen + 1
    BY <1>4, <2>1 DEF Synced, Begin, At
  <2>3. rec.gen # s.rd.gen
    BY <1>1, <2>2 DEF RdOK
  <2>4. t = Returns(s, "FAILURE")
    BY <1>4, <2>3 DEF tls13_record_layer_read_record
  <2>5. Conforms(Returns(s, "FAILURE"))
    BY <1>4, ReturnConforms
  <2> QED BY <2>4, <2>5, ReturnFields
<1> QED BY <1>2, <1>3, <1>4

(* An operation of the write path that settles what is pending. *)
LEMMA SettledConforms ==
    ASSUME NEW s, NEW l, NEW a, Conforms(s), s.rl.ret \notin Fatal, Settled(s.rl, l),
           SettledLeft(s.rl, l, Sent(s.app)),
           a.shutdown = s.app.shutdown, a.consumed = s.app.consumed
    PROVE  Conforms(State(l, s.rd, a))
<1>1. (Sent(a) <=> Sent(s.app)) /\ (Err(l) => Err(s.rl)) /\ Left(l, Sent(a))
  BY DEF Sent, Settled, SettledLeft
<1>2. Base(l, s.rd, a)
  BY <1>1 DEF Conforms, Base, Settled
<1>3. Explained(l, s.rd, a)
  BY <1>1 DEF Conforms, Base, Explained, SettledLeft, Fatal
<1> QED BY <1>2, <1>3 DEF Conforms, State

(* Sending what is pending, and reading up to the point where there is      *)
(* content.                                                                 *)
LEMMA PullUpConforms ==
    ASSUME NEW s, NEW base \in Nat, CallOK(s, base), Placed(s.rl), Begins(s),
           Conforms(s), s.rl.ret \notin Fatal
    PROVE  LET t == PullUp(s)
           IN  /\ t.rd.hs_msg = s.rd.hs_msg
               /\ t.rl.ret # "SUCCESS" => Conforms(t)
               /\ t.rl.ret = "SUCCESS" => Loaded(t)
               /\ t.rl.ret = "SUCCESS" /\ s.rd.hs_msg => t.rd.rcontent.ct = "handshake"
<1> DEFINE l == tls13_record_layer_send_pending(s.rl)
           p == State(l, s.rd, s.app)
           t == PullUp(s)
           sent == Sent(s.app)
<1>1. PendingSent(s.rl, l, base) /\ Settled(s.rl, l)
  BY SendPending, SendPendingSettles DEF CallOK, Kept, Ready
<1>2. SettledLeft(s.rl, l, sent)
  <2>1. sent \in BOOLEAN /\ Left(s.rl, sent) /\ (s.rl.write_closed => sent)
    BY DEF Sent, Conforms, Base, Explained
  <2> HIDE DEF sent
  <2> QED BY <2>1, SendPendingSettles DEF CallOK, Kept, Ready
<1>3. \/ l.ret # "SUCCESS" /\ t = p
      \/ l.ret = "SUCCESS" /\ l.read_closed /\ t = Returns(p, "EOF")
      \/ /\ l.ret = "SUCCESS" /\ ~l.read_closed /\ s.rd.rcontent.data = << >>
         /\ t = tls13_record_layer_read_record(p)
      \/ l.ret = "SUCCESS" /\ ~l.read_closed /\ s.rd.rcontent.data # << >> /\ t = p
  BY DEF PullUp, AfterPending, State
<1> HIDE DEF l, t
<1>4. CallOK(p, base) /\ p.rl = l /\ p.rd = s.rd /\ p.app = s.app
  BY <1>1 DEF PendingSent, CallOK, State
<1> HIDE DEF p
<1>5. CASE l.ret # "SUCCESS" /\ t = p
  <2>1. Conforms(p)
    BY <1>1, <1>2, SettledConforms DEF p, sent
  <2> QED BY <1>4, <1>5, <2>1 DEF t
<1>6. CASE l.ret = "SUCCESS"
  <2>1. ~Err(s.rl) /\ l.alert_data = NoAlert /\ (Synced(s.rd) \/ l.read_closed)
    BY <1>1, <1>6 DEF Settled, Conforms, Base
  <2>2. Steady(p)
    BY <1>2, <1>4, <1>6, <2>1 DEF Steady, Conforms, Base, Explained, SettledLeft, sent
  <2>3. Tidy(p.rd)
    BY <1>4 DEF Conforms
  <2>4. CASE l.read_closed /\ t = Returns(p, "EOF")
    <3>1. Conforms(t)
      BY <1>4, <2>2, <2>3, <2>4, ReturnConforms
    <3> QED BY <1>4, <2>4, <3>1, ReturnFields DEF t
  <2>5. CASE /\ ~l.read_closed /\ s.rd.rcontent.data = << >>
             /\ t = tls13_record_layer_read_record(p)
    BY <1>4, <2>1, <2>2, <2>3, <2>5, ReadRecordConforms DEF Begins, t
  <2>6. CASE ~l.read_closed /\ s.rd.rcontent.data # << >> /\ t = p
    <3>1. ~s.rd.hs_msg /\ s.rd.rcontent.ct = "app" /\ (s.rd.phh => s.rd.hs_msg)
      BY <2>6 DEF Conforms, Tidy, Begins, ContentOK
    <3>2. Loaded(t)
      BY <1>4, <2>1, <2>2, <2>6, <3>1 DEF Loaded
    <3> QED BY <1>4, <1>6, <2>6, <3>1, <3>2 DEF t
  <2> QED BY <1>3, <1>6, <2>4, <2>5, <2>6
<1> QED BY <1>3, <1>5, <1>6

(* Clearing the content when there is no KeyUpdate in it, or none that is   *)
(* still to be read.                                                        *)
LEMMA LostConforms ==
    ASSUME NEW s, NEW base \in Nat, CallOK(s, base), Base(s.rl, s.rd, s.app),
           Explained(s.rl, s.rd, s.app),
           ~Brings(s.rd.rcontent) \/ Err(s.rl) \/ s.rl.read_closed
    PROVE  Base(s.rl, Lost(s.rd), s.app) /\ Explained(s.rl, Lost(s.rd), s.app)
<1> DEFINE e == Lost(s.rd)
<1>1. /\ e.rbio = s.rd.rbio /\ e.gen = s.rd.gen /\ e.seq = s.rd.seq
      /\ e.rcontent = s.rd.rcontent /\ e.alert = s.rd.alert
      /\ e.hs_msg = s.rd.hs_msg /\ e.phh_count = s.rd.phh_count
      /\ e.lost_update <=> s.rd.lost_update \/ Brings(s.rd.rcontent)
  BY LostFields DEF CallOK
<1> HIDE DEF e
<1>2. Stream(e, s.app.consumed)
  <2>1. Part(e, 0) = Part(s.rd, 0)
    BY <1>1 DEF Part
  <2> QED BY <1>1, <2>1, StreamSame DEF Base
<1>3. Synced(e) \/ Err(s.rl) \/ s.rl.read_closed
  BY <1>1 DEF Base, Synced
<1>4. Base(s.rl, e, s.app)
  BY <1>1, <1>2, <1>3 DEF Base, Reason
<1>5. Explained(s.rl, e, s.app)
  BY <1>1 DEF Explained, Reason
<1> QED BY <1>4, <1>5 DEF e

(* The end of the callback. *)
LEMMA PhhReturnConforms ==
    ASSUME NEW s, NEW base \in Nat, CallOK(s, base), Base(s.rl, Lost(s.rd), s.app),
           Explained(s.rl, Lost(s.rd), s.app), Part(s.rd, 0) = << >>,
           s.rl.ret = "WANT_POLLIN" => s.rd.hs_msg
    PROVE  Conforms(PhhReturn(s))
<1> DEFINE e == Lost(s.rd)
           d == [tls_content_clear(e) EXCEPT !.phh = s.rl.ret = "WANT_POLLIN"]
           r == IF s.rl.ret # "SUCCESS" THEN s.rl
                ELSE Return(s.rl, IF PhhRetry THEN "WANT_RETRY" ELSE "WANT_POLLIN")
<1>0. RdOK(e) /\ e.hs_msg = s.rd.hs_msg /\ e.rcontent = s.rd.rcontent
  BY LostFields DEF CallOK
<1>1. /\ d.rbio = e.rbio /\ d.rcontent = NoContent /\ d.gen = e.gen /\ d.seq = e.seq
      /\ d.hs_msg = e.hs_msg /\ d.alert = e.alert /\ d.phh_count = e.phh_count
      /\ d.lost_update = e.lost_update
      /\ d.phh <=> s.rl.ret = "WANT_POLLIN"
  <2> HIDE DEF e
  <2> QED BY <1>0 DEF RdOK, tls_content_clear
<1>2. PhhReturn(s) = State(r, d, s.app)
  BY DEF PhhReturn
<1>3. /\ r.wrec = s.rl.wrec /\ r.seq = s.rl.seq /\ r.alert_data = s.rl.alert_data
      /\ r.phh_data = s.rl.phh_data /\ r.read_closed = s.rl.read_closed
      /\ r.write_closed = s.rl.write_closed
      /\ r.ret = s.rl.ret \/ (s.rl.ret = "SUCCESS" /\ r.ret \in {"WANT_RETRY", "WANT_POLLIN"})
  BY DEF CallOK, Kept, Good, RL, Return
<1> HIDE DEF r, d, e
<1>4. Stream(d, s.app.consumed)
  <2>1. Part(d, 0) = << >> /\ Part(e, 0) = << >>
    BY <1>0, <1>1 DEF Part, NoContent
  <2>2. Stream(e, s.app.consumed)
    BY DEF Base, e
  <2> QED BY <1>1, <2>1, <2>2, StreamSame
<1>5. (Err(r) <=> Err(s.rl)) /\ Left(r, Sent(s.app))
  BY <1>3 DEF Err, Base, Left
<1>6. Synced(d) <=> Synced(e)
  BY <1>1 DEF Synced
<1>7. Reason(d) <=> Reason(e)
  BY <1>1 DEF Reason
<1>8. Base(r, d, s.app)
  <2>1. Base(s.rl, e, s.app)
    BY DEF e
  <2> QED BY <2>1, <1>1, <1>3, <1>4, <1>5, <1>6, <1>7 DEF Base
<1>9. Tidy(d)
  BY <1>0, <1>1 DEF Tidy, NoContent
<1>10. Explained(r, d, s.app)
  <2>1. Explained(s.rl, e, s.app)
    BY DEF e
  <2> QED BY <2>1, <1>1, <1>3, <1>7 DEF Explained, Fatal
<1> QED BY <1>2, <1>8, <1>9, <1>10 DEF Conforms, State

(* A message of a conforming peer is handled. *)
LEMMA PhhMessageConforms ==
    ASSUME NEW s, NEW msg, NEW base \in Nat, CallOK(s, base), Placed(s.rl), Steady(s),
           s.rd.hs_msg = FALSE, ~s.rd.lost_update,
           msg \in KeyUpdates => ~Brings(s.rd.rcontent),
           IF msg \in KeyUpdates \/ Brings(s.rd.rcontent)
           THEN Begin(s.rd.rbio, s.rd.gen + 1, 0, FALSE)
           ELSE Begin(s.rd.rbio, s.rd.gen, s.rd.seq, FALSE),
           msg \in {"key_update_requested", "key_update_not_requested", "new_session_ticket"}
    PROVE  LET t == PhhMessage(s, msg)
           IN  /\ Base(t.rl, Lost(t.rd), t.app) /\ Explained(t.rl, Lost(t.rd), t.app)
               /\ t.rl.ret # "WANT_POLLIN" /\ t.rd.rcontent = s.rd.rcontent
<1> DEFINE t == PhhMessage(s, msg)
           d == [s.rd EXCEPT !.gen = @ + 1, !.seq = 0]
           q == tls13_record_layer_phh([s.rl EXCEPT !.key_update_request = TRUE])
           sd == State(s.rl, d, s.app)
           e == Lost(d)
           f == Lost(s.rd)
           sent == Sent(s.app)
<1>0. /\ RdOK(d) /\ d.rbio = s.rd.rbio /\ d.rcontent = s.rd.rcontent /\ d.gen = s.rd.gen + 1
      /\ d.seq = 0 /\ d.hs_msg = FALSE /\ d.alert = s.rd.alert /\ d.phh_count = s.rd.phh_count
      /\ ~d.lost_update
  BY MaxSeqAssumption DEF CallOK, RdOK
<1> HIDE DEF d
<1>1. /\ e.rbio = s.rd.rbio /\ e.rcontent = s.rd.rcontent /\ e.gen = s.rd.gen + 1
      /\ e.seq = 0 /\ e.hs_msg = FALSE /\ e.alert = s.rd.alert /\ e.phh_count = s.rd.phh_count
      /\ e.lost_update <=> Brings(s.rd.rcontent)
  BY <1>0, LostFields
<1>2. /\ f.rbio = s.rd.rbio /\ f.rcontent = s.rd.rcontent /\ f.gen = s.rd.gen
      /\ f.seq = s.rd.seq /\ f.hs_msg = FALSE /\ f.alert = s.rd.alert
      /\ f.phh_count = s.rd.phh_count
      /\ f.lost_update <=> Brings(s.rd.rcontent)
  BY LostFields DEF CallOK
<1> HIDE DEF e, f
<1>3. Stream(e, s.app.consumed) /\ Stream(f, s.app.consumed)
  <2>1. Part(e, 0) = Part(s.rd, 0) /\ Part(f, 0) = Part(s.rd, 0)
    BY <1>1, <1>2 DEF Part
  <2> QED BY <1>1, <1>2, <2>1, StreamSame DEF Steady
<1>4. CASE msg = "key_update_requested"
  <2>1. t = State(q, d, s.app)
    BY <1>4 DEF PhhMessage, tls13_key_update_recv, d
  <2>2. /\ sent \in BOOLEAN /\ Left(s.rl, sent) /\ (s.rl.write_closed => sent)
        /\ ~s.rl.phh_data \/ s.rl.write_closed
        /\ s.rl.alert_data = NoAlert
    BY DEF Steady, Sent
  <2> HIDE DEF sent
  <2>3. /\ ~Err(q) /\ Left(q, sent)
        /\ q.ret \in {"SUCCESS", "EOF", "WANT_POLLOUT", "FAILURE"}
        /\ q.ret = "FAILURE" => q.seq = MaxSeq \/ sent
        /\ q.write_closed => sent
    BY <2>2, PhhSettles DEF CallOK, Kept, Ready
  <2> HIDE DEF q, t
  <2>4. t.rl = q /\ t.rd = d /\ t.app = s.app
    BY <2>1 DEF State
  <2>5. Synced(e)
    BY <1>1, <1>4 DEF Synced, KeyUpdates
  <2>6. Base(q, e, s.app)
    BY <1>1, <1>3, <2>3, <2>5 DEF Base, Steady, sent
  <2>7. Explained(q, e, s.app)
    BY <2>3 DEF Explained, sent
  <2> QED BY <1>0, <2>3, <2>4, <2>6, <2>7 DEF t, e
<1>5. CASE msg = "key_update_not_requested"
  <2>1. t = Returns(sd, "SUCCESS")
    BY <1>5 DEF PhhMessage, tls13_key_update_recv, Returns, State, d
  <2>2. CallOK(sd, base) /\ sd.rl = s.rl /\ sd.rd = d /\ sd.app = s.app
    BY <1>0 DEF CallOK, State
  <2> HIDE DEF sd, t
  <2>3. /\ t.rl.ret = "SUCCESS" /\ t.rd = d /\ t.app = s.app
        /\ SamePending(s.rl, t.rl) /\ t.rl.wrec = s.rl.wrec /\ t.rl.seq = s.rl.seq
    BY <2>1, <2>2, ReturnFields
  <2>4. Synced(e)
    BY <1>1, <1>5 DEF Synced, KeyUpdates
  <2>5. ~Err(t.rl) /\ Left(t.rl, Sent(s.app))
    BY <2>3 DEF Steady, SamePending, Err, Left
  <2>6. Base(t.rl, e, t.app)
    BY <1>1, <1>3, <2>3, <2>4, <2>5 DEF Base, Steady
  <2>7. Explained(t.rl, e, t.app)
    BY <2>3 DEF Explained, Steady, SamePending
  <2> QED BY <1>0, <2>3, <2>6, <2>7 DEF t, e
<1>6. CASE msg = "new_session_ticket"
  <2>1. t = Returns(s, "SUCCESS")
    BY <1>6 DEF PhhMessage, tls13_new_session_ticket_recv
  <2> HIDE DEF t
  <2>3. /\ t.rl.ret = "SUCCESS" /\ t.rd = s.rd /\ t.app = s.app
        /\ SamePending(s.rl, t.rl) /\ t.rl.wrec = s.rl.wrec /\ t.rl.seq = s.rl.seq
    BY <2>1, ReturnFields
  <2>4. Synced(f)
    BY <1>2, <1>6 DEF Synced, KeyUpdates
  <2>5. ~Err(t.rl) /\ Left(t.rl, Sent(s.app))
    BY <2>3 DEF Steady, SamePending, Err, Left
  <2>6. Base(t.rl, f, t.app)
    BY <1>2, <1>3, <2>3, <2>4, <2>5 DEF Base, Steady
  <2>7. Explained(t.rl, f, t.app)
    BY <2>3 DEF Explained, Steady, SamePending
  <2> QED BY <2>3, <2>6, <2>7 DEF t, f
<1> QED BY <1>4, <1>5, <1>6

(* The message in the content is taken, or the first fragment of it. *)
LEMMA MsgRecvConforms ==
    ASSUME NEW s, NEW base \in Nat, CallOK(s, base), Placed(s.rl), Steady(s), Ahead(s.rd),
           Held(s.rd.rcontent), s.rd.rcontent.ct = "handshake", s.rd.rcontent.data # << >>
    PROVE  Conforms(tls13_handshake_msg_recv(s))
<1> DEFINE c == s.rd.rcontent
           item == Head(c.data)
           b == [c EXCEPT !.data = Tail(@)]
           d == [s.rd EXCEPT !.rcontent.data = Tail(@), !.hs_msg = item.part = "first"]
           t == State(s.rl, d, s.app)
           m == PhhMessage(t, item.msg)
<1>1. /\ DOMAIN c = {"ct", "data"} /\ item = c.data[1]
      /\ item.part = "first" \/ item.msg \in KeyUpdates => Tail(c.data) = << >>
      /\ Carries("handshake", c.data, KeyUpdates) <=>
            \/ item.msg \in KeyUpdates /\ item.part # "first"
            \/ Carries("handshake", Tail(c.data), KeyUpdates)
  <2> HIDE DEF c
  <2> QED BY HeldFacts DEF c
<1>2. b.ct = "handshake" /\ b.data = Tail(c.data)
  BY <1>1
<1>3. /\ RdOK(d) /\ d.rbio = s.rd.rbio /\ d.rcontent = b /\ d.gen = s.rd.gen
      /\ d.seq = s.rd.seq /\ d.alert = s.rd.alert /\ d.phh_count = s.rd.phh_count
      /\ d.hs_msg = (item.part = "first") /\ d.lost_update = s.rd.lost_update
  BY DEF CallOK, RdOK
<1>4. tls13_handshake_msg_recv(s) =
          IF item.part = "first" THEN Returns(t, "NESTED") ELSE PhhReturn(m)
  BY DEF tls13_handshake_msg_recv, Returns, State
<1>5. /\ item.msg \in {"key_update_requested", "key_update_not_requested", "new_session_ticket"}
      /\ IF item.part = "first" THEN Begin(s.rd.rbio, s.rd.gen, s.rd.seq, TRUE)
         ELSE Past(s.rd, c.data)
      /\ ~s.rd.lost_update
  BY <1>1 DEF Ahead
<1> HIDE DEF d, item, b
<1>6. CallOK(t, base) /\ Placed(t.rl) /\ t.rl = s.rl /\ t.rd = d /\ t.app = s.app
  BY <1>3 DEF CallOK, State
<1> HIDE DEF t, c
<1>7. Part(d, 0) = << >>
  BY <1>2, <1>3 DEF Part
<1>8. Stream(d, s.app.consumed)
  <2>1. Part(s.rd, 0) = << >>
    BY DEF Part
  <2> QED BY <1>3, <1>7, <2>1, StreamSame DEF Steady
<1>9. Steady(t)
  BY <1>3, <1>6, <1>8 DEF Steady
<1>10. CASE item.part = "first"
  <2>1. d.hs_msg = TRUE
    BY <1>3, <1>10
  <2>2. Synced(d)
    BY <1>3, <1>5, <1>10, <2>1 DEF Synced
  <2>3. Tidy(d)
    BY <1>1, <1>2, <1>3, <1>10, <2>1 DEF Tidy
  <2> QED BY <1>4, <1>6, <1>9, <1>10, <2>1, <2>2, <2>3, ReturnConforms
<1>11. CASE item.part # "first"
  <2>1. d.hs_msg = FALSE
    BY <1>3, <1>11
  <2>2. /\ item.msg \in KeyUpdates => ~Brings(d.rcontent)
        /\ IF item.msg \in KeyUpdates \/ Brings(d.rcontent)
           THEN Begin(d.rbio, d.gen + 1, 0, FALSE) ELSE Begin(d.rbio, d.gen, d.seq, FALSE)
    <3>1. Brings(d.rcontent) <=> Carries("handshake", Tail(c.data), KeyUpdates)
      BY <1>2, <1>3 DEF Brings
    <3>2. item.msg \in KeyUpdates => ~Carries("handshake", Tail(c.data), KeyUpdates)
      BY <1>1 DEF Carries
    <3> QED BY <1>1, <1>3, <1>5, <1>11, <3>1, <3>2 DEF Past
  <2>3. /\ Base(m.rl, Lost(m.rd), m.app) /\ Explained(m.rl, Lost(m.rd), m.app)
        /\ m.rl.ret # "WANT_POLLIN" /\ m.rd.rcontent = d.rcontent
    BY <1>3, <1>5, <1>6, <1>9, <2>1, <2>2, PhhMessageConforms
  <2>4. CallOK(m, base)
    BY <1>6, PhhMessageStep DEF ReadStep
  <2> HIDE DEF m
  <2>5. Part(m.rd, 0) = << >>
    BY <1>2, <1>3, <2>3 DEF Part
  <2> QED BY <1>4, <1>11, <2>3, <2>4, <2>5, PhhReturnConforms
<1> QED BY <1>10, <1>11

(* tls13_record_layer_recv_phh: only too many messages are refused. *)
LEMMA RecvPhhConforms ==
    ASSUME NEW s, NEW base \in Nat, CallOK(s, base), Placed(s.rl), Steady(s), Ahead(s.rd),
           Held(s.rd.rcontent), s.rd.rcontent.ct = "handshake", s.rd.rcontent.data # << >>
    PROVE  Conforms(tls13_record_layer_recv_phh(s))
<1> DEFINE d == [s.rd EXCEPT !.phh = TRUE]
           c == PhhCounted(d)
           t == State(s.rl, d, s.app)
           u == State(s.rl, c, s.app)
           a == SendsAlert(t, TLS13_ALERT_UNEXPECTED_MESSAGE)
<1>1. /\ RdOK(d) /\ d.rbio = s.rd.rbio /\ d.rcontent = s.rd.rcontent
      /\ d.gen = s.rd.gen /\ d.seq = s.rd.seq /\ d.hs_msg = s.rd.hs_msg
      /\ d.alert = s.rd.alert /\ d.phh_count = s.rd.phh_count
      /\ d.lost_update = s.rd.lost_update
  BY DEF CallOK, RdOK
<1>2. s.rd.phh_count \in Nat
  BY DEF Steady
<1>3. /\ RdOK(c) /\ c.rbio = s.rd.rbio /\ c.rcontent = s.rd.rcontent
      /\ c.gen = s.rd.gen /\ c.seq = s.rd.seq /\ c.hs_msg = s.rd.hs_msg
      /\ c.alert = s.rd.alert /\ c.phh_count \in Nat /\ c.lost_update = s.rd.lost_update
  <2> HIDE DEF d
  <2> QED BY <1>1, <1>2 DEF RdOK, PhhCounted
<1>4. tls13_record_layer_recv_phh(s) =
          IF ~tls13_phh_limit_check(d) THEN PhhReturn(a) ELSE tls13_handshake_msg_recv(u)
  BY DEF tls13_record_layer_recv_phh, tls13_phh_received_cb, State
<1> HIDE DEF d, c
<1>5. /\ CallOK(t, base) /\ t.rl = s.rl /\ t.rd = d /\ t.app = s.app
      /\ CallOK(u, base) /\ u.rl = s.rl /\ u.rd = c /\ u.app = s.app
  BY <1>1, <1>3 DEF CallOK, State
<1> HIDE DEF t, u
<1>6. Part(s.rd, 0) = << >> /\ Part(d, 0) = << >> /\ Part(c, 0) = << >>
  BY <1>1, <1>3 DEF Part
<1>7. Stream(d, s.app.consumed) /\ Stream(c, s.app.consumed)
  BY <1>1, <1>3, <1>6, StreamSame DEF Steady
<1>8. CASE ~tls13_phh_limit_check(d)
  <2>1. Steady(t)
    BY <1>1, <1>5, <1>7 DEF Steady
  <2>2. Reason(t.rd)
    BY <1>1, <1>2, <1>5, <1>8, PhhAssumption DEF tls13_phh_limit_check, Reason
  <2>3. TLS13_ALERT_UNEXPECTED_MESSAGE \in 1 .. NoAlert - 1
    BY DEF TLS13_ALERT_UNEXPECTED_MESSAGE, NoAlert
  <2>4. /\ Base(a.rl, a.rd, a.app) /\ Explained(a.rl, a.rd, a.app)
        /\ a.rl.ret # "WANT_POLLIN" /\ a.rd = t.rd /\ (Err(a.rl) \/ a.rl.read_closed)
    BY <1>5, <2>1, <2>2, <2>3, ErrorConforms
  <2>5. CallOK(a, base)
    BY <1>5, AlertStep DEF ReadStep, TLS13_ALERT_UNEXPECTED_MESSAGE, NoAlert
  <2> HIDE DEF a
  <2>6. Base(a.rl, Lost(a.rd), a.app) /\ Explained(a.rl, Lost(a.rd), a.app)
    BY <2>4, <2>5, LostConforms
  <2> QED BY <1>4, <1>5, <1>6, <1>8, <2>4, <2>5, <2>6, PhhReturnConforms
<1>9. CASE tls13_phh_limit_check(d)
  <2>1. Steady(u)
    BY <1>3, <1>5, <1>7 DEF Steady
  <2>2. Ahead(u.rd)
    BY <1>3, <1>5 DEF Ahead, Past
  <2> QED BY <1>3, <1>4, <1>5, <1>9, <2>1, <2>2, MsgRecvConforms
<1> QED BY <1>8, <1>9

(* Application data is taken from the content, or looked at. *)
LEMMA ContentReadConforms ==
    ASSUME NEW s, NEW n \in Nat, NEW peek, NEW base \in Nat, CallOK(s, base), PeerOK,
           s.rd.rbio \in Seq(Wire), Loaded(s), Held(s.rd.rcontent),
           s.rd.rcontent.ct # "handshake", s.rd.rcontent.data # << >>
    PROVE  Conforms(tls_content_read(s, n, peek))
<1> DEFINE data == s.rd.rcontent.data
           k == IF n < Len(data) THEN n ELSE Len(data)
           rest == SubSeq(data, k + 1, Len(data))
           c == [s.rd.rcontent EXCEPT !.data = rest]
           d == [s.rd EXCEPT !.rcontent.data = rest]
           b == [s.app EXCEPT !.consumed = @ + k]
           t == State(s.rl, d, b)
<1>1. /\ DOMAIN s.rd.rcontent = {"ct", "data"} /\ s.rd.rcontent.ct = "app"
      /\ data \in Seq(Nat)
  BY HeldFacts
<1>2. Len(data) \in Nat /\ k \in 0 .. Len(data)
  BY <1>1
<1>3. Steady(s) /\ Synced(s.rd) /\ ~s.rd.hs_msg /\ Tidy(s.rd)
  BY DEF Loaded, Tidy
<1>4. tls_content_read(s, n, peek) =
          IF peek THEN Returns(s, "SUCCESS") ELSE Returns(t, "SUCCESS")
  BY DEF tls_content_read, Returns, State
<1>5. Conforms(Returns(s, "SUCCESS"))
  BY <1>3, ReturnConforms
<1> HIDE DEF k, data
<1>6. c.ct = "app" /\ c.data = rest
  BY <1>1
<1>7. /\ RdOK(d) /\ d.rcontent = c /\ d.rbio = s.rd.rbio /\ d.gen = s.rd.gen
      /\ d.seq = s.rd.seq /\ d.hs_msg = s.rd.hs_msg /\ d.phh = s.rd.phh
      /\ d.alert = s.rd.alert /\ d.phh_count = s.rd.phh_count
      /\ d.lost_update = s.rd.lost_update
  BY DEF CallOK, RdOK
<1>8. /\ AppOK(b) /\ b.consumed = s.app.consumed + k /\ (Sent(b) <=> Sent(s.app))
  BY DEF CallOK, AppOK, Sent
<1> HIDE DEF c, d, b, rest
<1>9. CallOK(t, base) /\ t.rl = s.rl /\ t.rd = d /\ t.app = b
  BY <1>7, <1>8 DEF CallOK, State
<1> HIDE DEF t
<1>10. Stream(d, b.consumed)
  <2>1. Part(s.rd, 0) = data /\ Part(d, 0) = rest
    BY <1>1, <1>6, <1>7 DEF Part, data
  <2>2. data # << >> /\ Len(s.rd.rbio) \in Nat /\ peer.units \in Nat
    BY DEF data, PeerOK
  <2>3. Stream(s.rd, s.app.consumed)
    BY <1>3 DEF Steady
  <2>4. Stream(d, s.app.consumed + k)
    BY <1>2, <1>7, <2>1, <2>2, <2>3, StreamTaken DEF rest
  <2> QED BY <1>8, <2>4
<1>11. Left(s.rl, Sent(b)) /\ (s.rl.write_closed => Sent(b))
  BY <1>3, <1>8 DEF Steady, Left
<1>12. Steady(t)
  BY <1>3, <1>7, <1>9, <1>10, <1>11 DEF Steady
<1>13. Synced(t.rd) /\ Tidy(t.rd)
  BY <1>3, <1>7, <1>9 DEF Synced, Tidy
<1>14. Conforms(Returns(t, "SUCCESS"))
  BY <1>9, <1>12, <1>13, ReturnConforms
<1> QED BY <1>4, <1>5, <1>14

(* tls13_record_layer_read_internal as a whole. *)
LEMMA ReadInternalConforms ==
    ASSUME NEW s, NEW n \in Nat, NEW peek, NEW base \in Nat, CallOK(s, base), Placed(s.rl),
           Begins(s), Conforms(s), s.rl.ret \notin Fatal
    PROVE  Conforms(tls13_record_layer_read_internal(s, n, peek))
<1> DEFINE t == PullUp(s)
           i == tls13_record_layer_read_internal(s, n, peek)
<1>1. CallOK(t, base) /\ (t.rl.ret = "SUCCESS" => Filled(t))
  BY PullUpStep, PullUpFills DEF ReadStep, Begins
<1>2. (t.rl.ret # "SUCCESS" => Conforms(t)) /\ (t.rl.ret = "SUCCESS" => Loaded(t))
  BY PullUpConforms
<1>3. \/ t.rl.ret # "SUCCESS" /\ i = t
      \/ /\ t.rl.ret = "SUCCESS"
         /\ \/ t.rd.rcontent.data = << >> /\ i = Returns(t, "WANT_POLLIN")
            \/ /\ t.rd.rcontent.data # << >> /\ t.rd.rcontent.ct = "handshake"
               /\ i = tls13_record_layer_recv_phh(t)
            \/ /\ t.rd.rcontent.data # << >> /\ t.rd.rcontent.ct # "handshake"
               /\ \/ t.rd.phh /\ i = SendsAlert(t, TLS13_ALERT_UNEXPECTED_MESSAGE)
                  \/ ~t.rd.phh /\ i = tls_content_read(t, n, peek)
  BY DEF tls13_record_layer_read_internal, UseContent
<1> HIDE DEF t, i
<1>4. CASE t.rl.ret # "SUCCESS" /\ i = t
  BY <1>2, <1>4 DEF i
<1>5. CASE t.rl.ret = "SUCCESS"
  <2>1. Filled(t) /\ Placed(t.rl) /\ Loaded(t)
    BY <1>1, <1>2, <1>5, KeptReady DEF CallOK, Ready
  <2>2. CASE t.rd.rcontent.data = << >> /\ i = Returns(t, "WANT_POLLIN")
    <3>1. Steady(t) /\ Synced(t.rd) /\ Tidy(t.rd)
      BY <2>1, <2>2 DEF Loaded, Tidy
    <3> QED BY <1>1, <2>2, <3>1, ReturnConforms DEF i
  <2>3. CASE /\ t.rd.rcontent.data # << >> /\ t.rd.rcontent.ct = "handshake"
             /\ i = tls13_record_layer_recv_phh(t)
    BY <1>1, <2>1, <2>3, RecvPhhConforms DEF Filled, Loaded, i
  <2>4. CASE /\ t.rd.rcontent.data # << >> /\ t.rd.rcontent.ct # "handshake"
             /\ i = tls_content_read(t, n, peek)
    BY <1>1, <2>1, <2>4, ContentReadConforms DEF Filled, Begins, i
  <2>5. CASE t.rd.rcontent.data # << >> /\ t.rd.rcontent.ct # "handshake" /\ t.rd.phh
    BY <2>1, <2>5 DEF Loaded
  <2> QED BY <1>3, <1>5, <2>2, <2>3, <2>4, <2>5
<1> QED BY <1>3, <1>4, <1>5

(* Another value is returned. *)
LEMMA InsteadConforms ==
    ASSUME NEW s, NEW base \in Nat, CallOK(s, base), Conforms(s),
           s.rl.ret \notin Fatal \/ Sent(s.app), NEW ret, ret \notin Fatal,
           ret = "NESTED" => s.rd.hs_msg
    PROVE  Conforms(Returns(s, ret))
<1> DEFINE t == Returns(s, ret)
<1>1. /\ t.rl.ret = ret /\ t.rd = s.rd /\ t.app = s.app
      /\ SamePending(s.rl, t.rl) /\ t.rl.wrec = s.rl.wrec /\ t.rl.seq = s.rl.seq
  BY ReturnFields
<1> HIDE DEF t
<1>2. (Err(t.rl) <=> Err(s.rl)) /\ Left(t.rl, Sent(s.app))
  BY <1>1 DEF Conforms, Base, SamePending, Err, Left
<1>3. Base(t.rl, t.rd, t.app)
  BY <1>1, <1>2 DEF Conforms, Base, SamePending
<1>4. Explained(t.rl, t.rd, t.app)
  BY <1>1 DEF Conforms, Explained, SamePending, Fatal
<1> QED BY <1>1, <1>3, <1>4 DEF Conforms, t

(* The rest of a message. *)
LEMMA NestedReadConforms ==
    ASSUME NEW s, NEW base \in Nat, CallOK(s, base), Placed(s.rl), Begins(s), Conforms(s),
           s.rl.ret = "NESTED"
    PROVE  Conforms(NestedRead(s))
<1> DEFINE t == PullUp(s)
           w == Returns(t, "WANT_POLLIN")
           x == NestedRead(s)
<1>1. CallOK(t, base) /\ (t.rl.ret = "SUCCESS" => Filled(t))
  BY PullUpStep, PullUpFills DEF ReadStep, Begins
<1>2. s.rd.hs_msg /\ s.rl.ret \notin Fatal
  BY DEF Conforms, Explained, Fatal
<1>3. /\ t.rd.hs_msg
      /\ t.rl.ret # "SUCCESS" => Conforms(t)
      /\ t.rl.ret = "SUCCESS" => Loaded(t) /\ t.rd.rcontent.ct = "handshake"
  BY <1>2, PullUpConforms
<1>4. t.rl.ret # "SUCCESS" => AfterLoop(t) = t
  BY <1>3 DEF Conforms, Base, AfterLoop
<1>5. \/ t.rl.ret = "WANT_RETRY" /\ x = Returns(t, "NESTED")
      \/ t.rl.ret # "SUCCESS" /\ x = PhhReturn(t)
      \/ /\ t.rl.ret = "SUCCESS"
         /\ \/ t.rd.rcontent.data = << >> /\ x = PhhReturn(w)
            \/ t.rd.rcontent.data # << >> /\ x = tls13_handshake_msg_recv(t)
  BY <1>3, <1>4 DEF NestedRead, UseNestedContent
<1> HIDE DEF t, x
<1>6. CASE t.rl.ret = "WANT_RETRY" /\ x = Returns(t, "NESTED")
  BY <1>1, <1>3, <1>6, InsteadConforms DEF Fatal, x
<1>7. CASE t.rl.ret # "SUCCESS" /\ x = PhhReturn(t)
  <2>1. Part(t.rd, 0) = << >> /\ ~Brings(t.rd.rcontent)
    BY <1>3, <1>7 DEF Conforms, Tidy, Part, Brings, Carries
  <2>2. Base(t.rl, Lost(t.rd), t.app) /\ Explained(t.rl, Lost(t.rd), t.app)
    BY <1>1, <1>3, <1>7, <2>1, LostConforms DEF Conforms
  <2> QED BY <1>1, <1>3, <1>7, <2>1, <2>2, PhhReturnConforms DEF x
<1>8. CASE t.rl.ret = "SUCCESS"
  <2>1. Filled(t) /\ Placed(t.rl) /\ Loaded(t) /\ t.rd.rcontent.ct = "handshake"
    BY <1>1, <1>3, <1>8, KeptReady DEF CallOK, Ready
  <2>2. CASE t.rd.rcontent.data = << >> /\ x = PhhReturn(w)
    <3>1. Steady(t) /\ Synced(t.rd) /\ Tidy(t.rd)
      BY <2>1, <2>2 DEF Loaded, Tidy
    <3>2. Conforms(w) /\ w.rd = t.rd
      BY <1>1, <3>1, ReturnConforms, ReturnFields
    <3>3. CallOK(w, base)
      BY <1>1, <2>1, ReturnsStep DEF ReadStep, Ret
    <3> HIDE DEF w
    <3>4. Part(w.rd, 0) = << >> /\ ~Brings(w.rd.rcontent)
      BY <2>2, <3>2 DEF Part, Brings, Carries
    <3>5. Base(w.rl, Lost(w.rd), w.app) /\ Explained(w.rl, Lost(w.rd), w.app)
      BY <3>2, <3>3, <3>4, LostConforms DEF Conforms
    <3> QED BY <1>3, <2>2, <3>2, <3>3, <3>4, <3>5, PhhReturnConforms DEF x
  <2>3. CASE t.rd.rcontent.data # << >> /\ x = tls13_handshake_msg_recv(t)
    BY <1>1, <2>1, <2>3, MsgRecvConforms DEF Filled, Loaded, x
  <2> QED BY <1>5, <1>8, <2>2, <2>3
<1> QED BY <1>5, <1>6, <1>7, <1>8

(* An iteration of tls13_record_layer_read or tls13_record_layer_peek. *)
LEMMA ReadLayerConforms ==
    ASSUME NEW s, NEW n \in Nat, NEW peek, NEW base \in Nat, CallOK(s, base), Placed(s.rl),
           Begins(s), Conforms(s), s.rl.ret \notin Fatal
    PROVE  Conforms(tls13_record_layer_read(s, n, peek))
<1> DEFINE t == IF s.rl.ret = "NESTED" THEN NestedRead(s)
                ELSE tls13_record_layer_read_internal(s, n, peek)
<1>1. Conforms(t)
  BY NestedReadConforms, ReadInternalConforms
<1>2. tls13_record_layer_read(s, n, peek) = AfterLoop(t)
  BY DEF tls13_record_layer_read
<1> HIDE DEF t
<1>3. AfterLoop(t) = t
  BY <1>1 DEF AfterLoop, Conforms, Base
<1> QED BY <1>1, <1>2, <1>3

-----------------------------------------------------------------------------
(* The inductive invariant for a conforming peer. *)

(* The start of a step. *)
LEMMA CurrentConforms ==
    ASSUME NEW room, rl \in RL, Conforming, ~peer.faulty
    PROVE  LET s == Current(room)
           IN  Conforms(s) /\ s.rl.ret = rl.ret
<1> DEFINE q == [rl EXCEPT !.room = room]
<1>1. /\ q.ret = rl.ret /\ SamePending(rl, q) /\ q.wrec = rl.wrec /\ q.seq = rl.seq
  BY DEF RL, SamePending
<1>2. Conforms(State(rl, rd, app))
  BY DEF Conforming
<1> HIDE DEF q
<1>3. Base(rl, rd, app) /\ Tidy(rd) /\ Explained(rl, rd, app)
  BY <1>2 DEF Conforms, State
<1>4. (Err(q) <=> Err(rl)) /\ Left(q, Sent(app))
  BY <1>1, <1>3 DEF Base, SamePending, Err, Left
<1>5. Base(q, rd, app)
  BY <1>1, <1>3, <1>4 DEF Base, SamePending
<1>6. Explained(q, rd, app)
  BY <1>1, <1>3 DEF Explained, SamePending
<1>7. Current(room) = State(q, rd, app)
  BY DEF Current, q
<1>8. Conforms(State(q, rd, app)) /\ State(q, rd, app).rl = q
  BY <1>3, <1>5, <1>6 DEF Conforms, State
<1> QED BY <1>1, <1>7, <1>8

(* What Conforms says of the new state, the peer being where it was. *)
LEMMA BecomesConforms ==
    ASSUME NEW s, s.rl \in RL, Conforms(s), Becomes(s)
    PROVE  Conforming'
<1> DEFINE q == [s.rl EXCEPT !.room = 0]
<1>1. rl' = q /\ rd' = s.rd /\ app' = s.app /\ peer' = peer
  BY DEF Becomes
<1>2. /\ q.ret = s.rl.ret /\ SamePending(s.rl, q) /\ q.wrec = s.rl.wrec /\ q.seq = s.rl.seq
  BY DEF RL, SamePending
<1> HIDE DEF q
<1>3. (Err(q) <=> Err(s.rl)) /\ Left(q, Sent(s.app))
  BY <1>2 DEF Conforms, Base, SamePending, Err, Left
<1>4. Base(q, s.rd, s.app) /\ Tidy(s.rd) /\ Explained(q, s.rd, s.app)
  BY <1>2, <1>3 DEF Conforms, Base, Explained, SamePending
<1>5. Chained(rd.rbio)'
  BY <1>1, <1>4 DEF Base, Chained
<1>6. (Synced(rd) \/ Err(rl) \/ rl.read_closed)'
  BY <1>1, <1>4 DEF Base, Synced, Begin, Err
<1>7. (rd.alert = 0 /\ rd.phh_count \in Nat /\ (Err(rl) => Reason(rd)))'
  BY <1>1, <1>4 DEF Base, Reason, Err
<1>8. Left(rl, Sent(app))'
  BY <1>1, <1>4 DEF Base, Left, Sent, Err
<1>9. Stream(rd, app.consumed)'
  BY <1>1, <1>4 DEF Base, Stream
<1>10. Tidy(rd)' /\ Explained(rl, rd, app)'
  BY <1>1, <1>4 DEF Tidy, Explained, Reason, Sent
<1>11. Base(rl, rd, app)'
  BY <1>5, <1>6, <1>7, <1>8, <1>9 DEF Base
<1>12. Conforms(State(rl, rd, app))'
  BY <1>10, <1>11 DEF Conforms, State
<1> QED BY <1>12 DEF Conforming

(* The call in progress has no part in it. *)
LEMMA CallConforms ==
    ASSUME NEW s, NEW a, a.shutdown = s.app.shutdown, a.consumed = s.app.consumed, Conforms(s)
    PROVE  Conforms(State(s.rl, s.rd, a))
<1>1. Sent(a) <=> Sent(s.app)
  BY DEF Sent
<1>2. Left(s.rl, Sent(a))
  BY <1>1 DEF Conforms, Base, Left
<1>3. Base(s.rl, s.rd, a) /\ Explained(s.rl, s.rd, a)
  BY <1>1, <1>2 DEF Conforms, Base, Explained
<1> QED BY <1>3 DEF Conforms, State

(* An iteration of SSL_read or SSL_peek. *)
LEMMA ReadStepConforms ==
    ASSUME NEW call, NEW n \in 1 .. 2, NEW room \in 0 .. RoomBound,
           Inv, ReadInv, Conforming, ~peer.faulty, rl.ret \notin Fatal, Read(call, n, room)
    PROVE  Conforming'
<1> DEFINE base == app.acked + app.wnum
           c == Current(room)
           s == tls13_record_layer_read(c, n, call = "peek")
           a == [s.app EXCEPT !.call = IF Loops(s) THEN call ELSE "none"]
           t == State(s.rl, s.rd, a)
<1>1. base \in Nat /\ n \in Nat /\ rl \in RL
  BY WriteLenAssumption DEF Inv, CallInv, AppOK, Kept, Good
<1>2. CallOK(c, base) /\ Placed(c.rl) /\ Begins(c) /\ Conforms(c) /\ c.rl.ret \notin Fatal
  <2>1. Conforms(c) /\ c.rl.ret = rl.ret
    BY <1>1, CurrentConforms
  <2> QED BY <2>1, CurrentReady, CurrentBegins DEF Fatal
<1> HIDE DEF c
<1>3. CallOK(s, base) /\ Conforms(s)
  BY <1>1, <1>2, ReadLayerStep, ReadLayerConforms DEF ReadStep
<1>4. Becomes(t)
  BY DEF Read, GoesOn, SetCall, c
<1> HIDE DEF s
<1>5. a.shutdown = s.app.shutdown /\ a.consumed = s.app.consumed
  BY <1>3 DEF CallOK, AppOK
<1> HIDE DEF a
<1>6. t.rl \in RL /\ Conforms(t)
  BY <1>3, <1>5, CallConforms DEF CallOK, Kept, Good, State
<1> HIDE DEF t
<1> QED BY <1>4, <1>6, BecomesConforms

(* An iteration of SSL_write. *)
LEMMA WriteStepConforms ==
    ASSUME NEW room \in 0 .. RoomBound, Inv, ReadInv, Conforming, ~peer.faulty,
           rl.ret \notin Fatal, Write(room)
    PROVE  Conforming'
<1> DEFINE base == app.acked + app.wnum
           c == Current(room)
           l == tls13_record_layer_write(c.rl, base + 1)
           sent == Sent(app)
<1>1. base \in Nat /\ rl \in RL
  BY WriteLenAssumption DEF Inv, CallInv, AppOK, Kept, Good
<1>2. /\ CallOK(c, base) /\ Placed(c.rl) /\ c.rd = rd /\ c.app = app
      /\ Conforms(c) /\ c.rl.ret \notin Fatal
  <2>1. Conforms(c) /\ c.rl.ret = rl.ret
    BY <1>1, CurrentConforms
  <2> QED BY <2>1, CurrentReady DEF Fatal
<1>3. PICK a : Becomes(State(l, rd, a)) /\ a.shutdown = app.shutdown /\ a.consumed = app.consumed
  <2> DEFINE x == [app EXCEPT !.call = "none"]
             y == [app EXCEPT !.call = "write", !.wnum = @ + 1]
             z == [app EXCEPT !.call = "none", !.wnum = 0, !.acked = @ + WriteLen]
  <2>1. \A v \in {x, y, z} : v.shutdown = app.shutdown /\ v.consumed = app.consumed
    BY <1>2 DEF CallOK, AppOK
  <2>2. \E v \in {x, y, z} : Becomes(State(l, rd, v))
    BY DEF Write
  <2> HIDE DEF x, y, z, l
  <2> QED BY <2>1, <2>2
<1> HIDE DEF c
<1>4. sent \in BOOLEAN /\ Left(c.rl, sent) /\ (c.rl.write_closed => sent)
  BY <1>2 DEF Sent, Conforms, Base, Explained
<1> HIDE DEF sent
<1>5. /\ Settled(c.rl, l) /\ SettledLeft(c.rl, l, sent)
      /\ l.ret = "SUCCESS" => Ready(l, base + 1)
      /\ l.ret # "SUCCESS" => Kept(l, base)
  BY <1>1, <1>2, <1>4, WriteKeeps, WriteSettles DEF CallOK, Kept, Ready
<1> HIDE DEF l
<1>6. l \in RL
  BY <1>5 DEF Ready, Kept, Good
<1> DEFINE t == State(l, rd, a)
<1>7. Conforms(t)
  BY <1>2, <1>3, <1>5, SettledConforms DEF sent
<1>8. Becomes(t) /\ t.rl = l
  BY <1>3 DEF State
<1> HIDE DEF t
<1> QED BY <1>6, <1>7, <1>8, BecomesConforms

(* The read of SSL_shutdown, after the close_notify. *)
LEMMA ShutdownReadConforms ==
    ASSUME NEW s, NEW base \in Nat, CallOK(s, base), s.rl.write_closed, PeerOK,
           s.rd.rbio \in Seq(Wire), ContentOK(s.rd.rcontent),
           Conforms(s), s.rl.ret \notin Fatal
    PROVE  Conforms(ShutdownRead(s))
<1> DEFINE n == Len(s.rd.rcontent.data) + 512
           t == tls13_record_layer_read(s, n, FALSE)
           ret == IF "received" \in t.app.shutdown THEN "SUCCESS" ELSE "AGAIN"
           u == Returns(t, ret)
           x == ShutdownRead(s)
           a == [t.app EXCEPT !.call = "shutdown"]
           b == [u.app EXCEPT !.call = "none"]
<1>1. n \in Nat
  <2>1. s.rd.rcontent.data = << >> \/ s.rd.rcontent.data \in Seq(Nat)
    BY DEF ContentOK
  <2>2. Len(s.rd.rcontent.data) \in Nat
    BY <2>1
  <2> QED BY <2>2
<1> HIDE DEF n
<1>2. Placed(s.rl) /\ Begins(s)
  BY DEF Placed, Begins, Answered
<1>3. Sent(s.app)
  BY DEF Conforms, Explained
<1>4. CallOK(t, base) /\ Conforms(t) /\ Sent(t.app)
  BY <1>1, <1>2, <1>3, ReadLayerStep, ReadLayerConforms DEF ReadStep, SameWriter, Sent
<1>5. x = State(t.rl, t.rd, a) \/ x = State(u.rl, u.rd, b)
  BY ZenonT(40) DEF ShutdownRead, ShutdownReturn, SetCall, n
<1> HIDE DEF t, x
<1>6. Conforms(u) /\ u.app = t.app
  <2>1. ret \notin Fatal /\ ret # "NESTED"
    BY DEF Fatal
  <2> HIDE DEF ret
  <2> QED BY <1>4, <2>1, InsteadConforms, ReturnFields
<1> HIDE DEF u, ret
<1>7. /\ a.shutdown = t.app.shutdown /\ a.consumed = t.app.consumed
      /\ b.shutdown = u.app.shutdown /\ b.consumed = u.app.consumed
  BY <1>4, <1>6 DEF CallOK, AppOK
<1> HIDE DEF a, b
<1> QED BY <1>4, <1>5, <1>6, <1>7, CallConforms DEF x

(* SSL_shutdown, first call or later. *)
LEMMA ShutdownConforms ==
    ASSUME NEW room \in 0 .. RoomBound, Inv, ReadInv, Conforming, ~peer.faulty,
           SSL_shutdown(room)
    PROVE  Conforming'
<1> DEFINE base == app.acked + app.wnum
           s == Current(room)
           first == "sent" \notin s.app.shutdown
           b == [s.app EXCEPT !.shutdown = @ \cup {"sent"}]
           q == tls13_send_alert(s.rl, TLS13_ALERT_CLOSE_NOTIFY)
           p == tls13_record_layer_send_pending(s.rl)
           tried == IF first THEN State(q, s.rd, b) ELSE State(p, s.rd, s.app)
           t == tls13_legacy_shutdown(s)
<1>1. base \in Nat /\ rl \in RL
  BY WriteLenAssumption DEF Inv, CallInv, AppOK, Kept, Good
<1>2. Becomes(t) /\ app.call = "none" /\ rl.ret \notin Fatal
  BY DEF SSL_shutdown, Idle
<1>3. /\ CallOK(s, base) /\ Placed(s.rl) /\ Begins(s) /\ s.app = app
      /\ SamePending(rl, s.rl) /\ Conforms(s) /\ s.rl.ret \notin Fatal
  <2>1. Conforms(s) /\ s.rl.ret = rl.ret
    BY <1>1, CurrentConforms
  <2> QED BY <1>2, <2>1, CurrentReady, CurrentBegins DEF Fatal
<1> HIDE DEF s
<1>4. \/ t = tried
      \/ tried.rl.ret = "EOF" /\ t = Returns(tried, "AGAIN")
      \/ ~first /\ tried.rl.ret = "SUCCESS" /\ t = ShutdownRead(tried)
  BY DEF tls13_legacy_shutdown
<1> HIDE DEF t
<1>5. /\ CallOK(tried, base) /\ Conforms(tried) /\ tried.rd = s.rd
      /\ ~first /\ tried.rl.ret = "SUCCESS" => tried.rl.write_closed
  <2>1. CASE first
    <3>1. Kept(q, base) /\ CloseSent(s.rl, q)
      BY <1>1, <1>3, SendAlertKeeps, CloseSettles DEF CallOK, TLS13_ALERT_CLOSE_NOTIFY, NoAlert
    <3> HIDE DEF q
    <3>2. AppOK(b) /\ b.consumed = s.app.consumed /\ Sent(b)
      BY <1>3 DEF CallOK, AppOK, Sent
    <3>3. Sent(s.app) = FALSE
      BY <2>1 DEF Sent
    <3>4. ~s.rl.write_closed /\ Left(s.rl, FALSE)
      BY <1>3, <3>3 DEF Conforms, Base, Explained
    <3>5. /\ Left(q, TRUE) /\ q.ret \in {"SUCCESS", "EOF", "WANT_POLLOUT", "FAILURE"}
          /\ Err(q) <=> Err(s.rl)
          /\ s.rl.read_closed => q.read_closed
      BY <3>1, <3>4 DEF CloseSent
    <3>6. Left(q, Sent(b))
      BY <3>2, <3>5 DEF Left
    <3> HIDE DEF b
    <3>7. Base(q, s.rd, b)
      BY <1>3, <3>2, <3>5, <3>6 DEF Conforms, Base
    <3>8. Explained(q, s.rd, b)
      BY <3>2, <3>5 DEF Explained
    <3>9. tried = State(q, s.rd, b)
      BY <2>1
    <3> HIDE DEF tried
    <3>10. CallOK(tried, base) /\ Conforms(tried)
      BY <1>3, <3>1, <3>2, <3>7, <3>8, <3>9 DEF CallOK, Conforms, State
    <3> QED BY <2>1, <3>9, <3>10 DEF State
  <2>2. CASE ~first
    <3>1. PendingSent(s.rl, p, base) /\ Settled(s.rl, p)
      BY <1>1, <1>3, SendPending, SendPendingSettles DEF CallOK, Kept, Ready
    <3>2. SettledLeft(s.rl, p, Sent(s.app))
      <4> DEFINE sent == Sent(s.app)
      <4>1. sent \in BOOLEAN /\ Left(s.rl, sent) /\ (s.rl.write_closed => sent)
        BY <1>3 DEF Sent, Conforms, Base, Explained
      <4> HIDE DEF sent
      <4>2. SettledLeft(s.rl, p, sent)
        BY <1>1, <1>3, <4>1, SendPendingSettles DEF CallOK, Kept, Ready
      <4> QED BY <4>2 DEF sent
    <3> HIDE DEF p
    <3>3. p.ret = "SUCCESS" => p.write_closed
      BY <1>3, <2>2, <3>1 DEF Inv, CallInv, Closing, SamePending, PendingSent, Monotone, Settled
    <3>4. tried = State(p, s.rd, s.app)
      BY <2>2
    <3> HIDE DEF tried
    <3>5. CallOK(tried, base) /\ Conforms(tried) /\ tried.rd = s.rd /\ tried.rl = p
      BY <1>3, <3>1, <3>2, <3>4, SettledConforms DEF CallOK, State, PendingSent
    <3> QED BY <3>3, <3>5
  <2> QED BY <2>1, <2>2
<1>6. s.rd.rbio \in Seq(Wire) /\ ContentOK(s.rd.rcontent) /\ PeerOK
  BY <1>3 DEF Begins
<1> HIDE DEF tried, first
<1>7. CASE t = tried
  BY <1>2, <1>5, <1>7, BecomesConforms DEF CallOK, Kept, Good
<1>8. CASE tried.rl.ret = "EOF" /\ t = Returns(tried, "AGAIN")
  <2>1. Placed(tried.rl)
    BY <1>5, <1>8 DEF CallOK, Kept
  <2>2. CallOK(t, base)
    BY <1>1, <1>5, <1>8, <2>1, ReturnsStep DEF ReadStep, Ret
  <2>3. Conforms(t) /\ t.rl \in RL
    BY <1>1, <1>5, <1>8, <2>2, InsteadConforms DEF Fatal, CallOK, Kept, Good
  <2> QED BY <1>2, <2>3, BecomesConforms
<1>9. CASE ~first /\ tried.rl.ret = "SUCCESS" /\ t = ShutdownRead(tried)
  <2>1. Conforms(t) /\ t.rl \in RL
    BY <1>1, <1>5, <1>6, <1>9, ShutdownReadConforms, ShutdownReadRests DEF Fatal
  <2> QED BY <1>2, <2>1, BecomesConforms
<1> QED BY <1>4, <1>7, <1>8, <1>9

-----------------------------------------------------------------------------
(* The peer sends on. *)

(* The units of application data in a record. *)
Payload(rec) == IF rec.ct = "app" THEN rec.body ELSE << >>

(* What a record of a conforming peer is, between what was sent before and  *)
(* what may come after.                                                     *)
LEMMA NextRecord ==
    ASSUME NEW kind \in Traffic, PeerOK, PeerSend(kind), ~peer'.faulty
    PROVE  LET rec == PeerRecord(kind)
           IN  /\ peer.open /\ rec \in Wire /\ rec.gen = peer.gen /\ rec.seq = peer.seq
               /\ Regular(rec, peer'.open)
               /\ Closes(rec) <=> peer.partial # "none"
               /\ Opens(rec) <=> peer'.partial # "none"
               /\ peer'.gen = NextGen(rec) /\ peer'.seq = NextSeq(rec)
               /\ Payload(rec) \in Seq(Nat)
               /\ peer'.units = peer.units + Len(Payload(rec))
               /\ \A i \in 1 .. Len(Payload(rec)) : Payload(rec)[i] = peer.units + i
<1> DEFINE rec == PeerRecord(kind)
           more == IF kind \in DOMAIN Units THEN Units[kind] ELSE 0
           update == kind \in UpdatingKinds
<1>1. kind \in Kinds
  BY TrafficAssumption
<1>2. /\ rec \in Wire /\ rec.gen = peer.gen /\ rec.seq = peer.seq
      /\ kind \in DOMAIN Units => rec.ct = "app"
      /\ kind \in DOMAIN Units => rec.body = [i \in 1 .. Units[kind] |-> peer.units + i]
      /\ kind \in DOMAIN Handshakes => rec.ct = "handshake" /\ rec.body = Handshakes[kind]
      /\ kind \in DOMAIN Alerts => rec.ct = "alert" /\ rec.body = Alerts[kind]
  BY <1>1, PeerRecordFacts
<1>3. /\ peer.open /\ InTurn(kind)
      /\ peer'.gen = peer.gen + (IF update THEN 1 ELSE 0)
      /\ peer'.seq = (IF update THEN 0 ELSE peer.seq + 1)
      /\ peer'.units = peer.units + more
      /\ peer'.partial = (IF kind \in {"request_first", "ticket_first"} THEN kind ELSE "none")
      /\ kind \notin Malformed /\ ~(peer.partial # "none" /\ kind = "data_1")
      /\ peer'.open => kind \notin {"close_notify", "fatal_alert"}
  BY DEF PeerSend, UpdatingKinds, RequestingKinds
<1>4. peer.gen \in Nat /\ peer.seq \in Nat /\ peer.units \in Nat
      /\ peer.partial \in {"none", "request_first", "ticket_first"}
  BY DEF PeerOK
<1>5. /\ DOMAIN Units = {"data_0", "data_1", "data_2"}
      /\ DOMAIN Handshakes = {"update", "update_request", "ticket", "bad_update", "bad_type",
                              "two_tickets", "ticket_update", "ticket_request",
                              "request_first", "request_last", "ticket_first", "ticket_last"}
      /\ DOMAIN Alerts = {"close_notify", "user_canceled", "fatal_alert", "warning_alert"}
  BY DEF Units, Handshakes, Alerts
<1>6. peer.partial # "none" <=> kind \in {"request_last", "ticket_last"}
  BY <1>3, <1>4 DEF InTurn
<1>7. kind \in DOMAIN Units \cup DOMAIN Handshakes \cup DOMAIN Alerts
  BY <1>1, <1>3 DEF Kinds
<1> HIDE DEF rec, more, update
<1>8. CASE kind \in DOMAIN Units
  <2>1. rec.ct = "app" /\ Payload(rec) = [i \in 1 .. Units[kind] |-> peer.units + i]
    BY <1>2, <1>8 DEF Payload
  <2>2. Units[kind] \in Nat /\ more = Units[kind]
    BY <1>5, <1>8 DEF Units, more
  <2>3. /\ Payload(rec) \in Seq(Nat) /\ Len(Payload(rec)) = Units[kind]
        /\ \A i \in 1 .. Units[kind] : Payload(rec)[i] = peer.units + i
    <3>1. Payload(rec) \in [1 .. Units[kind] -> Nat]
      BY <1>4, <2>1, <2>2
    <3> QED BY <2>1, <2>2, <3>1
  <2>4. ~update /\ peer'.partial = "none" /\ peer.partial = "none"
    BY <1>3, <1>4, <1>5, <1>6, <1>8 DEF update, UpdatingKinds, RequestingKinds
  <2>5. Regular(rec, peer'.open) /\ ~Closes(rec) /\ ~Opens(rec) /\ ~Updates(rec)
    BY <2>1 DEF Regular, Closes, Opens, Updates, Carries
  <2>6. NextGen(rec) = peer.gen /\ NextSeq(rec) = peer.seq + 1
    BY <1>2, <2>5 DEF NextGen, NextSeq
  <2> QED BY <1>2, <1>3, <1>4, <2>2, <2>3, <2>4, <2>5, <2>6 DEF rec
<1>9. CASE kind \in DOMAIN Handshakes
  <2>1. rec.ct = "handshake" /\ rec.body = Handshakes[kind] /\ Payload(rec) = << >>
    BY <1>2, <1>9 DEF Payload
  <2>2. more = 0
    BY <1>5, <1>9 DEF more
  <2>3. kind \in {"update", "update_request", "ticket", "two_tickets", "ticket_update",
                  "ticket_request", "request_first", "request_last", "ticket_first",
                  "ticket_last"}
    BY <1>3, <1>5, <1>9 DEF Malformed
  <2>4. /\ rec.body[1].msg \notin {"key_update_illegal", "certificate_request"}
        /\ rec.body[1].part = "last" <=> kind \in {"request_last", "ticket_last"}
        /\ rec.body[1].part = "first" <=> kind \in {"request_first", "ticket_first"}
    BY <2>1, <2>3, HandshakeFacts DEF Item
  <2>5. Regular(rec, peer'.open)
    BY <2>1, <2>4 DEF Regular
  <2>6. /\ Closes(rec) <=> peer.partial # "none"
        /\ Opens(rec) <=> peer'.partial # "none"
        /\ Updates(rec) <=> update
    <3>1. Updates(rec) <=> update
      BY <1>9, <2>1, CarriersOfUpdates DEF Updates, update, UpdatingKinds, RequestingKinds
    <3> QED BY <1>3, <1>6, <2>1, <2>4, <3>1 DEF Closes, Opens
  <2>7. peer'.gen = NextGen(rec) /\ peer'.seq = NextSeq(rec)
    BY <1>2, <1>3, <1>4, <2>6 DEF NextGen, NextSeq
  <2>8. Payload(rec) \in Seq(Nat) /\ Len(Payload(rec)) = 0
    BY <2>1
  <2> QED BY <1>2, <1>3, <1>4, <2>2, <2>5, <2>6, <2>7, <2>8 DEF rec
<1>10. CASE kind \in DOMAIN Alerts
  <2>1. rec.ct = "alert" /\ rec.body = Alerts[kind] /\ Payload(rec) = << >>
    BY <1>2, <1>10 DEF Payload
  <2>2. more = 0 /\ ~update /\ peer'.partial = "none" /\ peer.partial = "none"
    BY <1>3, <1>4, <1>5, <1>6, <1>10 DEF more, update, UpdatingKinds, RequestingKinds
  <2>3. \/ rec.body[2] = TLS13_ALERT_USER_CANCELED
        \/ rec.body[2] = TLS13_ALERT_CLOSE_NOTIFY
        \/ rec.body[1] = "fatal" /\ ~peer'.open
    BY <1>3, <1>5, <1>10, <2>1 DEF Alerts, Malformed
  <2>4. Regular(rec, peer'.open) /\ ~Closes(rec) /\ ~Opens(rec) /\ ~Updates(rec)
    BY <2>1, <2>3 DEF Regular, Closes, Opens, Updates, Carries
  <2>5. NextGen(rec) = peer.gen /\ NextSeq(rec) = peer.seq + 1
    BY <1>2, <2>4 DEF NextGen, NextSeq
  <2>6. Payload(rec) \in Seq(Nat) /\ Len(Payload(rec)) = 0
    BY <2>1
  <2> QED BY <1>2, <1>3, <1>4, <2>2, <2>4, <2>5, <2>6 DEF rec
<1> QED BY <1>7, <1>8, <1>9, <1>10

(* Its units come after those that are unread. *)
LEMMA StreamSent ==
    ASSUME NEW d, NEW e, NEW lo, NEW hi \in Nat, NEW rec \in Wire, d.rbio \in Seq(Wire),
           Runs(Parts(d), Len(d.rbio), lo, hi), e.rbio = Append(d.rbio, rec),
           e.rcontent = d.rcontent, Payload(rec) \in Seq(Nat),
           \A i \in 1 .. Len(Payload(rec)) : Payload(rec)[i] = hi + i
    PROVE  Runs(Parts(e), Len(e.rbio), lo, hi + Len(Payload(rec)))
<1> DEFINE m == Len(d.rbio)
           U == Parts(d)
           V == Parts(e)
           n == Len(Payload(rec))
<1>1. /\ m \in Nat /\ n \in Nat /\ Len(e.rbio) = m + 1 /\ e.rbio[m + 1] = rec
      /\ \A k \in 1 .. m : e.rbio[k] = d.rbio[k]
  OBVIOUS
<1>2. ASSUME NEW k \in 0 .. m PROVE V[k] = U[k]
  <2>1. V[k] = Part(e, k) /\ U[k] = Part(d, k)
    BY <1>1 DEF Parts
  <2>2. k # 0 => e.rbio[k] = d.rbio[k]
    BY <1>1
  <2> QED BY <2>1, <2>2 DEF Part
<1>3. V[m + 1] = Payload(rec)
  <2>1. m + 1 \in 0 .. Len(e.rbio) /\ m + 1 # 0
    BY <1>1
  <2> QED BY <1>1, <2>1 DEF Parts, Part, Payload
<1> HIDE DEF U, V, m, n
<1>4. Runs(U, m, lo, hi)
  BY DEF U, m
<1>5. V[m + 1] \in Seq(Nat) /\ Len(V[m + 1]) = n /\ \A i \in 1 .. n : V[m + 1][i] = hi + i
  BY <1>3 DEF n
<1>6. Runs(V, m + 1, lo, hi + n)
  <2>1. m \in Nat /\ n \in Nat /\ \A k \in 0 .. m : V[k] = U[k]
    BY <1>1, <1>2
  <2> QED BY <1>4, <1>5, <2>1, RunsAppend, ZenonT(40)
<1> QED BY <1>1, <1>6 DEF V, n

(* The peer sends a record and remains a conforming one. *)
LEMMA PeerSendConforms ==
    ASSUME NEW kind \in Traffic, Inv, ReadInv, Conforming, PeerSend(kind), ~peer'.faulty
    PROVE  Conforming'
<1> DEFINE rec == PeerRecord(kind)
           q == rd.rbio
           z == rd'.rbio
           n == Len(q)
<1>1. PeerOK /\ q \in Seq(Wire) /\ peer.units \in Nat
  BY DEF ReadInv, PeerOK
<1>2. /\ peer.open /\ rec \in Wire /\ rec.gen = peer.gen /\ rec.seq = peer.seq
      /\ Regular(rec, peer'.open)
      /\ Closes(rec) <=> peer.partial # "none"
      /\ Opens(rec) <=> peer'.partial # "none"
      /\ peer'.gen = NextGen(rec) /\ peer'.seq = NextSeq(rec)
      /\ Payload(rec) \in Seq(Nat)
      /\ peer'.units = peer.units + Len(Payload(rec))
      /\ \A i \in 1 .. Len(Payload(rec)) : Payload(rec)[i] = peer.units + i
  BY <1>1, NextRecord
<1>3. Base(rl, rd, app) /\ Tidy(rd) /\ Explained(rl, rd, app)
  BY <1>1, <1>2 DEF Conforming, Conforms, State, PeerOK
<1>4. rd' = [rd EXCEPT !.rbio = Append(@, rec)] /\ rl' = rl /\ app' = app
  BY DEF PeerSend
<1> HIDE DEF rec
<1>5. /\ z = Append(q, rec) /\ rd'.rcontent = rd.rcontent /\ rd'.gen = rd.gen
      /\ rd'.seq = rd.seq /\ rd'.alert = rd.alert /\ rd'.phh = rd.phh
      /\ rd'.hs_msg = rd.hs_msg /\ rd'.phh_count = rd.phh_count
      /\ rd'.lost_update = rd.lost_update
  BY <1>4 DEF Inv, CallInv, RdOK
<1>6. /\ n \in Nat /\ Len(z) = n + 1 /\ z[n + 1] = rec /\ \A i \in 1 .. n : z[i] = q[i]
  BY <1>1, <1>2, <1>5
<1>7. Chained(q)
  BY <1>3 DEF Base
<1> HIDE DEF n
<1>8. Chained(rd.rbio)'
  <2> HIDE DEF q, z
  <2>1. ASSUME NEW i \in 1 .. Len(z) PROVE Regular(z[i], peer'.open)
    <3>1. CASE i = n + 1
      BY <1>2, <1>6, <3>1
    <3>2. CASE i # n + 1
      <4>1. i \in 1 .. n /\ z[i] = q[i]
        BY <1>6, <3>2
      <4>2. Regular(q[i], peer.open)
        BY <1>7, <4>1 DEF Chained, n
      <4> QED BY <1>2, <4>1, <4>2 DEF Regular
    <3> QED BY <3>1, <3>2
  <2>2. ASSUME NEW i \in 1 .. Len(z) - 1
        PROVE  At(z[i + 1], NextGen(z[i]), NextSeq(z[i]), Opens(z[i]))
    <3>1. i \in 1 .. n /\ z[i] = q[i]
      BY <1>6
    <3>2. CASE i = n
      <4>1. /\ peer.gen = NextGen(q[n]) /\ peer.seq = NextSeq(q[n])
            /\ peer.partial # "none" <=> Opens(q[n])
        BY <1>7, <3>1, <3>2 DEF Chained, n
      <4> QED BY <1>2, <1>6, <3>1, <3>2, <4>1 DEF At
    <3>3. CASE i # n
      <4>1. i \in 1 .. n - 1 /\ i + 1 \in 1 .. n
        BY <1>6, <3>1, <3>3
      <4>2. At(q[i + 1], NextGen(q[i]), NextSeq(q[i]), Opens(q[i]))
        BY <1>7, <4>1 DEF Chained, n
      <4> QED BY <1>6, <3>1, <4>1, <4>2
    <3> QED BY <3>2, <3>3
  <2>3. /\ peer'.gen = NextGen(z[Len(z)]) /\ peer'.seq = NextSeq(z[Len(z)])
        /\ peer'.partial # "none" <=> Opens(z[Len(z)])
    BY <1>2, <1>6
  <2> QED BY <2>1, <2>2, <2>3 DEF Chained, z
<1>9. (Synced(rd) \/ Err(rl) \/ rl.read_closed)'
  <2>1. CASE Synced(rd)
    <3>1. ASSUME NEW gen, NEW seq, NEW middle, Begin(q, gen, seq, middle)
          PROVE  At(z[1], gen, seq, middle)
      <4>1. CASE n = 0
        <5>1. z[1] = rec /\ Len(q) = 0
          BY <1>6, <4>1 DEF n
        <5> QED BY <1>2, <3>1, <5>1 DEF Begin, At
      <4>2. CASE n # 0
        <5>1. z[1] = q[1] /\ Len(q) # 0
          BY <1>6, <4>2 DEF n
        <5> QED BY <3>1, <5>1 DEF Begin
      <4> QED BY <4>1, <4>2
    <3>2. /\ rd.lost_update => At(z[1], rd.gen + 1, 0, FALSE)
          /\ ~rd.lost_update => At(z[1], rd.gen, rd.seq, rd.hs_msg)
      BY <2>1, <3>1 DEF Synced
    <3>3. /\ rd'.lost_update => At(z[1], rd'.gen + 1, 0, FALSE)
          /\ ~rd'.lost_update => At(z[1], rd'.gen, rd'.seq, rd'.hs_msg)
          /\ Len(z) # 0
      <4>1. Len(z) # 0
        BY <1>6
      <4> HIDE DEF z
      <4> QED BY <1>5, <3>2, <4>1, Zenon
    <3> QED BY <3>3 DEF Synced, Begin
  <2>2. CASE Err(rl) \/ rl.read_closed
    BY <1>4, <2>2 DEF Err
  <2> QED BY <1>3, <2>1, <2>2 DEF Base
<1>10. Reason(rd) => Reason(rd)'
  BY <1>2, <1>5 DEF Reason
<1>11. (rd.alert = 0 /\ rd.phh_count \in Nat /\ (Err(rl) => Reason(rd)))'
  BY <1>3, <1>4, <1>5, <1>10 DEF Base, Err
<1>12. Left(rl, Sent(app))'
  BY <1>3, <1>4 DEF Base, Left, Sent, Err
<1>13. Stream(rd, app.consumed)'
  <2>1. Runs(Parts(rd), Len(rd.rbio), app.consumed, peer.units)
    BY <1>3 DEF Base, Stream
  <2>2. Runs(Parts(rd'), Len(rd'.rbio), app.consumed, peer.units + Len(Payload(rec)))
    BY <1>1, <1>2, <1>5, <2>1, StreamSent
  <2> QED BY <1>2, <1>4, <2>2 DEF Stream
<1>14. Tidy(rd)' /\ Explained(rl, rd, app)'
  BY <1>3, <1>4, <1>5, <1>10 DEF Tidy, Explained, Sent
<1>15. Base(rl, rd, app)'
  BY <1>8, <1>9, <1>11, <1>12, <1>13 DEF Base
<1>16. Conforms(State(rl, rd, app))'
  BY <1>14, <1>15 DEF Conforms, State
<1> QED BY <1>16 DEF Conforming

(* Time passes. *)
LEMMA HalfHourConforms ==
    ASSUME Inv, Conforming, ~peer.faulty, HalfHourPasses
    PROVE  Conforming'
<1> DEFINE d == [rd EXCEPT !.phh_idle = @ + 1]
           t == State(rl, d, app)
<1>1. rl \in RL /\ rl.room = 0 /\ RdOK(rd)
  BY DEF Inv, CallInv, Kept, Good
<1>2. /\ d.rbio = rd.rbio /\ d.rcontent = rd.rcontent /\ d.gen = rd.gen /\ d.seq = rd.seq
      /\ d.alert = rd.alert /\ d.phh = rd.phh /\ d.hs_msg = rd.hs_msg
      /\ d.phh_count = rd.phh_count /\ d.lost_update = rd.lost_update
  BY <1>1 DEF RdOK
<1>3. Base(rl, rd, app) /\ Tidy(rd) /\ Explained(rl, rd, app)
  BY DEF Conforming, Conforms, State
<1>4. rl' = rl /\ rd' = d /\ app' = app /\ peer' = peer
  BY DEF HalfHourPasses
<1> HIDE DEF d
<1>5. Stream(d, app.consumed)
  <2>1. Part(d, 0) = Part(rd, 0)
    BY <1>2 DEF Part
  <2> QED BY <1>2, <1>3, <2>1, StreamSame DEF Base
<1>6. Base(rl, d, app) /\ Tidy(d) /\ Explained(rl, d, app)
  BY <1>2, <1>3, <1>5 DEF Base, Synced, Reason, Tidy, Explained
<1>7. rl = [rl EXCEPT !.room = 0]
  BY <1>1 DEF RL
<1>8. Becomes(t) /\ t.rl = rl /\ Conforms(t)
  BY <1>4, <1>6, <1>7 DEF Becomes, State, Conforms
<1> HIDE DEF t
<1> QED BY <1>1, <1>8, BecomesConforms

(* Every step of the connection preserves the invariant. *)
LEMMA NextConforms ==
    ASSUME Inv, ReadInv, Conforming, [Next]_vars
    PROVE  Conforming'
<1> SUFFICES ASSUME ~peer'.faulty PROVE Conforming'
  BY DEF Conforming
<1>1. ASSUME NEW room \in 0 .. RoomBound, Call(room)
      PROVE  Conforming'
  <2>1. peer' = peer
    BY <1>1 DEF Call, SSL_read, Read, GoesOn, SSL_write, Write, SSL_shutdown, Continue, Becomes
  <2>2. ~peer.faulty
    BY <2>1
  <2>3. ASSUME NEW call \in {"read", "peek"}, NEW n \in 1 .. 2, SSL_read(call, n, room)
        PROVE  Conforming'
    BY <1>1, <2>2, <2>3, ReadStepConforms DEF SSL_read, Idle
  <2>4. CASE SSL_write(room)
    BY <1>1, <2>2, <2>4, WriteStepConforms DEF SSL_write, Idle
  <2>5. CASE SSL_shutdown(room)
    BY <1>1, <2>2, <2>5, ShutdownConforms
  <2>6. CASE Continue(room)
    <3>1. rl.ret \notin Fatal
      BY <2>6 DEF Continue, Inv, CallInv, Fatal
    <3>2. ASSUME NEW n \in 1 .. 2, Read(app.call, n, room) PROVE Conforming'
      BY <1>1, <2>2, <3>1, <3>2, ReadStepConforms
    <3>3. CASE Write(room)
      BY <1>1, <2>2, <3>1, <3>3, WriteStepConforms
    <3>4. CASE app.call = "shutdown" /\ Becomes(ShutdownRead(Current(room)))
      <4> DEFINE base == app.acked + app.wnum
                 s == Current(room)
                 t == ShutdownRead(s)
      <4>1. base \in Nat /\ rl \in RL
        BY WriteLenAssumption DEF Inv, CallInv, AppOK, Kept, Good
      <4>2. /\ CallOK(s, base) /\ SamePending(rl, s.rl) /\ Begins(s)
            /\ Conforms(s) /\ s.rl.ret \notin Fatal
        <5>1. Conforms(s) /\ s.rl.ret = rl.ret
          BY <2>2, <4>1, CurrentConforms
        <5> QED BY <1>1, <3>1, <5>1, CurrentReady, CurrentBegins DEF Fatal
      <4>3. Becomes(t)
        BY <3>4
      <4> HIDE DEF s
      <4>4. s.rl.write_closed
        BY <3>4, <4>2 DEF Inv, CallInv, SamePending
      <4>5. Conforms(t) /\ t.rl \in RL
        BY <4>1, <4>2, <4>4, ShutdownReadConforms, ShutdownReadRests DEF Begins
      <4> HIDE DEF t
      <4> QED BY <4>3, <4>5, BecomesConforms
    <3> QED BY <2>6, <3>2, <3>3, <3>4 DEF Continue
  <2> QED BY <1>1, <2>3, <2>4, <2>5, <2>6 DEF Call
<1>2. ASSUME NEW kind \in Traffic, PeerSend(kind)
      PROVE  Conforming'
  BY <1>2, PeerSendConforms
<1>3. CASE HalfHourPasses
  BY <1>3, HalfHourConforms DEF HalfHourPasses
<1>4. CASE UNCHANGED vars
  <2> DEFINE t == State(rl, rd, app)
  <2>1. rl \in RL /\ rl = [rl EXCEPT !.room = 0]
    BY DEF Inv, CallInv, Kept, Good, RL
  <2>2. Becomes(t) /\ t.rl = rl /\ Conforms(t)
    BY <1>4, <2>1 DEF vars, Becomes, State, Conforming
  <2> HIDE DEF t
  <2> QED BY <2>1, <2>2, BecomesConforms
<1> QED BY <1>1, <1>2, <1>3, <1>4 DEF Next, Stopped

(* It holds of the initial state. *)
LEMMA InitConforms == Init => Conforming
<1> SUFFICES ASSUME Init PROVE Conforms(State(rl, rd, app))
  BY DEF Conforming
<1>1. /\ rd.rbio = << >> /\ rd.rcontent = NoContent /\ rd.gen = 0 /\ rd.seq = 0
      /\ rd.alert = 0 /\ rd.phh_count = 0 /\ rd.phh = FALSE /\ rd.hs_msg = FALSE
      /\ rd.lost_update = FALSE
  BY DEF Init
<1>2. /\ rl.alert_data = NoAlert /\ rl.wrec.ct = "none" /\ rl.ret = "SUCCESS"
      /\ rl.write_closed = FALSE
  BY DEF Init, NoRecord
<1>3. peer.gen = 0 /\ peer.seq = 0 /\ peer.units = 0 /\ peer.partial = "none"
      /\ app.consumed = 0
  BY DEF Init
<1>4. Chained(rd.rbio) /\ Synced(rd) /\ ~Err(rl)
  BY <1>1, <1>2, <1>3 DEF Chained, Synced, Begin, Err
<1>5. Left(rl, Sent(app))
  BY <1>2, <1>4 DEF Left, NoAlert, TLS13_ALERT_CLOSE_NOTIFY
<1>6. Stream(rd, app.consumed)
  <2> DEFINE U == Parts(rd)
  <2>1. Len(rd.rbio) = 0 /\ Part(rd, 0) = << >>
    BY <1>1 DEF Part, NoContent
  <2>2. U[0] = << >>
    BY <2>1 DEF Parts
  <2> HIDE DEF U
  <2>3. Runs(U, 0, 0, 0)
    <3>1. << >> \in Seq(Nat) /\ Len(<< >>) = 0
      OBVIOUS
    <3>2. \A k \in 0 .. 0 : k = 0
      OBVIOUS
    <3>3. \A k \in 0 .. 0 : k = 0 /\ U[k] = << >> /\ U[k] \in Seq(Nat) /\ Len(U[k]) = 0
      BY <2>2, <3>1, <3>2, Zenon
    <3>4. 1 .. 0 = {} /\ 0 + 1 .. 0 = {}
      OBVIOUS
    <3> QED BY <3>3, <3>4 DEF Runs
  <2> QED BY <1>3, <2>1, <2>3 DEF Stream, U
<1>7. Base(rl, rd, app) /\ Tidy(rd) /\ Explained(rl, rd, app)
  BY <1>1, <1>2, <1>4, <1>5, <1>6 DEF Base, Tidy, Explained
<1> QED BY <1>7 DEF Conforms, State

(* What has been read fits what a conforming peer sends on, at every step,  *)
(* or lags behind it by the one key of a KeyUpdate that was thrown away     *)
(* with the ticket it came behind (tls13_record_layer_recv_phh).            *)
THEOREM ConformingInvariance == Spec => []Conforming
<1>1. Inv /\ ReadInv /\ Conforming /\ [Next]_vars => Conforming'
  BY NextConforms
<1> QED BY <1>1, InitConforms, Invariance, ReadInvariance, PTL DEF Spec

(* No call fails and no alert ends the connection without one of the        *)
(* reasons there are: an irregular peer, the end of the sequence numbers, a *)
(* shutdown under way, an alert received, too many messages after the       *)
(* handshake, or a KeyUpdate that tls13_record_layer_recv_phh has cleared.  *)
THEOREM FailuresHaveReasons == Spec => []NoSpuriousFailure
<1>1. Conforming => NoSpuriousFailure
  BY DEF Conforming, Conforms, State, Explained, Reason, Sent, NoSpuriousFailure, Exhausted
<1> QED BY <1>1, ConformingInvariance, PTL

(* The application reads the data of a conforming peer in order, each unit  *)
(* once, whatever comes between and however reads and peeks are cut up:     *)
(* tls13_record_layer_read_record and tls_content_read lose nothing.        *)
THEOREM StreamStaysInOrder == Spec => []StreamInOrder
<1>1. Conforming => StreamInOrder
  <2> SUFFICES ASSUME Conforming, ~peer.faulty
               PROVE  /\ app.consumed <= peer.units
                      /\ \A k \in 0 .. Len(rd.rbio) : \A i \in DOMAIN Unread(k) :
                            Unread(k)[i] \in app.consumed + 1 .. peer.units
                      /\ \A u \in app.consumed + 1 .. peer.units :
                            \E k \in 0 .. Len(rd.rbio) : \E i \in DOMAIN Unread(k) :
                                Unread(k)[i] = u
                      /\ \A k, l \in 0 .. Len(rd.rbio) :
                            \A i \in DOMAIN Unread(k), j \in DOMAIN Unread(l) :
                                k < l \/ (k = l /\ i < j) => Unread(k)[i] < Unread(l)[j]
    BY DEF StreamInOrder
  <2> DEFINE m == Len(rd.rbio)
             U == Parts(rd)
             lo == app.consumed
             hi == peer.units
  <2>1. Runs(U, m, lo, hi)
    BY DEF Conforming, Conforms, State, Base, Stream
  <2>2. \A k \in 0 .. m : U[k] = Unread(k)
    BY DEF Parts, Part, Unread
  <2> HIDE DEF U, m, lo, hi
  <2>3. \A k \in 0 .. m : U[k] \in Seq(Nat) /\ DOMAIN Unread(k) = 1 .. Len(U[k])
    BY <2>1, <2>2 DEF Runs
  <2>4. lo <= hi
    BY <2>1 DEF Runs
  <2>5. ASSUME NEW k \in 0 .. m, NEW i \in DOMAIN Unread(k)
        PROVE  Unread(k)[i] \in lo + 1 .. hi
    BY <2>1, <2>2, <2>3 DEF Runs
  <2>6. ASSUME NEW u \in lo + 1 .. hi
        PROVE  \E k \in 0 .. m : \E i \in DOMAIN Unread(k) : Unread(k)[i] = u
    <3>1. PICK k \in 0 .. m : \E i \in 1 .. Len(U[k]) : U[k][i] = u
      BY <2>1 DEF Runs
    <3> QED BY <2>2, <2>3, <3>1
  <2>7. ASSUME NEW k \in 0 .. m, NEW l \in 0 .. m, NEW i \in DOMAIN Unread(k),
               NEW j \in DOMAIN Unread(l), k < l \/ (k = l /\ i < j)
        PROVE  Unread(k)[i] < Unread(l)[j]
    <3>1. i \in 1 .. Len(U[k]) /\ j \in 1 .. Len(U[l]) /\ Unread(k) = U[k] /\ Unread(l) = U[l]
      BY <2>2, <2>3
    <3>2. CASE k < l
      BY <2>1, <3>1, <3>2 DEF Runs
    <3>3. CASE k = l /\ i < j
      <4>1. U[k][i] = U[k][1] + i - 1 /\ U[k][j] = U[k][1] + j - 1
        BY <2>1, <3>1, <3>3 DEF Runs
      <4>2. U[k][1] \in Nat /\ i \in Nat /\ j \in Nat
        BY <2>3, <3>1, SMTT(30)
      <4> QED BY <3>1, <3>3, <4>1, <4>2
    <3> QED BY <2>7, <3>2, <3>3
  <2> QED BY <2>4, <2>5, <2>6, <2>7 DEF m, lo, hi
<1> QED BY <1>1, ConformingInvariance, PTL
=============================================================================
