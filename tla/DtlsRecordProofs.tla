-------------------------- MODULE DtlsRecordProofs --------------------------
(* The read path of a DTLS connection: what is delivered once, what is kept  *)
(* back until Finished, what is not lost and what no call fails for, for     *)
(* every window, length of the queues, number of flights and of records.     *)
(*                                                                           *)
(* The properties are about the log of what was delivered.  Inv says where   *)
(* a record can be before it is there: marked in the bitmap, in s->s3->      *)
(* rcontent or in buffered_app_data, and never in two of these places.       *)
EXTENDS DtlsRecord, DtlsBitmapProofs, FiniteSetTheorems

USE WindowAssumption, RecordAssumption

Record == [kind : Kind \cup {"none"}, epoch : Nat, seq : Nat]
Content == [type : {"handshake", "ccs", "data", "alert", "none"}, rec : Record, left : BOOLEAN]
Early == [seq : Nat, rec : Record, intact : BOOLEAN]
Held == [seq : Nat, content : Content]

Stage == {"message", "finished", "ok"}
Place == {"idle", "start", "wire", "record"}
Count == 0 .. RecordLimit
Epoch == {0, 1}
NextEpoch == {1, 2}
Returned == {"none", "want_read", "repeated", "failed", "zero", "closed", "handshake", "data"}

Endpoint ==
    [read_epoch : Epoch, bitmap : Bitmap, next_bitmap : Bitmap,
     unprocessed : SUBSET Early, unprocessed_epoch : NextEpoch, buffered_app_data : SUBSET Held,
     rcontent : Content, rrec : Record,
     change_cipher_spec : BOOLEAN, change_cipher_spec_ok : BOOLEAN,
     state : Stage, shutdown : BOOLEAN,
     pc : Place, rrcount : Count, ret : Returned,
     log : Seq(Record), num_alerts : Nat, accepted : SUBSET Record, queued : SUBSET Record]

(* The records after the Finished of the peer. *)
Extra == Sent("data") \cup Sent("warning") \cup Sent("close")

(* The peer numbers the records of an epoch. *)
Numbered ==
    /\ net \in SUBSET Record /\ IsFiniteSet(net) /\ arrived \in SUBSET net
    /\ \A r \in net : r.kind \in Kind /\ r.epoch = EpochOf(r.kind) /\ r.seq < NextSeq(r.epoch)
    /\ \A r, q \in net : r.epoch = q.epoch /\ r.seq = q.seq => r = q
    /\ Cardinality(Extra) <= ExtraBound

(* How far the handshake is. *)
Staged(e) ==
    /\ e.state = "message" => e.read_epoch = 0 /\ ~e.change_cipher_spec /\ ~e.change_cipher_spec_ok
    /\ e.state = "finished" => (e.change_cipher_spec <=> e.read_epoch = 1)
    /\ e.state = "ok" => e.read_epoch = 1 /\ ~e.change_cipher_spec

(* Where the call is. *)
Called(e) ==
    /\ e.rcontent.left => e.pc = "record" \/ e.ret \in {"failed", "repeated", "zero"}
    /\ e.ret \in {"failed", "repeated", "zero"} => e.pc = "idle"

(* A content is empty, or it is of a record that was accepted in the epoch. *)
Whole(e, c) ==
    \/ c.type = "none" /\ ~c.left
    \/ c.rec \in e.accepted /\ c.type = TypeOf(c.rec.kind) /\ c.rec.epoch = e.read_epoch

Contents(e) ==
    /\ Whole(e, e.rcontent)
    /\ \A item \in e.buffered_app_data :
           Whole(e, item.content) /\ item.content.type # "handshake" /\ e.read_epoch = 1

(* What was queued is of the next epoch. *)
QueuedEarly(e, sent) ==
    /\ \A item \in e.unprocessed : item.rec \in e.queued /\ (~Damage => item.intact)
    /\ \A r \in e.queued : r \in sent /\ r.epoch = 1 /\ r.kind # "data"

(* Records that were accepted from the wire are marked. *)
Marked(e, sent) ==
    \A r \in e.accepted :
        /\ r \in sent /\ r.epoch <= e.read_epoch
        /\ r.epoch = e.read_epoch /\ r \notin e.queued => ~dtls1_record_replay_check(e.bitmap, r.seq)

Logged(e, r) == \E i \in 1 .. Len(e.log) : e.log[i] = r
InContent(c, r) == c.left /\ c.rec = r
InQueue(e, r) == \E item \in e.buffered_app_data : InContent(item.content, r)

(* A record is in one place. *)
OnePlace(e) ==
    /\ \A i \in 1 .. Len(e.log) : e.log[i] \in e.accepted
    /\ \A r \in e.accepted \ e.queued :
        /\ \A i, j \in 1 .. Len(e.log) : e.log[i] = r /\ e.log[j] = r => i = j
        /\ \A a, b \in e.buffered_app_data : InContent(a.content, r) /\ InContent(b.content, r) => a = b
        /\ Logged(e, r) => ~InContent(e.rcontent, r) /\ ~InQueue(e, r)
        /\ InContent(e.rcontent, r) => ~InQueue(e, r)

(* What is protected by the new keys comes after Finished. *)
Protected == {"data", "warning", "close"}

Confirmed(e) ==
    /\ e.state = "ok" => \E i \in 1 .. Len(e.log) : e.log[i].kind = "finished"
    /\ \A i \in 1 .. Len(e.log) : e.log[i].kind \in Protected =>
           \E j \in 1 .. i - 1 : e.log[j].kind = "finished"

(* Without damage, every step has a record to look at, and s->s3->rrec is    *)
(* the one of its content while the handshake lasts.                         *)
Undamaged(e) ==
    /\ e.pc = "record" => e.rcontent.left
    /\ e.pc = "record" /\ e.state # "ok" => e.rrec.seq = e.rcontent.rec.seq
    /\ \A item \in e.buffered_app_data : item.content.left /\ item.seq = item.content.rec.seq

(* AcceptedNotLost, of one record. *)
Kept(e, r) == e.shutdown \/ Logged(e, r) \/ InContent(e.rcontent, r) \/ InQueue(e, r)

NotLost(e) == \A r \in e.accepted : r.kind = "data" => Kept(e, r)

Tolerant(e) ==
    /\ e.ret \in {"failed", "zero"} => e.num_alerts > AlertCount
    /\ e.ret = "repeated" => e.queued # {}

Roomy == ~Damage /\ ExtraBound <= QueueLimit

Data(e, sent) ==
    /\ Contents(e) /\ Marked(e, sent) /\ OnePlace(e) /\ Confirmed(e)
    /\ Roomy => NotLost(e)

Control(e, sent) ==
    /\ Staged(e) /\ Called(e) /\ QueuedEarly(e, sent)
    /\ ~Damage => Undamaged(e)
    /\ ~Damage /\ Server => Tolerant(e)

EndpointInv(e, sent) == e \in Endpoint /\ Control(e, sent) /\ Data(e, sent)

Inv == Numbered /\ EndpointInv(s, net)

-----------------------------------------------------------------------------
(* What can happen to the records of an endpoint. *)

(* The log, the queue of held records and the marks stay. *)
Frame(e, f) ==
    /\ f.log = e.log /\ f.accepted = e.accepted /\ f.buffered_app_data = e.buffered_app_data
    /\ f.read_epoch = e.read_epoch /\ f.bitmap = e.bitmap
    /\ f.state = e.state /\ f.shutdown = e.shutdown /\ e.queued \subseteq f.queued

(* Nothing moves. *)
LEMMA Idles ==
    ASSUME NEW sent, NEW e \in Endpoint, NEW f \in Endpoint, Data(e, sent), Frame(e, f),
           f.rcontent = e.rcontent
    PROVE  Data(f, sent)
<1> USE DEF Frame, Data
<1>1. Contents(f)
  BY DEF Contents, Whole
<1>2. Marked(f, sent)
  BY DEF Marked
<1>3. OnePlace(f)
  BY DEF OnePlace, Logged, InQueue
<1>4. Confirmed(f)
  BY DEF Confirmed
<1>5. Roomy => NotLost(f)
  BY DEF NotLost, Kept, Logged, InQueue
<1> QED BY <1>1, <1>2, <1>3, <1>4, <1>5

(* The content is read, or dropped where it was no data. *)
LEMMA Drops ==
    ASSUME NEW sent, NEW e \in Endpoint, NEW f \in Endpoint, Data(e, sent), Frame(e, f),
           ~f.rcontent.left,
           f.rcontent.type = "none"
               \/ (f.rcontent.type = e.rcontent.type /\ f.rcontent.rec = e.rcontent.rec),
           Roomy /\ e.rcontent.left /\ ~e.shutdown => e.rcontent.rec.kind # "data"
    PROVE  Data(f, sent)
<1> USE DEF Frame, Data
<1>1. Contents(f)
  BY DEF Contents, Whole
<1>2. Marked(f, sent)
  BY DEF Marked
<1>3. OnePlace(f)
  BY DEF OnePlace, Logged, InQueue, InContent
<1>4. Confirmed(f)
  BY DEF Confirmed
<1>5. Roomy => NotLost(f)
  BY DEF NotLost, Kept, Logged, InQueue, InContent
<1> QED BY <1>1, <1>2, <1>3, <1>4, <1>5

(* The log grows by one record. *)
LEMMA Grows ==
    ASSUME NEW l \in Seq(Record), NEW r \in Record, NEW m, m = Append(l, r)
    PROVE  /\ m \in Seq(Record) /\ Len(l) \in Nat /\ Len(m) = Len(l) + 1
           /\ m[Len(l) + 1] = r
           /\ \A i \in 1 .. Len(l) : m[i] = l[i] /\ i \in 1 .. Len(m)
           /\ \A i \in 1 .. Len(m) : i = Len(l) + 1 \/ i \in 1 .. Len(l)
  OBVIOUS

(* The content is delivered. *)
LEMMA Delivers ==
    ASSUME NEW sent, NEW e \in Endpoint, NEW f \in Endpoint, Data(e, sent),
           e.rcontent.left, ~f.rcontent.left, e.rcontent.type # "none",
           f.rcontent.type = e.rcontent.type, f.rcontent.rec = e.rcontent.rec,
           f.log = Append(e.log, e.rcontent.rec), f.accepted = e.accepted,
           f.buffered_app_data = e.buffered_app_data, f.read_epoch = e.read_epoch,
           f.bitmap = e.bitmap, f.queued = e.queued, e.shutdown => f.shutdown,
           f.state = "ok" => e.state = "ok" \/ e.rcontent.rec.kind = "finished",
           e.rcontent.rec.kind \in Protected => e.state = "ok"
    PROVE  Data(f, sent)
<1> USE DEF Data
<1>r. PICK r \in Record : r = e.rcontent.rec
  BY DEF Endpoint, Content
<1>n. PICK n \in Nat : n = Len(e.log)
  BY DEF Endpoint
<1>l. /\ Len(f.log) = n + 1 /\ f.log[n + 1] = r
      /\ \A i \in 1 .. n : f.log[i] = e.log[i]
      /\ \A i \in 1 .. n + 1 : i = n + 1 \/ i \in 1 .. n
  BY <1>r, <1>n, Grows DEF Endpoint
<1>a. r \in e.accepted /\ InContent(e.rcontent, r)
  BY <1>r DEF Contents, Whole, InContent
<1>1. Contents(f)
  BY DEF Contents, Whole
<1>2. Marked(f, sent)
  BY DEF Marked
<1>3. OnePlace(f)
  <2>1. ASSUME NEW i \in 1 .. Len(f.log) PROVE f.log[i] \in f.accepted
    BY <1>a, <1>l, <1>n DEF OnePlace
  <2>2. ASSUME NEW q \in f.accepted \ f.queued
        PROVE  /\ \A i, j \in 1 .. Len(f.log) : f.log[i] = q /\ f.log[j] = q => i = j
               /\ \A a, b \in f.buffered_app_data : InContent(a.content, q) /\ InContent(b.content, q) => a = b
               /\ Logged(f, q) => ~InQueue(f, q)
    <3>1. /\ \A i, j \in 1 .. n : e.log[i] = q /\ e.log[j] = q => i = j
          /\ \A a, b \in e.buffered_app_data : InContent(a.content, q) /\ InContent(b.content, q) => a = b
          /\ Logged(e, q) => ~InContent(e.rcontent, q) /\ ~InQueue(e, q)
          /\ InContent(e.rcontent, q) => ~InQueue(e, q)
      BY <1>n DEF OnePlace
    <3>2. q = r => \A i \in 1 .. n : e.log[i] # q
      BY <1>a, <1>n, <3>1 DEF Logged
    <3>3. Logged(f, q) => Logged(e, q) \/ q = r
      BY <1>l, <1>n DEF Logged
    <3>4. InQueue(f, q) <=> InQueue(e, q)
      BY DEF InQueue
    <3> QED BY <1>a, <1>l, <3>1, <3>2, <3>3, <3>4
  <2> QED BY <2>1, <2>2 DEF OnePlace, InContent
<1>4. Confirmed(f)
  <2>1. ASSUME f.state = "ok" PROVE \E i \in 1 .. Len(f.log) : f.log[i].kind = "finished"
    <3>1. CASE e.state = "ok"
      <4>1. PICK i \in 1 .. n : e.log[i].kind = "finished"
        BY <1>n, <3>1 DEF Confirmed
      <4> QED BY <1>l, <4>1
    <3>2. CASE r.kind = "finished"
      BY <1>l, <3>2
    <3> QED BY <1>r, <2>1, <3>1, <3>2
  <2>2. ASSUME NEW i \in 1 .. Len(f.log), f.log[i].kind \in Protected
        PROVE  \E j \in 1 .. i - 1 : f.log[j].kind = "finished"
    <3>1. CASE i = n + 1
      <4>1. PICK j \in 1 .. n : e.log[j].kind = "finished"
        BY <1>l, <1>n, <1>r, <2>2, <3>1 DEF Confirmed
      <4> QED BY <1>l, <3>1, <4>1
    <3>2. CASE i \in 1 .. n
      <4>1. PICK j \in 1 .. i - 1 : e.log[j].kind = "finished"
        BY <1>l, <1>n, <2>2, <3>2 DEF Confirmed
      <4> QED BY <1>l, <3>2, <4>1
    <3> QED BY <1>l, <3>1, <3>2
  <2> QED BY <2>1, <2>2 DEF Confirmed
<1>5. Roomy => NotLost(f)
  <2> SUFFICES ASSUME Roomy, NEW q \in f.accepted, q.kind = "data" PROVE Kept(f, q)
    BY DEF NotLost
  <2>1. Kept(e, q)
    BY DEF NotLost
  <2>2. Logged(e, q) => Logged(f, q)
    BY <1>l, <1>n DEF Logged
  <2>3. InContent(e.rcontent, q) => Logged(f, q)
    BY <1>l, <1>n, <1>r DEF Logged, InContent
  <2> QED BY <2>1, <2>2, <2>3 DEF Kept, InQueue
<1> QED BY <1>1, <1>2, <1>3, <1>4, <1>5

(* The content is put into the queue (dtls1_buffer_rcontent). *)
LEMMA Holds ==
    ASSUME NEW sent, NEW e \in Endpoint, NEW f \in Endpoint, Data(e, sent),
           NEW item \in Held, item.content = e.rcontent, e.rcontent.type # "handshake",
           e.read_epoch = 1, f.rcontent = NoContent,
           f.buffered_app_data = e.buffered_app_data \cup {item},
           f.log = e.log, f.accepted = e.accepted, f.read_epoch = e.read_epoch,
           f.bitmap = e.bitmap, f.queued = e.queued, f.shutdown = e.shutdown, f.state = e.state
    PROVE  Data(f, sent)
<1> USE DEF Data
<1>0. f.rcontent.type = "none" /\ ~f.rcontent.left
  BY DEF NoContent
<1>1. Contents(f)
  BY <1>0 DEF Contents, Whole
<1>2. Marked(f, sent)
  BY DEF Marked
<1>3. OnePlace(f)
  <2>1. ASSUME NEW q \in f.accepted \ f.queued
        PROVE  /\ \A i, j \in 1 .. Len(f.log) : f.log[i] = q /\ f.log[j] = q => i = j
               /\ \A a, b \in f.buffered_app_data : InContent(a.content, q) /\ InContent(b.content, q) => a = b
               /\ Logged(f, q) => ~InQueue(f, q)
    <3>1. /\ \A i, j \in 1 .. Len(e.log) : e.log[i] = q /\ e.log[j] = q => i = j
          /\ \A a, b \in e.buffered_app_data : InContent(a.content, q) /\ InContent(b.content, q) => a = b
          /\ Logged(e, q) => ~InContent(e.rcontent, q) /\ ~InQueue(e, q)
          /\ InContent(e.rcontent, q) => ~InQueue(e, q)
      BY DEF OnePlace
    <3> QED BY <3>1 DEF InQueue, Logged
  <2> QED BY <1>0, <2>1 DEF OnePlace, InContent
<1>4. Confirmed(f)
  BY DEF Confirmed
<1>5. Roomy => NotLost(f)
  BY DEF NotLost, Kept, Logged, InQueue
<1> QED BY <1>1, <1>2, <1>3, <1>4, <1>5

(* A held content is fetched (dtls1_retrieve_buffered_rcontent). *)
LEMMA Fetches ==
    ASSUME NEW sent, NEW e \in Endpoint, NEW f \in Endpoint, Data(e, sent),
           NEW item \in e.buffered_app_data, ~e.rcontent.left, f.rcontent = item.content,
           f.buffered_app_data = e.buffered_app_data \ {item},
           f.log = e.log, f.accepted = e.accepted, f.read_epoch = e.read_epoch,
           f.bitmap = e.bitmap, f.queued = e.queued, f.shutdown = e.shutdown, f.state = e.state
    PROVE  Data(f, sent)
<1> USE DEF Data
<1>1. Contents(f)
  BY DEF Contents, Whole
<1>2. Marked(f, sent)
  BY DEF Marked
<1>3. OnePlace(f)
  <2>1. ASSUME NEW q \in f.accepted \ f.queued
        PROVE  /\ \A i, j \in 1 .. Len(f.log) : f.log[i] = q /\ f.log[j] = q => i = j
               /\ \A a, b \in f.buffered_app_data : InContent(a.content, q) /\ InContent(b.content, q) => a = b
               /\ Logged(f, q) => ~InContent(f.rcontent, q) /\ ~InQueue(f, q)
               /\ InContent(f.rcontent, q) => ~InQueue(f, q)
    <3>1. /\ \A i, j \in 1 .. Len(e.log) : e.log[i] = q /\ e.log[j] = q => i = j
          /\ \A a, b \in e.buffered_app_data : InContent(a.content, q) /\ InContent(b.content, q) => a = b
          /\ Logged(e, q) => ~InQueue(e, q)
      BY DEF OnePlace
    <3> QED BY <3>1 DEF InQueue, Logged
  <2> QED BY <2>1 DEF OnePlace
<1>4. Confirmed(f)
  BY DEF Confirmed
<1>5. Roomy => NotLost(f)
  <2>1. ASSUME NEW q, InQueue(e, q) PROVE InQueue(f, q) \/ InContent(f.rcontent, q)
    BY <2>1 DEF InQueue
  <2> QED BY <2>1 DEF NotLost, Kept, Logged, InContent
<1> QED BY <1>1, <1>2, <1>3, <1>4, <1>5

(* A record is accepted, from the wire or from unprocessed_rcds. *)
LEMMA Accepts ==
    ASSUME NEW sent, NEW e \in Endpoint, NEW f \in Endpoint, Data(e, sent),
           NEW r \in sent, r \in Record, ~e.rcontent.left, r.epoch = e.read_epoch,
           f.rcontent = [type |-> TypeOf(r.kind), rec |-> r, left |-> TRUE],
           f.accepted = e.accepted \cup {r},
           \/ r \in e.queued /\ f.bitmap = e.bitmap
           \/ r \notin e.accepted /\ f.bitmap = dtls1_record_bitmap_update(e.bitmap, r.seq)
           \/ r \in e.queued /\ f.bitmap = dtls1_record_bitmap_update(e.bitmap, r.seq),
           f.buffered_app_data = e.buffered_app_data,
           f.log = e.log, f.read_epoch = e.read_epoch,
           f.queued = e.queued, f.shutdown = e.shutdown, f.state = e.state
    PROVE  Data(f, sent)
<1> USE DEF Data
<1>0. f.rcontent.left /\ f.rcontent.rec = r /\ f.rcontent.type = TypeOf(r.kind)
  OBVIOUS
<1>b. /\ \A x \in Nat : ~dtls1_record_replay_check(e.bitmap, x)
                             => ~dtls1_record_replay_check(f.bitmap, x)
      /\ r \notin e.queued => ~dtls1_record_replay_check(f.bitmap, r.seq)
  <2>1. e.bitmap \in Bitmap /\ r.seq \in Nat
    BY DEF Endpoint, Record
  <2> QED BY <2>1, MarkedStays
<1>1. Contents(f)
  BY <1>0 DEF Contents, Whole
<1>2. Marked(f, sent)
  <2> SUFFICES ASSUME NEW q \in f.accepted
               PROVE  /\ q \in sent /\ q.epoch <= f.read_epoch
                      /\ q.epoch = f.read_epoch /\ q \notin f.queued
                             => ~dtls1_record_replay_check(f.bitmap, q.seq)
    BY DEF Marked
  <2>0. f.read_epoch \in Int
    BY DEF Endpoint, Epoch
  <2>1. CASE q = r
    BY <1>b, <2>0, <2>1
  <2>2. CASE q \in e.accepted
    <3>1. q.seq \in Nat
      BY <2>2 DEF Endpoint, Record
    <3> QED BY <1>b, <2>2, <3>1 DEF Marked
  <2> QED BY <2>1, <2>2
<1>3. OnePlace(f)
  <2>1. ASSUME NEW i \in 1 .. Len(f.log) PROVE f.log[i] \in f.accepted
    BY DEF OnePlace
  <2>2. ASSUME NEW q \in f.accepted \ f.queued
        PROVE  /\ \A i, j \in 1 .. Len(f.log) : f.log[i] = q /\ f.log[j] = q => i = j
               /\ \A a, b \in f.buffered_app_data : InContent(a.content, q) /\ InContent(b.content, q) => a = b
               /\ Logged(f, q) => ~InContent(f.rcontent, q) /\ ~InQueue(f, q)
               /\ InContent(f.rcontent, q) => ~InQueue(f, q)
    <3>1. CASE q \in e.accepted
      <4>1. q # r
        BY <2>2, <3>1
      <4>2. ~InContent(f.rcontent, q)
        BY <1>0, <4>1 DEF InContent
      <4> QED BY <3>1, <4>2 DEF OnePlace, Logged, InQueue
    <3>2. CASE q \notin e.accepted
      <4>1. ~Logged(f, q)
        BY <3>2 DEF OnePlace, Logged
      <4>2. ASSUME NEW a \in f.buffered_app_data PROVE ~InContent(a.content, q)
        BY <3>2 DEF Contents, Whole, InContent
      <4> QED BY <4>1, <4>2 DEF InQueue, Logged
    <3> QED BY <3>1, <3>2
  <2> QED BY <2>1, <2>2 DEF OnePlace
<1>4. Confirmed(f)
  BY DEF Confirmed
<1>5. Roomy => NotLost(f)
  BY <1>0 DEF NotLost, Kept, Logged, InQueue, InContent
<1> QED BY <1>1, <1>2, <1>3, <1>4, <1>5

(* A number is marked and nothing accepted: the record was damaged. *)
LEMMA Marks ==
    ASSUME NEW sent, NEW e \in Endpoint, NEW f \in Endpoint, Data(e, sent),
           NEW n \in Nat, f.bitmap = dtls1_record_bitmap_update(e.bitmap, n),
           f.rcontent = e.rcontent, f.log = e.log, f.accepted = e.accepted,
           f.buffered_app_data = e.buffered_app_data, f.read_epoch = e.read_epoch,
           f.state = e.state, f.shutdown = e.shutdown, f.queued = e.queued
    PROVE  Data(f, sent)
<1> USE DEF Data
<1>b. ASSUME NEW x \in Nat, ~dtls1_record_replay_check(e.bitmap, x)
      PROVE  ~dtls1_record_replay_check(f.bitmap, x)
  BY <1>b, MarkedStays DEF Endpoint
<1>1. Contents(f)
  BY DEF Contents, Whole
<1>2. Marked(f, sent)
  <2>1. \A r \in e.accepted : r.seq \in Nat
    BY DEF Endpoint, Record
  <2> QED BY <1>b, <2>1 DEF Marked
<1>3. OnePlace(f)
  BY DEF OnePlace, Logged, InQueue
<1>4. Confirmed(f)
  BY DEF Confirmed
<1>5. Roomy => NotLost(f)
  BY DEF NotLost, Kept, Logged, InQueue
<1> QED BY <1>1, <1>2, <1>3, <1>4, <1>5

(* The epoch changes: nothing is accepted in the new one yet. *)
LEMMA Rolls ==
    ASSUME NEW sent, NEW e \in Endpoint, NEW f \in Endpoint, Data(e, sent),
           e.read_epoch = 0, f.read_epoch = 1, f.rcontent = NoContent,
           e.rcontent.left => e.rcontent.rec.kind # "data",
           f.log = e.log, f.accepted = e.accepted, f.buffered_app_data = e.buffered_app_data,
           f.state = e.state, f.shutdown = e.shutdown, f.queued = e.queued
    PROVE  Data(f, sent)
<1> USE DEF Data
<1>0. f.rcontent.type = "none" /\ ~f.rcontent.left
  BY DEF NoContent
<1>1. Contents(f)
  BY <1>0 DEF Contents, Whole
<1>2. Marked(f, sent)
  <2>1. \A r \in e.accepted : r.epoch \in Nat
    BY DEF Endpoint, Record
  <2> QED BY <2>1 DEF Marked
<1>3. OnePlace(f)
  BY <1>0 DEF OnePlace, Logged, InQueue, InContent
<1>4. Confirmed(f)
  BY DEF Confirmed
<1>5. Roomy => NotLost(f)
  BY DEF NotLost, Kept, Logged, InQueue, InContent
<1> QED BY <1>1, <1>2, <1>3, <1>4, <1>5

-----------------------------------------------------------------------------
(* The steps of the endpoint. *)

Fields ==
    {"read_epoch", "bitmap", "next_bitmap", "unprocessed", "unprocessed_epoch",
     "buffered_app_data", "rcontent", "rrec", "change_cipher_spec", "change_cipher_spec_ok",
     "state", "shutdown", "pc", "rrcount", "ret", "log", "num_alerts", "accepted", "queued"}

(* All but the fields X are the same. *)
Same(e, f, X) == \A x \in Fields \ X : f[x] = e[x]

LEMMA Constants ==
    /\ "idle" \in Place /\ "start" \in Place /\ "wire" \in Place /\ "record" \in Place
    /\ "want_read" \in Returned /\ "repeated" \in Returned /\ "failed" \in Returned
    /\ "zero" \in Returned /\ "closed" \in Returned /\ "handshake" \in Returned /\ "data" \in Returned
    /\ "finished" \in Stage /\ "ok" \in Stage
    /\ 0 \in Count /\ 1 \in Epoch /\ 2 \in NextEpoch
    /\ NoRecord \in Record /\ NoContent \in Content
    /\ NoContent.type = "none" /\ ~NoContent.left
<1>1. NoRecord \in Record
  BY DEF NoRecord, Record
<1>2. NoContent \in Content
  BY <1>1 DEF NoContent, Content
<1> QED BY <1>1, <1>2 DEF Place, Returned, Stage, Count, Epoch, NextEpoch, NoContent

(* What is known of the record whose content is read. *)
LEMMA ContentFacts ==
    ASSUME Numbered, NEW e, EndpointInv(e, net)
    PROVE  /\ e.rcontent.left => e.rcontent.type # "none"
           /\ e.rcontent.type # "none" =>
                /\ e.rcontent.rec \in net /\ e.rcontent.rec \in e.accepted
                /\ e.rcontent.type = TypeOf(e.rcontent.rec.kind) /\ e.rcontent.rec.kind \in Kind
                /\ e.rcontent.rec.epoch = EpochOf(e.rcontent.rec.kind)
                /\ e.rcontent.rec.epoch = e.read_epoch
           /\ e.rcontent.left /\ e.rcontent.rec.kind = "data" => e.rcontent.type = "data"
           /\ e.rcontent.type = "handshake" => e.rcontent.rec.kind \in {"message", "finished"}
           /\ e.rcontent.type = "ccs" => e.rcontent.rec.kind = "ccs" /\ e.read_epoch = 0
           /\ e.rcontent.type = "alert" => e.rcontent.rec.kind \in {"warning", "close"} /\ e.read_epoch = 1
           /\ e.rcontent.type = "data" => e.rcontent.rec.kind = "data" /\ e.read_epoch = 1
<1>1. /\ e.rcontent.left => e.rcontent.type # "none"
      /\ e.rcontent.type # "none" =>
                /\ e.rcontent.rec \in net /\ e.rcontent.rec \in e.accepted
                /\ e.rcontent.type = TypeOf(e.rcontent.rec.kind) /\ e.rcontent.rec.kind \in Kind
                /\ e.rcontent.rec.epoch = EpochOf(e.rcontent.rec.kind)
                /\ e.rcontent.rec.epoch = e.read_epoch
  <2>1. ASSUME NEW k \in Kind PROVE TypeOf(k) # "none"
    BY DEF Kind, TypeOf
  <2> QED BY <2>1 DEF EndpointInv, Data, Contents, Whole, Marked, Numbered
<1> QED BY <1>1 DEF TypeOf, EpochOf, Kind

(* A record is handed over, and its content is no longer there to read. *)
LEMMA Delivered ==
    ASSUME NEW e \in Endpoint
    PROVE  /\ Deliver(e) \in Endpoint /\ Same(e, Deliver(e), {"log", "rcontent"})
           /\ Deliver(e).log = Append(e.log, e.rcontent.rec) /\ ~Deliver(e).rcontent.left
           /\ Deliver(e).rcontent.type = e.rcontent.type /\ Deliver(e).rcontent.rec = e.rcontent.rec
<1>0. e.log \in Seq(Record) /\ e.rcontent.rec \in Record
  BY DEF Endpoint, Content
<1>1. PICK l \in Seq(Record) : l = Append(e.log, e.rcontent.rec)
  BY <1>0, Grows
<1>2. PICK c \in Content : c = [e.rcontent EXCEPT !.left = FALSE]
  BY DEF Endpoint, Content
<1>3. Deliver(e) = [e EXCEPT !.log = l, !.rcontent = c]
  BY <1>1, <1>2 DEF Deliver, Endpoint
<1>4. c.type = e.rcontent.type /\ c.rec = e.rcontent.rec /\ ~c.left
  BY <1>2 DEF Endpoint, Content
<1> QED BY <1>1, <1>3, <1>4 DEF Endpoint, Same, Fields

(* A read finds the content of a record that was read before. *)
LEMMA ZeroStep ==
    ASSUME Numbered, NEW e, EndpointInv(e, net),
           e.pc = "record",
           ~e.rcontent.left
    PROVE  EndpointInv(Return(e, "zero"), net)
<1> DEFINE f == Return(e, "zero")
<1>0. e \in Endpoint /\ Control(e, net) /\ Data(e, net)
  BY DEF EndpointInv
<1>t. f \in Endpoint
  BY <1>0, Constants DEF Endpoint, Start, Clear, Return, Fail
<1>1. /\ f \in Endpoint /\ Same(e, f, {"pc", "rrcount", "ret"})
      /\ f.pc = "idle" /\ f.ret = "zero"
  BY <1>0, <1>t, Constants DEF Endpoint, Start, Clear, Return, Fail, Fields, Same
<1> HIDE DEF f
<1>2. Control(f, net)
  BY <1>0, <1>1, ContentFacts DEF Control, Staged, Called, QueuedEarly, Undamaged, Tolerant, Same, Fields
<1>3. Data(f, net)
  BY <1>0, <1>1, ContentFacts, Idles DEF Same, Fields, Frame
<1> QED BY <1>1, <1>2, <1>3 DEF EndpointInv, f

(* A content is dropped. *)
LEMMA DropStep ==
    ASSUME Numbered, NEW e, EndpointInv(e, net),
           e.pc = "record",
           e.rcontent.type # "data" \/ ~Roomy \/ ~e.rcontent.left
    PROVE  EndpointInv(Start(Clear(e)), net)
<1> DEFINE f == Start(Clear(e))
<1>0. e \in Endpoint /\ Control(e, net) /\ Data(e, net)
  BY DEF EndpointInv
<1>t. f \in Endpoint
  BY <1>0, Constants DEF Endpoint, Start, Clear, Return, Fail
<1>1. /\ f \in Endpoint /\ Same(e, f, {"pc", "rcontent"})
      /\ f.pc = "start"
      /\ f.rcontent.type = "none" /\ ~f.rcontent.left
  BY <1>0, <1>t, Constants DEF Endpoint, Start, Clear, Return, Fail, Fields, Same
<1> HIDE DEF f
<1>2. Control(f, net)
  BY <1>0, <1>1, ContentFacts DEF Control, Staged, Called, QueuedEarly, Undamaged, Tolerant, Same, Fields
<1>3. Data(f, net)
  BY <1>0, <1>1, ContentFacts, Drops DEF Same, Fields, Frame
<1> QED BY <1>1, <1>2, <1>3 DEF EndpointInv, f

LEMMA RepeatStep ==
    ASSUME Numbered, NEW e, EndpointInv(e, net),
           e.pc = "record",
           e.rcontent.type # "data" \/ ~Roomy \/ ~e.rcontent.left,
           ~Damage => e.queued # {}
    PROVE  EndpointInv(Return(Clear(e), "repeated"), net)
<1> DEFINE f == Return(Clear(e), "repeated")
<1>0. e \in Endpoint /\ Control(e, net) /\ Data(e, net)
  BY DEF EndpointInv
<1>t. f \in Endpoint
  BY <1>0, Constants DEF Endpoint, Start, Clear, Return, Fail
<1>1. /\ f \in Endpoint /\ Same(e, f, {"pc", "rrcount", "ret", "rcontent"})
      /\ f.pc = "idle" /\ f.ret = "repeated"
      /\ f.rcontent.type = "none" /\ ~f.rcontent.left
  BY <1>0, <1>t, Constants DEF Endpoint, Start, Clear, Return, Fail, Fields, Same
<1> HIDE DEF f
<1>2. Control(f, net)
  BY <1>0, <1>1, ContentFacts DEF Control, Staged, Called, QueuedEarly, Undamaged, Tolerant, Same, Fields
<1>3. Data(f, net)
  BY <1>0, <1>1, ContentFacts, Drops DEF Same, Fields, Frame
<1> QED BY <1>1, <1>2, <1>3 DEF EndpointInv, f

(* The peer has closed the connection. *)
LEMMA ClosedStep ==
    ASSUME Numbered, NEW e, EndpointInv(e, net),
           e.pc = "record",
           e.shutdown
    PROVE  EndpointInv(Return(Clear(e), "closed"), net)
<1> DEFINE f == Return(Clear(e), "closed")
<1>0. e \in Endpoint /\ Control(e, net) /\ Data(e, net)
  BY DEF EndpointInv
<1>t. f \in Endpoint
  BY <1>0, Constants DEF Endpoint, Start, Clear, Return, Fail
<1>1. /\ f \in Endpoint /\ Same(e, f, {"pc", "rrcount", "ret", "rcontent"})
      /\ f.pc = "idle" /\ f.ret = "closed"
      /\ f.rcontent.type = "none" /\ ~f.rcontent.left
  BY <1>0, <1>t, Constants DEF Endpoint, Start, Clear, Return, Fail, Fields, Same
<1> HIDE DEF f
<1>2. Control(f, net)
  BY <1>0, <1>1, ContentFacts DEF Control, Staged, Called, QueuedEarly, Undamaged, Tolerant, Same, Fields
<1>3. Data(f, net)
  BY <1>0, <1>1, ContentFacts, Drops DEF Same, Fields, Frame
<1> QED BY <1>1, <1>2, <1>3 DEF EndpointInv, f

(* A call fails, as none of a server does when nothing is damaged. *)
LEMMA FailStep ==
    ASSUME Numbered, NEW e, EndpointInv(e, net),
           e.pc = "record",
           ~Damage /\ Server => FALSE
    PROVE  EndpointInv(Fail(e), net)
<1> DEFINE f == Fail(e)
<1>0. e \in Endpoint /\ Control(e, net) /\ Data(e, net)
  BY DEF EndpointInv
<1>t. f \in Endpoint
  BY <1>0, Constants DEF Endpoint, Start, Clear, Return, Fail
<1>1. /\ f \in Endpoint /\ Same(e, f, {"pc", "rrcount", "ret"})
      /\ f.pc = "idle" /\ f.ret = "failed"
  BY <1>0, <1>t, Constants DEF Endpoint, Start, Clear, Return, Fail, Fields, Same
<1> HIDE DEF f
<1>2. Control(f, net)
  BY <1>0, <1>1, ContentFacts DEF Control, Staged, Called, QueuedEarly, Undamaged, Tolerant, Same, Fields
<1>3. Data(f, net)
  BY <1>0, <1>1, ContentFacts, Idles DEF Same, Fields, Frame
<1> QED BY <1>1, <1>2, <1>3 DEF EndpointInv, f

(* TakeMessage: a message that nobody waits for. *)
LEMMA StaleStep ==
    ASSUME Numbered, NEW e, EndpointInv(e, net),
           e.pc = "record",
           e.rcontent.type = "handshake"
    PROVE  EndpointInv(Start([e EXCEPT !.rcontent.left = FALSE, !.rrcount = 0]), net)
<1> DEFINE f == Start([e EXCEPT !.rcontent.left = FALSE, !.rrcount = 0])
<1>0. e \in Endpoint /\ Control(e, net) /\ Data(e, net)
  BY DEF EndpointInv
<1>t. f \in Endpoint
  BY <1>0, Constants DEF Endpoint, Start, Clear, Return, Fail, Content
<1>1. /\ f \in Endpoint /\ Same(e, f, {"pc", "rrcount", "rcontent"})
      /\ f.pc = "start" /\ ~f.rcontent.left
      /\ f.rcontent.type = e.rcontent.type /\ f.rcontent.rec = e.rcontent.rec
  BY <1>0, <1>t, Constants DEF Endpoint, Start, Clear, Return, Fail, Fields, Same, Content
<1> HIDE DEF f
<1>2. Control(f, net)
  BY <1>0, <1>1, ContentFacts DEF Control, Staged, Called, QueuedEarly, Undamaged, Tolerant, Same, Fields
<1>3. Data(f, net)
  BY <1>0, <1>1, ContentFacts, Drops DEF Same, Fields, Frame
<1> QED BY <1>1, <1>2, <1>3 DEF EndpointInv, f

(* TakeMessage: the message before Finished. *)
LEMMA MessageStep ==
    ASSUME Numbered, NEW e, EndpointInv(e, net),
           e.pc = "record",
           e.rcontent.left,
           e.state = "message",
           e.rcontent.rec.kind = "message"
    PROVE  EndpointInv(Start([Deliver(e) EXCEPT !.state = "finished", !.change_cipher_spec_ok = TRUE, !.rrcount = 0]), net)
<1> DEFINE f == Start([Deliver(e) EXCEPT !.state = "finished", !.change_cipher_spec_ok = TRUE, !.rrcount = 0])
<1>0. e \in Endpoint /\ Control(e, net) /\ Data(e, net)
  BY DEF EndpointInv
<1>d. /\ Deliver(e) \in Endpoint /\ Same(e, Deliver(e), {"log", "rcontent"})
      /\ Deliver(e).log = Append(e.log, e.rcontent.rec) /\ ~Deliver(e).rcontent.left
      /\ Deliver(e).rcontent.type = e.rcontent.type /\ Deliver(e).rcontent.rec = e.rcontent.rec
  BY <1>0, Delivered
<1>t. f \in Endpoint
  BY <1>0, Constants, <1>d DEF Endpoint, Start, Clear, Return, Fail
<1>1. /\ f \in Endpoint /\ Same(e, f, {"pc", "rrcount", "rcontent", "log", "state", "change_cipher_spec_ok"})
      /\ f.pc = "start" /\ f.state = "finished"
      /\ ~f.rcontent.left /\ f.rcontent.type = e.rcontent.type /\ f.rcontent.rec = e.rcontent.rec
      /\ f.log = Append(e.log, e.rcontent.rec)
  BY <1>0, <1>t, Constants, <1>d DEF Endpoint, Start, Clear, Return, Fail, Fields, Same
<1> HIDE DEF f
<1>2. Control(f, net)
  BY <1>0, <1>1, ContentFacts, SMTT(30) DEF Control, Staged, Called, QueuedEarly, Undamaged, Tolerant, Same, Fields
<1>3. Data(f, net)
  BY <1>0, <1>1, ContentFacts, Delivers DEF Same, Fields, Protected
<1> QED BY <1>1, <1>2, <1>3 DEF EndpointInv, f

(* TakeMessage: Finished ends the handshake. *)
LEMMA FinishedStep ==
    ASSUME Numbered, NEW e, EndpointInv(e, net),
           e.pc = "record",
           e.rcontent.left,
           e.state = "finished",
           e.rcontent.rec.kind = "finished",
           e.change_cipher_spec
    PROVE  EndpointInv(Return([Deliver(e) EXCEPT !.state = "ok", !.change_cipher_spec = FALSE], "handshake"), net)
<1> DEFINE f == Return([Deliver(e) EXCEPT !.state = "ok", !.change_cipher_spec = FALSE], "handshake")
<1>0. e \in Endpoint /\ Control(e, net) /\ Data(e, net)
  BY DEF EndpointInv
<1>d. /\ Deliver(e) \in Endpoint /\ Same(e, Deliver(e), {"log", "rcontent"})
      /\ Deliver(e).log = Append(e.log, e.rcontent.rec) /\ ~Deliver(e).rcontent.left
      /\ Deliver(e).rcontent.type = e.rcontent.type /\ Deliver(e).rcontent.rec = e.rcontent.rec
  BY <1>0, Delivered
<1>t. f \in Endpoint
  BY <1>0, Constants, <1>d DEF Endpoint, Start, Clear, Return, Fail
<1>1. /\ f \in Endpoint /\ Same(e, f, {"pc", "rrcount", "ret", "rcontent", "log", "state", "change_cipher_spec"})
      /\ f.pc = "idle" /\ f.ret = "handshake" /\ f.state = "ok" /\ ~f.change_cipher_spec
      /\ ~f.rcontent.left /\ f.rcontent.type = e.rcontent.type /\ f.rcontent.rec = e.rcontent.rec
      /\ f.log = Append(e.log, e.rcontent.rec)
  BY <1>0, <1>t, Constants, <1>d DEF Endpoint, Start, Clear, Return, Fail, Fields, Same
<1> HIDE DEF f
<1>2. Control(f, net)
  BY <1>0, <1>1, ContentFacts, SMTT(30) DEF Control, Staged, Called, QueuedEarly, Undamaged, Tolerant, Same, Fields
<1>3. Data(f, net)
  BY <1>0, <1>1, ContentFacts, Delivers DEF Same, Fields, Protected
<1> QED BY <1>1, <1>2, <1>3 DEF EndpointInv, f

(* SSL_read gets the data of a record. *)
LEMMA DataStep ==
    ASSUME Numbered, NEW e, EndpointInv(e, net),
           e.pc = "record",
           e.rcontent.left,
           e.state = "ok"
    PROVE  EndpointInv(Return(Deliver(e), "data"), net)
<1> DEFINE f == Return(Deliver(e), "data")
<1>0. e \in Endpoint /\ Control(e, net) /\ Data(e, net)
  BY DEF EndpointInv
<1>d. /\ Deliver(e) \in Endpoint /\ Same(e, Deliver(e), {"log", "rcontent"})
      /\ Deliver(e).log = Append(e.log, e.rcontent.rec) /\ ~Deliver(e).rcontent.left
      /\ Deliver(e).rcontent.type = e.rcontent.type /\ Deliver(e).rcontent.rec = e.rcontent.rec
  BY <1>0, Delivered
<1>t. f \in Endpoint
  BY <1>0, Constants, <1>d DEF Endpoint, Start, Clear, Return, Fail
<1>1. /\ f \in Endpoint /\ Same(e, f, {"pc", "rrcount", "ret", "rcontent", "log"})
      /\ f.pc = "idle" /\ f.ret = "data"
      /\ ~f.rcontent.left /\ f.rcontent.type = e.rcontent.type /\ f.rcontent.rec = e.rcontent.rec
      /\ f.log = Append(e.log, e.rcontent.rec)
  BY <1>0, <1>t, Constants, <1>d DEF Endpoint, Start, Clear, Return, Fail, Fields, Same
<1> HIDE DEF f
<1>2. Control(f, net)
  BY <1>0, <1>1, ContentFacts DEF Control, Staged, Called, QueuedEarly, Undamaged, Tolerant, Same, Fields
<1>3. Data(f, net)
  BY <1>0, <1>1, ContentFacts, Delivers DEF Same, Fields, Protected
<1> QED BY <1>1, <1>2, <1>3 DEF EndpointInv, f

(* ssl3_read_alert: an alert is read only after Finished. *)
LEMMA CloseStep ==
    ASSUME Numbered, NEW e, EndpointInv(e, net),
           e.pc = "record",
           e.rcontent.left,
           e.rcontent.type = "alert",
           ~e.change_cipher_spec
    PROVE  EndpointInv(Return([Deliver(e) EXCEPT !.shutdown = TRUE], "closed"), net)
<1> DEFINE f == Return([Deliver(e) EXCEPT !.shutdown = TRUE], "closed")
<1>0. e \in Endpoint /\ Control(e, net) /\ Data(e, net)
  BY DEF EndpointInv
<1>d. /\ Deliver(e) \in Endpoint /\ Same(e, Deliver(e), {"log", "rcontent"})
      /\ Deliver(e).log = Append(e.log, e.rcontent.rec) /\ ~Deliver(e).rcontent.left
      /\ Deliver(e).rcontent.type = e.rcontent.type /\ Deliver(e).rcontent.rec = e.rcontent.rec
  BY <1>0, Delivered
<1>t. f \in Endpoint
  BY <1>0, Constants, <1>d DEF Endpoint, Start, Clear, Return, Fail
<1>1. /\ f \in Endpoint /\ Same(e, f, {"pc", "rrcount", "ret", "rcontent", "log", "shutdown"})
      /\ f.pc = "idle" /\ f.ret = "closed" /\ f.shutdown
      /\ ~f.rcontent.left /\ f.rcontent.type = e.rcontent.type /\ f.rcontent.rec = e.rcontent.rec
      /\ f.log = Append(e.log, e.rcontent.rec)
  BY <1>0, <1>t, Constants, <1>d DEF Endpoint, Start, Clear, Return, Fail, Fields, Same
<1> HIDE DEF f
<1>2. Control(f, net)
  BY <1>0, <1>1, ContentFacts DEF Control, Staged, Called, QueuedEarly, Undamaged, Tolerant, Same, Fields
<1>3. Data(f, net)
  BY <1>0, <1>1, ContentFacts, Delivers DEF Same, Fields, Protected, Control, Staged, Stage, Endpoint
<1> QED BY <1>1, <1>2, <1>3 DEF EndpointInv, f

LEMMA WarningStep ==
    ASSUME Numbered, NEW e, EndpointInv(e, net),
           e.pc = "record",
           e.rcontent.left,
           e.rcontent.type = "alert",
           ~e.change_cipher_spec
    PROVE  EndpointInv(Start(Deliver(e)), net)
<1> DEFINE f == Start(Deliver(e))
<1>0. e \in Endpoint /\ Control(e, net) /\ Data(e, net)
  BY DEF EndpointInv
<1>d. /\ Deliver(e) \in Endpoint /\ Same(e, Deliver(e), {"log", "rcontent"})
      /\ Deliver(e).log = Append(e.log, e.rcontent.rec) /\ ~Deliver(e).rcontent.left
      /\ Deliver(e).rcontent.type = e.rcontent.type /\ Deliver(e).rcontent.rec = e.rcontent.rec
  BY <1>0, Delivered
<1>t. f \in Endpoint
  BY <1>0, Constants, <1>d DEF Endpoint, Start, Clear, Return, Fail
<1>1. /\ f \in Endpoint /\ Same(e, f, {"pc", "rcontent", "log"})
      /\ f.pc = "start"
      /\ ~f.rcontent.left /\ f.rcontent.type = e.rcontent.type /\ f.rcontent.rec = e.rcontent.rec
      /\ f.log = Append(e.log, e.rcontent.rec)
  BY <1>0, <1>t, Constants, <1>d DEF Endpoint, Start, Clear, Return, Fail, Fields, Same
<1> HIDE DEF f
<1>2. Control(f, net)
  BY <1>0, <1>1, ContentFacts DEF Control, Staged, Called, QueuedEarly, Undamaged, Tolerant, Same, Fields
<1>k. e.rcontent.rec.kind \in Protected => e.state = "ok"
  BY <1>0, ContentFacts DEF Protected, Control, Staged, Stage, Endpoint
<1>3. Data(f, net)
  BY <1>0, <1>1, <1>k, ContentFacts, Delivers DEF Same, Fields
<1> QED BY <1>1, <1>2, <1>3 DEF EndpointInv, f

(* dtls1_read_handshake_unexpected: a server answers a repeated Finished. *)
LEMMA AgainStep ==
    ASSUME Numbered, NEW e, EndpointInv(e, net),
           e.pc = "record",
           e.rcontent.type = "handshake"
    PROVE  EndpointInv(Start(Clear(Counted(e))), net)
<1> DEFINE f == Start(Clear(Counted(e)))
<1>0. e \in Endpoint /\ Control(e, net) /\ Data(e, net)
  BY DEF EndpointInv
<1>n. PICK n \in Nat : n = e.num_alerts + 1
  BY <1>0 DEF Endpoint
<1>t. f \in Endpoint
  BY <1>0, Constants, <1>n DEF Endpoint, Counted, Start, Clear, Return, Fail
<1>1. /\ f \in Endpoint /\ Same(e, f, {"pc", "rcontent", "num_alerts"})
      /\ f.pc = "start"
      /\ f.rcontent.type = "none" /\ ~f.rcontent.left
  BY <1>0, <1>t, Constants, <1>n DEF Endpoint, Counted, Start, Clear, Return, Fail, Fields, Same
<1> HIDE DEF f
<1>2. Control(f, net)
  BY <1>0, <1>1, ContentFacts DEF Control, Staged, Called, QueuedEarly, Undamaged, Tolerant, Same, Fields
<1>3. Data(f, net)
  BY <1>0, <1>1, ContentFacts, Drops DEF Same, Fields, Frame
<1> QED BY <1>1, <1>2, <1>3 DEF EndpointInv, f

(* Until it has answered too many of them. *)
LEMMA TooOftenStep ==
    ASSUME Numbered, NEW e, EndpointInv(e, net),
           e.pc = "record",
           e.rcontent.type = "handshake",
           dtls1_check_timeout_num(e)
    PROVE  EndpointInv(Fail(Counted(e)), net)
<1> DEFINE f == Fail(Counted(e))
<1>0. e \in Endpoint /\ Control(e, net) /\ Data(e, net)
  BY DEF EndpointInv
<1>n. PICK n \in Nat : n = e.num_alerts + 1
  BY <1>0 DEF Endpoint
<1>t. f \in Endpoint
  BY <1>0, Constants, <1>n DEF Endpoint, Counted, Start, Clear, Return, Fail
<1>1. /\ f \in Endpoint /\ Same(e, f, {"pc", "rrcount", "ret", "num_alerts"})
      /\ f.pc = "idle" /\ f.ret = "failed"
      /\ f.num_alerts > AlertCount
  BY <1>0, <1>t, Constants, <1>n DEF Endpoint, dtls1_check_timeout_num, Counted, Start, Clear, Return, Fail, Fields, Same
<1> HIDE DEF f
<1>2. Control(f, net)
  BY <1>0, <1>1, ContentFacts DEF Control, Staged, Called, QueuedEarly, Undamaged, Tolerant, Same, Fields
<1>3. Data(f, net)
  BY <1>0, <1>1, ContentFacts, Idles DEF Same, Fields, Frame
<1> QED BY <1>1, <1>2, <1>3 DEF EndpointInv, f

(* ssl3_read_change_cipher_spec: the epoch changes while the handshake waits for Finished. *)
LEMMA CipherStep ==
    ASSUME Numbered, NEW e, EndpointInv(e, net),
           e.pc = "record",
           e.rcontent.type = "ccs",
           e.change_cipher_spec_ok
    PROVE  EndpointInv(Start(dtls1_reset_read_seq_numbers(
             [Clear(e) EXCEPT !.change_cipher_spec_ok = FALSE, !.change_cipher_spec = TRUE,
                              !.read_epoch = @ + 1])), net)
<1> DEFINE f == Start(dtls1_reset_read_seq_numbers(
             [Clear(e) EXCEPT !.change_cipher_spec_ok = FALSE, !.change_cipher_spec = TRUE,
                              !.read_epoch = @ + 1]))
<1>0. e \in Endpoint /\ Control(e, net) /\ Data(e, net)
  BY DEF EndpointInv
<1>e. e.read_epoch = 0 /\ e.read_epoch + 1 = 1 /\ EmptyBitmap \in Bitmap
  BY ContentFacts DEF EmptyBitmap, Bitmap
<1>s. e.state = "finished"
  BY <1>0, <1>e DEF Control, Staged, Endpoint, Stage
<1>t. f \in Endpoint
  BY <1>0, Constants, <1>e DEF Endpoint, Start, Clear, Return, Fail, dtls1_reset_read_seq_numbers
<1>1. /\ f \in Endpoint /\ Same(e, f, {"pc", "rcontent", "change_cipher_spec_ok", "change_cipher_spec", "read_epoch", "bitmap", "next_bitmap"})
      /\ f.pc = "start" /\ f.change_cipher_spec /\ f.read_epoch = 1 /\ f.rcontent = NoContent
  BY <1>0, <1>t, Constants, <1>e DEF Endpoint, Start, Clear, Return, Fail, Fields, Same, dtls1_reset_read_seq_numbers
<1> HIDE DEF f
<1>2. Control(f, net)
  BY <1>0, <1>1, ContentFacts, Constants, <1>s DEF Control, Staged, Called, QueuedEarly, Undamaged, Tolerant, Same, Fields
<1>3. Data(f, net)
  BY <1>0, <1>1, ContentFacts, Rolls, <1>e DEF Same, Fields
<1> QED BY <1>1, <1>2, <1>3 DEF EndpointInv, f

(* The first item of a queue is in it. *)
LEMMA Peeked ==
    ASSUME NEW q, q # {}, \A item \in q : item.seq \in Nat
    PROVE  pqueue_peek(q) \in q
<1> DEFINE T == {item.seq : item \in q}
<1>1. T \subseteq Nat /\ T # {}
  OBVIOUS
<1>2. PICK n \in T : \A m \in T : ~ (<<m, n>> \in OpToRel(<, Nat))
  BY <1>1, WFMin, NatLessThanWellFounded
<1>3. ASSUME NEW m \in T PROVE n <= m
  <2>1. m \in Nat /\ n \in Nat
    BY <1>1
  <2>2. m < n => <<m, n>> \in OpToRel(<, Nat)
    BY <2>1 DEF OpToRel
  <2>3. ~(m < n)
    BY <1>2, <2>2, Zenon
  <2> QED BY <2>1, <2>3
<1>4. PICK r \in q : r.seq = n
  OBVIOUS
<1>5. \A o \in q : r.seq <= o.seq
  BY <1>3, <1>4
<1> QED BY <1>4, <1>5 DEF pqueue_peek

(* The queue of held records has room for every record the peer sends, if    *)
(* they are no more than its limit: no record is in it twice.                *)
LEMMA Room ==
    ASSUME Numbered, NEW e, EndpointInv(e, net), Roomy,
           e.pc = "record", e.rcontent.left, e.rcontent.type = "data", e.change_cipher_spec
    PROVE  /\ ~(Cardinality(e.buffered_app_data) >= QueueLimit)
           /\ pqueue_find(e.buffered_app_data, e.rrec.seq) = {}
<1> DEFINE q == e.buffered_app_data
           r == e.rcontent.rec
<1>0. e \in Endpoint /\ Control(e, net) /\ Data(e, net) /\ ~Damage
  BY DEF EndpointInv, Roomy
<1>1. /\ r.kind = "data" /\ r \in net /\ r.epoch = 1 /\ r.seq = e.rrec.seq /\ r \in e.accepted \ e.queued
  <2>1. e.state # "ok"
    BY <1>0 DEF Control, Staged
  <2> QED BY <1>0, <2>1, ContentFacts DEF Control, Undamaged, QueuedEarly
<1>2. ~InQueue(e, r)
  BY <1>0, <1>1 DEF Data, OnePlace, InContent
<1>3. ASSUME NEW item \in q
      PROVE  /\ item.content.rec \in Extra \ {r} /\ item.content.rec \in net
             /\ item.content.rec.epoch = 1
             /\ item = [seq |-> item.content.rec.seq,
                        content |-> [type |-> TypeOf(item.content.rec.kind), rec |-> item.content.rec,
                                     left |-> TRUE]]
  <2>1. item.content.left /\ item.seq = item.content.rec.seq
    BY <1>0 DEF Control, Undamaged
  <2>2. /\ Whole(e, item.content) /\ item.content.type # "handshake" /\ e.read_epoch = 1
    BY <1>0 DEF Data, Contents
  <2>3. /\ item.content.rec \in e.accepted /\ item.content.type = TypeOf(item.content.rec.kind)
        /\ item.content.rec.epoch = 1
    BY <2>1, <2>2 DEF Whole
  <2>4. item.content.rec \in net
    BY <1>0, <2>3 DEF Data, Marked
  <2>5. item.content.rec.kind \in Kind /\ item.content.rec.epoch = EpochOf(item.content.rec.kind)
    BY <2>4 DEF Numbered
  <2>6. item.content.rec.kind \in {"data", "warning", "close"}
    BY <2>2, <2>3, <2>5 DEF Kind, TypeOf, EpochOf
  <2>7. item.content.rec \in Extra
    BY <2>4, <2>6 DEF Extra, Sent
  <2>8. item.content.rec # r
    BY <1>2, <2>1 DEF InQueue, InContent
  <2>9. item \in Held
    BY <1>0 DEF Endpoint
  <2>10. item.content = [type |-> TypeOf(item.content.rec.kind), rec |-> item.content.rec, left |-> TRUE]
    BY <2>1, <2>3, <2>9 DEF Held, Content
  <2> QED BY <2>1, <2>3, <2>4, <2>7, <2>8, <2>9, <2>10 DEF Held
<1>4. Cardinality(q) < QueueLimit /\ Cardinality(q) \in Nat
  <2>1. IsFiniteSet(Extra) /\ r \in Extra /\ Cardinality(Extra) \in Nat
    <3>1. Extra \in SUBSET net
      BY DEF Extra, Sent
    <3>2. IsFiniteSet(Extra)
      BY <3>1, FS_Subset DEF Numbered
    <3>3. r \in Extra
      BY <1>1 DEF Extra, Sent
    <3> QED BY <3>2, <3>3, FS_CardinalityType
  <2>2. IsFiniteSet(Extra \ {r}) /\ Cardinality(Extra \ {r}) = Cardinality(Extra) - 1
    <3> HIDE DEF r
    <3> QED BY <2>1, FS_RemoveElement
  <2> DEFINE g == [item \in q |-> item.content.rec]
  <2>3. g \in [q -> Extra \ {r}]
    BY <1>3
  <2>4. ASSUME NEW a \in q, NEW b \in q, g[a] = g[b] PROVE a = b
    <3>1. a.content.rec = b.content.rec
      BY <2>4
    <3> QED BY <1>3, <3>1
  <2> HIDE DEF g, r
  <2>5. g \in Injection(q, Extra \ {r})
    BY <2>3, <2>4 DEF Injection, IsInjective
  <2>6. IsFiniteSet(q) /\ Cardinality(q) <= Cardinality(Extra \ {r})
    BY <2>2, <2>5, FS_Injection
  <2>7. Cardinality(q) \in Nat
    BY <2>6, FS_CardinalityType
  <2> QED BY <2>1, <2>2, <2>6, <2>7 DEF Numbered, Roomy
<1>5. ASSUME NEW item \in q, item.seq = e.rrec.seq PROVE FALSE
  <2>1. item.content.rec.seq = r.seq /\ item.content.rec.epoch = r.epoch
    BY <1>1, <1>3, <1>5
  <2>2. item.content.rec = r
    BY <1>1, <1>3, <2>1 DEF Numbered
  <2> QED BY <1>3, <2>2
<1> QED BY <1>4, <1>5 DEF pqueue_find

(* A content that is refused because its number is held is of a record that  *)
(* was queued and has come twice.                                            *)
LEMMA Refused ==
    ASSUME Numbered, NEW e, EndpointInv(e, net),
           e.pc = "record",
           e.change_cipher_spec,
           e.rcontent.type # "handshake",
           ~Damage,
           pqueue_find(e.buffered_app_data, e.rrec.seq) # {}
    PROVE  e.queued # {}
<1>0. e \in Endpoint /\ Control(e, net) /\ Data(e, net)
  BY DEF EndpointInv
<1>1. e.read_epoch = 1 /\ e.state = "finished"
  BY <1>0 DEF Control, Staged, Endpoint, Stage
<1>2. e.rcontent.left /\ e.rrec.seq = e.rcontent.rec.seq
  BY <1>0, <1>1 DEF Control, Undamaged
<1>3. e.rcontent.rec \in e.accepted /\ e.rcontent.rec.epoch = 1
  BY <1>0, <1>1, <1>2 DEF Data, Contents, Whole
<1>4. PICK item \in e.buffered_app_data : item.seq = e.rrec.seq
  BY DEF pqueue_find
<1>5. item.content.left /\ item.seq = item.content.rec.seq
  BY <1>0 DEF Control, Undamaged
<1>6. item.content.rec \in e.accepted /\ item.content.rec.epoch = 1
  BY <1>0, <1>1, <1>5 DEF Data, Contents, Whole
<1>7. e.rcontent.rec \in net /\ item.content.rec \in net
  BY <1>0, <1>3, <1>6 DEF Data, Marked
<1>8. item.content.rec = e.rcontent.rec
  BY <1>2, <1>3, <1>4, <1>5, <1>6, <1>7 DEF Numbered
<1>9. InContent(e.rcontent, e.rcontent.rec) /\ InQueue(e, e.rcontent.rec)
  BY <1>2, <1>5, <1>8 DEF InContent, InQueue
<1> QED BY <1>0, <1>3, <1>9 DEF Data, OnePlace

(* dtls1_buffer_rcontent: what is no handshake message waits for Finished. *)
LEMMA HoldStep ==
    ASSUME Numbered, NEW e, EndpointInv(e, net),
           e.pc = "record",
           e.change_cipher_spec,
           e.rcontent.type # "handshake"
    PROVE  EndpointInv(Start(Clear([e EXCEPT !.buffered_app_data =
                          @ \cup {[seq |-> e.rrec.seq, content |-> e.rcontent]}])), net)
<1> DEFINE f == Start(Clear([e EXCEPT !.buffered_app_data =
                          @ \cup {[seq |-> e.rrec.seq, content |-> e.rcontent]}]))
<1>0. e \in Endpoint /\ Control(e, net) /\ Data(e, net)
  BY DEF EndpointInv
<1>h. e.rrec.seq \in Nat /\ e.rcontent \in Content
  BY <1>0 DEF Endpoint, Record
<1>k. [seq |-> e.rrec.seq, content |-> e.rcontent] \in Held
  BY <1>h DEF Held
<1>j. PICK item \in Held : item = [seq |-> e.rrec.seq, content |-> e.rcontent]
  BY <1>k
<1>i. /\ item = [seq |-> e.rrec.seq, content |-> e.rcontent] /\ item \in Held
      /\ item.seq = e.rrec.seq /\ item.content = e.rcontent
  BY <1>j
<1>s. e.read_epoch = 1 /\ e.state = "finished"
  BY <1>0 DEF Control, Staged, Endpoint, Stage
<1>t. f \in Endpoint
  BY <1>0, Constants, <1>i DEF Endpoint, Start, Clear, Return, Fail
<1>1. /\ f \in Endpoint /\ Same(e, f, {"pc", "rcontent", "buffered_app_data"})
      /\ f.pc = "start" /\ f.rcontent = NoContent
      /\ f.buffered_app_data = e.buffered_app_data \cup {item}
  BY <1>0, <1>t, Constants, <1>i DEF Endpoint, Start, Clear, Return, Fail, Fields, Same
<1> HIDE DEF f
<1>2. Control(f, net)
  BY <1>0, <1>1, ContentFacts, Constants, <1>i, <1>s DEF Control, Staged, Called, QueuedEarly, Undamaged, Tolerant, Same, Fields
<1>3. Data(f, net)
  BY <1>0, <1>1, ContentFacts, Holds, <1>i, <1>s DEF Same, Fields
<1> QED BY <1>1, <1>2, <1>3 DEF EndpointInv, f

(* dtls1_read_bytes, once it has a record. *)
LEMMA UseContentStep ==
    ASSUME Numbered, NEW e, EndpointInv(e, net), e.pc = "record"
    PROVE  EndpointInv(UseContent(e), net)
<1>0. /\ e \in Endpoint /\ e.rcontent.type \in {"handshake", "ccs", "data", "alert", "none"}
      /\ Staged(e) /\ e.state \in Stage /\ e.read_epoch \in Epoch
      /\ ~Damage => e.rcontent.left
  BY DEF EndpointInv, Control, Undamaged, Endpoint, Content
<1>1. CASE e.change_cipher_spec /\ e.rcontent.type # "handshake"
  <2>1. UseContent(e) = dtls1_buffer_rcontent(e)
    BY <1>1 DEF UseContent
  <2>2. CASE e.rcontent.type = "data" /\ Roomy /\ e.rcontent.left
    BY <1>1, <2>1, <2>2, Room, HoldStep DEF dtls1_buffer_rcontent
  <2>3. CASE e.rcontent.type # "data" \/ ~Roomy \/ ~e.rcontent.left
    BY <1>1, <2>1, <2>3, DropStep, RepeatStep, Refused, HoldStep DEF dtls1_buffer_rcontent
  <2> QED BY <2>2, <2>3
<1>2. CASE ~(e.change_cipher_spec /\ e.rcontent.type # "handshake") /\ e.shutdown
  BY <1>2, ClosedStep DEF UseContent
<1>3. CASE /\ ~(e.change_cipher_spec /\ e.rcontent.type # "handshake") /\ ~e.shutdown
           /\ e.rcontent.type = Requested(e)
  <2>1. CASE ~e.rcontent.left
    BY <1>3, <2>1, ZeroStep DEF UseContent
  <2>2. CASE e.rcontent.left /\ e.state # "ok"
    <3>1. UseContent(e) = TakeMessage(e) /\ e.rcontent.type = "handshake"
      BY <1>3, <2>2 DEF UseContent, Requested, InInit
    <3> QED BY <2>2, <3>1, MessageStep, FinishedStep, StaleStep DEF TakeMessage
  <2>3. CASE e.rcontent.left /\ e.state = "ok"
    BY <1>3, <2>3, DataStep DEF UseContent, InInit
  <2> QED BY <2>1, <2>2, <2>3
<1>4. CASE /\ ~(e.change_cipher_spec /\ e.rcontent.type # "handshake") /\ ~e.shutdown
           /\ e.rcontent.type # Requested(e)
  <2>1. CASE e.rcontent.type = "alert"
    BY <1>0, <1>4, <2>1, FailStep, CloseStep, WarningStep DEF UseContent, ssl3_read_alert
  <2>2. CASE e.rcontent.type = "ccs"
    BY <1>4, <2>2, DropStep, CipherStep DEF UseContent, ssl3_read_change_cipher_spec
  <2>3. CASE e.rcontent.type = "handshake"
    <3>1. UseContent(e) = dtls1_read_handshake_unexpected(e) /\ e.state = "ok"
      BY <1>4, <2>3 DEF UseContent, Requested, InInit
    <3>2. e.rcontent.rec.kind = "finished"
      BY <1>0, <2>3, <3>1, ContentFacts DEF Staged, EpochOf
    <3> QED BY <1>0, <2>3, <3>1, <3>2, DropStep, AgainStep,
             TooOftenStep, FailStep DEF dtls1_read_handshake_unexpected
  <2>4. CASE e.rcontent.type \in {"data", "none"}
    <3>1. Damage
      <4>1. ~e.rcontent.left \/ (e.read_epoch = 1 /\ e.rcontent.type = "data")
        BY <2>4, ContentFacts
      <4>2. CASE ~e.rcontent.left
        BY <1>0, <4>2
      <4>3. CASE e.read_epoch = 1 /\ e.rcontent.type = "data"
        BY <1>0, <1>4, <4>3 DEF Staged, Stage, Requested, InInit
      <4> QED BY <4>1, <4>2, <4>3
    <3> QED BY <1>4, <2>4, <3>1, FailStep DEF UseContent
  <2> QED BY <1>0, <2>1, <2>2, <2>3, <2>4
<1> QED BY <1>1, <1>2, <1>3, <1>4

(* dtls1_get_record: a datagram is discarded. *)
LEMMA SkipStep ==
    ASSUME Numbered, NEW e, EndpointInv(e, net), NEW r \in net,
           e.pc = "wire"
    PROVE  EndpointInv([e EXCEPT !.rrec = r], net)
<1> DEFINE f == [e EXCEPT !.rrec = r]
<1>0. e \in Endpoint /\ Control(e, net) /\ Data(e, net)
  BY DEF EndpointInv
<1>r. r \in Record /\ r.seq \in Nat /\ r.epoch = EpochOf(r.kind) /\ r.kind \in Kind
  BY DEF Numbered, Record
<1>l. ~e.rcontent.left
  BY <1>0 DEF Control, Called
<1>t. f \in Endpoint
  BY <1>0, Constants, <1>r DEF Endpoint, Start, Clear, Return, Fail
<1>1. /\ f \in Endpoint /\ Same(e, f, {"rrec"})
      /\ f.rrec = r
  BY <1>0, <1>t, Constants, <1>r DEF Endpoint, Start, Clear, Return, Fail, Fields, Same
<1> HIDE DEF f
<1>2. Control(f, net)
  BY <1>0, <1>1, ContentFacts DEF Control, Staged, Called, QueuedEarly, Undamaged, Tolerant, Same, Fields
<1>3. Data(f, net)
  BY <1>0, <1>1, ContentFacts, Idles DEF Same, Fields, Frame
<1> QED BY <1>1, <1>2, <1>3 DEF EndpointInv, f

(* dtls1_buffer_record: the queue is full, and the record is marked. *)
LEMMA FullStep ==
    ASSUME Numbered, NEW e, EndpointInv(e, net), NEW r \in net,
           e.pc = "wire",
           dtls1_get_bitmap(e, r) = "next_bitmap"
    PROVE  EndpointInv(Mark([e EXCEPT !.rrec = r], r), net)
<1> DEFINE f == Mark([e EXCEPT !.rrec = r], r)
<1>0. e \in Endpoint /\ Control(e, net) /\ Data(e, net)
  BY DEF EndpointInv
<1>r. r \in Record /\ r.seq \in Nat /\ r.epoch = EpochOf(r.kind) /\ r.kind \in Kind
  BY DEF Numbered, Record
<1>l. ~e.rcontent.left
  BY <1>0 DEF Control, Called
<1>b. /\ r.epoch = 1 /\ e.read_epoch = 0 /\ r.kind # "data"
  BY <1>0, <1>r DEF dtls1_get_bitmap, Kind, TypeOf, EpochOf, Endpoint, Epoch
<1>m. PICK m \in Bitmap : m = dtls1_record_bitmap_update(e.next_bitmap, r.seq)
  BY <1>0, <1>r, MarkedStays DEF Endpoint
<1>n. f = [e EXCEPT !.rrec = r, !.next_bitmap = m]
  BY <1>0, <1>m DEF Mark, dtls1_get_bitmap, Endpoint
<1> HIDE DEF f
<1>t. f \in Endpoint
  BY <1>0, Constants, <1>r, <1>n DEF Endpoint, Start, Clear, Return, Fail
<1>1. /\ f \in Endpoint /\ Same(e, f, {"rrec", "next_bitmap"})
  BY <1>0, <1>t, Constants, <1>r, <1>n DEF Endpoint, Start, Clear, Return, Fail, Fields, Same
<1> HIDE DEF f
<1>2. Control(f, net)
  BY <1>0, <1>1, ContentFacts DEF Control, Staged, Called, QueuedEarly, Undamaged, Tolerant, Same, Fields
<1>3. Data(f, net)
  BY <1>0, <1>1, ContentFacts, Idles DEF Same, Fields, Frame
<1> QED BY <1>1, <1>2, <1>3 DEF EndpointInv, f

(* dtls1_buffer_record: the record is in the queue. *)
LEMMA TwiceStep ==
    ASSUME Numbered, NEW e, EndpointInv(e, net), NEW r \in net,
           e.pc = "wire",
           dtls1_get_bitmap(e, r) = "next_bitmap",
           pqueue_find(e.unprocessed, r.seq) # {}
    PROVE  EndpointInv(Return([e EXCEPT !.rrec = NoRecord], "repeated"), net)
<1> DEFINE f == Return([e EXCEPT !.rrec = NoRecord], "repeated")
<1>0. e \in Endpoint /\ Control(e, net) /\ Data(e, net)
  BY DEF EndpointInv
<1>r. r \in Record /\ r.seq \in Nat /\ r.epoch = EpochOf(r.kind) /\ r.kind \in Kind
  BY DEF Numbered, Record
<1>l. ~e.rcontent.left
  BY <1>0 DEF Control, Called
<1>b. /\ r.epoch = 1 /\ e.read_epoch = 0 /\ r.kind # "data"
  BY <1>0, <1>r DEF dtls1_get_bitmap, Kind, TypeOf, EpochOf, Endpoint, Epoch
<1>t. f \in Endpoint
  BY <1>0, Constants, <1>r DEF Endpoint, Start, Clear, Return, Fail
<1>q. e.queued # {}
  BY <1>0 DEF pqueue_find, Control, QueuedEarly
<1>1. /\ f \in Endpoint /\ Same(e, f, {"rrec", "pc", "rrcount", "ret"})
      /\ f.ret = "repeated" /\ f.pc = "idle"
  BY <1>0, <1>t, Constants, <1>r DEF Endpoint, Start, Clear, Return, Fail, Fields, Same
<1> HIDE DEF f
<1>2. Control(f, net)
  BY <1>0, <1>1, <1>q, ContentFacts DEF Control, Staged, Called, QueuedEarly, Undamaged, Tolerant, Same, Fields
<1>3. Data(f, net)
  BY <1>0, <1>1, ContentFacts, Idles DEF Same, Fields, Frame
<1> QED BY <1>1, <1>2, <1>3 DEF EndpointInv, f

(* dtls1_buffer_record: a record of the next epoch is queued. *)
LEMMA QueueStep ==
    ASSUME Numbered, NEW e, EndpointInv(e, net), NEW r \in net, NEW intact \in BOOLEAN,
           e.pc = "wire",
           dtls1_get_bitmap(e, r) = "next_bitmap",
           intact \/ Damage
    PROVE  EndpointInv([e EXCEPT !.unprocessed = @ \cup {[seq |-> r.seq, rec |-> r, intact |-> intact]},
                   !.rrec = NoRecord, !.queued = @ \cup {r},
                   !.next_bitmap = dtls1_record_bitmap_update(@, 0)], net)
<1> DEFINE f == [e EXCEPT !.unprocessed = @ \cup {[seq |-> r.seq, rec |-> r, intact |-> intact]},
                   !.rrec = NoRecord, !.queued = @ \cup {r},
                   !.next_bitmap = dtls1_record_bitmap_update(@, 0)]
<1>0. e \in Endpoint /\ Control(e, net) /\ Data(e, net)
  BY DEF EndpointInv
<1>r. r \in Record /\ r.seq \in Nat /\ r.epoch = EpochOf(r.kind) /\ r.kind \in Kind
  BY DEF Numbered, Record
<1>l. ~e.rcontent.left
  BY <1>0 DEF Control, Called
<1>b. /\ r.epoch = 1 /\ e.read_epoch = 0 /\ r.kind # "data"
  BY <1>0, <1>r DEF dtls1_get_bitmap, Kind, TypeOf, EpochOf, Endpoint, Epoch
<1>m. PICK m \in Bitmap : m = dtls1_record_bitmap_update(e.next_bitmap, 0)
  BY <1>0, MarkedStays DEF Endpoint
<1>i. [seq |-> r.seq, rec |-> r, intact |-> intact] \in Early
  BY <1>r DEF Early
<1>j. PICK item \in Early : item = [seq |-> r.seq, rec |-> r, intact |-> intact]
  BY <1>i
<1>k. item.rec = r /\ item.intact = intact
  BY <1>j
<1>n. f = [e EXCEPT !.unprocessed = @ \cup {item}, !.rrec = NoRecord, !.queued = @ \cup {r}, !.next_bitmap = m]
  BY <1>0, <1>j, <1>m DEF Endpoint
<1> HIDE DEF f
<1>t. f \in Endpoint
  BY <1>0, Constants, <1>r, <1>n DEF Endpoint, Start, Clear, Return, Fail
<1>1. /\ f \in Endpoint /\ Same(e, f, {"rrec", "unprocessed", "queued", "next_bitmap"})
      /\ f.unprocessed = e.unprocessed \cup {item} /\ f.queued = e.queued \cup {r}
  BY <1>0, <1>t, Constants, <1>r, <1>n DEF Endpoint, Start, Clear, Return, Fail, Fields, Same
<1> HIDE DEF f
<1>2. Control(f, net)
  BY <1>0, <1>1, ContentFacts, <1>k, <1>b DEF Control, Staged, Called, QueuedEarly, Undamaged, Tolerant, Same, Fields
<1>3. Data(f, net)
  BY <1>0, <1>1, ContentFacts, Idles DEF Same, Fields, Frame
<1> QED BY <1>1, <1>2, <1>3 DEF EndpointInv, f

(* dtls1_get_record: a record of the epoch is opened. *)
LEMMA AcceptStep ==
    ASSUME Numbered, NEW e, EndpointInv(e, net), NEW r \in net,
           e.pc = "wire",
           dtls1_get_bitmap(e, r) = "bitmap",
           ~IsRepeat(e, r)
    PROVE  EndpointInv([Mark(dtls1_process_record([e EXCEPT !.rrec = r], r, TRUE), r) EXCEPT !.pc = "record"], net)
<1> DEFINE f == [Mark(dtls1_process_record([e EXCEPT !.rrec = r], r, TRUE), r) EXCEPT !.pc = "record"]
<1>0. e \in Endpoint /\ Control(e, net) /\ Data(e, net)
  BY DEF EndpointInv
<1>r. r \in Record /\ r.seq \in Nat /\ r.epoch = EpochOf(r.kind) /\ r.kind \in Kind
  BY DEF Numbered, Record
<1>l. ~e.rcontent.left
  BY <1>0 DEF Control, Called
<1>m. PICK m \in Bitmap : m = dtls1_record_bitmap_update(e.bitmap, r.seq)
  BY <1>0, <1>r, MarkedStays DEF Endpoint
<1>b. r.epoch = e.read_epoch
  BY DEF dtls1_get_bitmap
<1>i. [type |-> TypeOf(r.kind), rec |-> r, left |-> TRUE] \in Content
  BY <1>r DEF Content, TypeOf, Kind
<1>j. PICK c \in Content : c = [type |-> TypeOf(r.kind), rec |-> r, left |-> TRUE]
  BY <1>i
<1>k. c.left /\ c.rec = r
  BY <1>j
<1>n. f = [e EXCEPT !.rrec = r, !.bitmap = m, !.rcontent = c, !.accepted = @ \cup {r}, !.pc = "record"]
  BY <1>0, <1>b, <1>j, <1>m DEF Mark, dtls1_process_record, dtls1_get_bitmap, Endpoint
<1>o. r \notin e.accepted \/ r \in e.queued
  BY <1>0, <1>b DEF IsRepeat, Data, Marked
<1> HIDE DEF f
<1>t. f \in Endpoint
  BY <1>0, Constants, <1>r, <1>n DEF Endpoint, Start, Clear, Return, Fail
<1>1. /\ f \in Endpoint /\ Same(e, f, {"rrec", "bitmap", "rcontent", "accepted", "pc"})
      /\ f.rcontent = c /\ f.rrec = r /\ f.pc = "record"
      /\ f.accepted = e.accepted \cup {r} /\ f.bitmap = m
  BY <1>0, <1>t, Constants, <1>r, <1>n DEF Endpoint, Start, Clear, Return, Fail, Fields, Same
<1> HIDE DEF f
<1>2. Control(f, net)
  BY <1>0, <1>1, ContentFacts, <1>k, <1>l DEF Control, Staged, Called, QueuedEarly, Undamaged, Tolerant, Same, Fields
<1>3. Data(f, net)
  BY <1>0, <1>1, ContentFacts, Accepts, <1>r, <1>b, <1>j, <1>l, <1>m, <1>o DEF Same, Fields
<1> QED BY <1>1, <1>2, <1>3 DEF EndpointInv, f

(* dtls1_get_record: a damaged record is marked, and reported. *)
LEMMA DamagedStep ==
    ASSUME Numbered, NEW e, EndpointInv(e, net), NEW r \in net,
           e.pc = "wire",
           dtls1_get_bitmap(e, r) = "bitmap",
           Damage
    PROVE  EndpointInv([Mark(dtls1_process_record([e EXCEPT !.rrec = r], r, FALSE), r) EXCEPT !.pc = "record"], net)
<1> DEFINE f == [Mark(dtls1_process_record([e EXCEPT !.rrec = r], r, FALSE), r) EXCEPT !.pc = "record"]
<1>0. e \in Endpoint /\ Control(e, net) /\ Data(e, net)
  BY DEF EndpointInv
<1>r. r \in Record /\ r.seq \in Nat /\ r.epoch = EpochOf(r.kind) /\ r.kind \in Kind
  BY DEF Numbered, Record
<1>l. ~e.rcontent.left
  BY <1>0 DEF Control, Called
<1>m. PICK m \in Bitmap : m = dtls1_record_bitmap_update(e.bitmap, r.seq)
  BY <1>0, <1>r, MarkedStays DEF Endpoint
<1>b. r.epoch = e.read_epoch
  BY DEF dtls1_get_bitmap
<1>n. f = [e EXCEPT !.rrec = r, !.bitmap = m, !.pc = "record"]
  BY <1>0, <1>b, <1>m DEF Mark, dtls1_process_record, dtls1_get_bitmap, Endpoint
<1> HIDE DEF f
<1>t. f \in Endpoint
  BY <1>0, Constants, <1>r, <1>n DEF Endpoint, Start, Clear, Return, Fail
<1>1. /\ f \in Endpoint /\ Same(e, f, {"rrec", "bitmap", "pc"})
      /\ f.pc = "record"
      /\ f.bitmap = m
  BY <1>0, <1>t, Constants, <1>r, <1>n DEF Endpoint, Start, Clear, Return, Fail, Fields, Same
<1> HIDE DEF f
<1>2. Control(f, net)
  BY <1>0, <1>1, ContentFacts, <1>l DEF Control, Staged, Called, QueuedEarly, Undamaged, Tolerant, Same, Fields
<1>3. Data(f, net)
  BY <1>0, <1>1, ContentFacts, Marks, <1>r, <1>m DEF Same, Fields
<1> QED BY <1>1, <1>2, <1>3 DEF EndpointInv, f

(* dtls1_get_record, for a datagram of the network. *)
LEMMA WireStep ==
    ASSUME Numbered, NEW e, EndpointInv(e, net), e.pc = "wire",
           NEW r \in net, NEW intact \in BOOLEAN, intact \/ Damage
    PROVE  EndpointInv(dtls1_get_record(e, r, intact), net)
<1>1. CASE Discarded(e, r)
  BY <1>1, SkipStep DEF dtls1_get_record
<1>2. CASE ~Discarded(e, r) /\ ForNextEpoch(e, r)
  <2>1. CASE InInit(e)
    <3>1. dtls1_get_record(e, r, intact) = dtls1_buffer_record(e, r, intact)
      BY <1>2, <2>1 DEF dtls1_get_record
    <3>2. dtls1_get_bitmap(e, r) = "next_bitmap"
      BY <1>2 DEF ForNextEpoch
    <3>3. EndpointInv(Mark([e EXCEPT !.rrec = r], r), net)
      BY <3>2, FullStep
    <3>4. pqueue_find(e.unprocessed, r.seq) # {} =>
              EndpointInv(Return([e EXCEPT !.rrec = NoRecord], "repeated"), net)
      BY <3>2, TwiceStep
    <3>5. EndpointInv([e EXCEPT !.unprocessed = @ \cup {[seq |-> r.seq, rec |-> r, intact |-> intact]},
                   !.rrec = NoRecord, !.queued = @ \cup {r},
                   !.next_bitmap = dtls1_record_bitmap_update(@, 0)], net)
      BY <3>2, QueueStep
    <3> QED BY <3>1, <3>3, <3>4, <3>5 DEF dtls1_buffer_record
  <2>2. CASE ~InInit(e)
    BY <1>2, <2>2, SkipStep DEF dtls1_get_record
  <2> QED BY <2>1, <2>2
<1>3. CASE ~Discarded(e, r) /\ ~ForNextEpoch(e, r)
  <2>1. dtls1_get_bitmap(e, r) = "bitmap" /\ ~IsRepeat(e, r)
    BY <1>3 DEF Discarded, ForNextEpoch, dtls1_get_bitmap
  <2>2. CASE intact
    <3>1. intact = TRUE
      BY <2>2
    <3> QED BY <1>3, <2>1, <3>1, AcceptStep DEF dtls1_get_record
  <2>3. CASE ~intact
    <3>1. intact = FALSE
      BY <2>3
    <3> QED BY <1>3, <2>1, <3>1, DamagedStep DEF dtls1_get_record
  <2> QED BY <2>2, <2>3
<1> QED BY <1>1, <1>2, <1>3

(* The call would have to wait, or has read enough records. *)
LEMMA LimitStep ==
    ASSUME Numbered, NEW e, EndpointInv(e, net),
           e.pc \in {"start", "wire"}
    PROVE  EndpointInv(Return(e, "want_read"), net)
<1> DEFINE f == Return(e, "want_read")
<1>0. e \in Endpoint /\ Control(e, net) /\ Data(e, net)
  BY DEF EndpointInv
<1>l. ~e.rcontent.left
  BY <1>0 DEF Control, Called
<1>t. f \in Endpoint
  BY <1>0, Constants DEF Endpoint, Start, Clear, Return, Fail
<1>1. /\ f \in Endpoint /\ Same(e, f, {"pc", "rrcount", "ret"})
      /\ f.pc = "idle" /\ f.ret = "want_read"
  BY <1>0, <1>t, Constants DEF Endpoint, Start, Clear, Return, Fail, Fields, Same
<1> HIDE DEF f
<1>2. Control(f, net)
  BY <1>0, <1>1, ContentFacts, <1>l DEF Control, Staged, Called, QueuedEarly, Undamaged, Tolerant, Same, Fields
<1>3. Data(f, net)
  BY <1>0, <1>1, ContentFacts, Idles DEF Same, Fields, Frame
<1> QED BY <1>1, <1>2, <1>3 DEF EndpointInv, f

LEMMA CountStep ==
    ASSUME Numbered, NEW e, EndpointInv(e, net),
           e.pc = "start",
           ~(e.rrcount >= RecordLimit)
    PROVE  EndpointInv([e EXCEPT !.rrcount = @ + 1], net)
<1> DEFINE f == [e EXCEPT !.rrcount = @ + 1]
<1>0. e \in Endpoint /\ Control(e, net) /\ Data(e, net)
  BY DEF EndpointInv
<1>n. PICK n \in Count : n = e.rrcount + 1
  BY <1>0 DEF Endpoint, Count
<1>t. f \in Endpoint
  BY <1>0, Constants, <1>n DEF Endpoint, Start, Clear, Return, Fail
<1>1. /\ f \in Endpoint /\ Same(e, f, {"rrcount"})
  BY <1>0, <1>t, Constants, <1>n DEF Endpoint, Start, Clear, Return, Fail, Fields, Same
<1> HIDE DEF f
<1>2. Control(f, net)
  BY <1>0, <1>1, ContentFacts DEF Control, Staged, Called, QueuedEarly, Undamaged, Tolerant, Same, Fields
<1>3. Data(f, net)
  BY <1>0, <1>1, ContentFacts, Idles DEF Same, Fields, Frame
<1> QED BY <1>1, <1>2, <1>3 DEF EndpointInv, f

LEMMA AskStep ==
    ASSUME Numbered, NEW e, EndpointInv(e, net),
           e.pc = "start"
    PROVE  EndpointInv([e EXCEPT !.pc = "wire"], net)
<1> DEFINE f == [e EXCEPT !.pc = "wire"]
<1>0. e \in Endpoint /\ Control(e, net) /\ Data(e, net)
  BY DEF EndpointInv
<1>l. ~e.rcontent.left
  BY <1>0 DEF Control, Called
<1>t. f \in Endpoint
  BY <1>0, Constants DEF Endpoint, Start, Clear, Return, Fail
<1>1. /\ f \in Endpoint /\ Same(e, f, {"pc"})
      /\ f.pc = "wire"
  BY <1>0, <1>t, Constants DEF Endpoint, Start, Clear, Return, Fail, Fields, Same
<1> HIDE DEF f
<1>2. Control(f, net)
  BY <1>0, <1>1, ContentFacts, <1>l DEF Control, Staged, Called, QueuedEarly, Undamaged, Tolerant, Same, Fields
<1>3. Data(f, net)
  BY <1>0, <1>1, ContentFacts, Idles DEF Same, Fields, Frame
<1> QED BY <1>1, <1>2, <1>3 DEF EndpointInv, f

(* dtls1_process_buffered_record: the queue is empty. *)
LEMMA TurnStep ==
    ASSUME Numbered, NEW e, EndpointInv(e, net),
           e.pc = "start",
           e.unprocessed_epoch = e.read_epoch
    PROVE  EndpointInv([e EXCEPT !.pc = "wire", !.unprocessed_epoch = e.read_epoch + 1], net)
<1> DEFINE f == [e EXCEPT !.pc = "wire", !.unprocessed_epoch = e.read_epoch + 1]
<1>0. e \in Endpoint /\ Control(e, net) /\ Data(e, net)
  BY DEF EndpointInv
<1>l. ~e.rcontent.left
  BY <1>0 DEF Control, Called
<1>n. e.read_epoch + 1 = 2
  BY <1>0 DEF Endpoint, Epoch, NextEpoch
<1>t. f \in Endpoint
  BY <1>0, Constants, <1>n DEF Endpoint, Start, Clear, Return, Fail
<1>1. /\ f \in Endpoint /\ Same(e, f, {"pc", "unprocessed_epoch"})
      /\ f.pc = "wire"
  BY <1>0, <1>t, Constants, <1>n DEF Endpoint, Start, Clear, Return, Fail, Fields, Same
<1> HIDE DEF f
<1>2. Control(f, net)
  BY <1>0, <1>1, ContentFacts, <1>l DEF Control, Staged, Called, QueuedEarly, Undamaged, Tolerant, Same, Fields
<1>3. Data(f, net)
  BY <1>0, <1>1, ContentFacts, Idles DEF Same, Fields, Frame
<1> QED BY <1>1, <1>2, <1>3 DEF EndpointInv, f

(* dtls1_process_buffered_record: a queued record is opened. *)
LEMMA OpenStep ==
    ASSUME Numbered, NEW e, EndpointInv(e, net), NEW item \in e.unprocessed,
           e.pc = "start",
           e.unprocessed_epoch = e.read_epoch,
           item.intact
    PROVE  EndpointInv(UseBuffered(e, item), net)
<1> DEFINE f == UseBuffered(e, item)
<1>0. e \in Endpoint /\ Control(e, net) /\ Data(e, net)
  BY DEF EndpointInv
<1>l. ~e.rcontent.left
  BY <1>0 DEF Control, Called
<1>q. item \in Early /\ item.rec \in Record /\ item.rec \in net /\ item.rec \in e.queued
  BY <1>0 DEF Endpoint, Early, Control, QueuedEarly
<1>r. PICK r \in Record : r = item.rec
  BY <1>q
<1>b. r.epoch = e.read_epoch /\ r.kind \in Kind
  BY <1>0, <1>q, <1>r DEF Control, QueuedEarly, Endpoint, Epoch, NextEpoch, Numbered
<1>i. [type |-> TypeOf(r.kind), rec |-> r, left |-> TRUE] \in Content
  BY <1>b DEF Content, TypeOf, Kind
<1>j. PICK c \in Content : c = [type |-> TypeOf(r.kind), rec |-> r, left |-> TRUE]
  BY <1>i
<1>k. c.left /\ c.rec = r
  BY <1>j
<1>n. f = [e EXCEPT !.unprocessed = @ \ {item}, !.rrec = r, !.rcontent = c, !.accepted = @ \cup {r}, !.pc = "record"]
  BY <1>0, <1>j, <1>r DEF UseBuffered, dtls1_process_record, Endpoint
<1> HIDE DEF f
<1>t. f \in Endpoint
  BY <1>0, Constants, <1>n DEF Endpoint, Start, Clear, Return, Fail
<1>1. /\ f \in Endpoint /\ Same(e, f, {"unprocessed", "rrec", "rcontent", "accepted", "pc"})
      /\ f.rcontent = c /\ f.rrec = r /\ f.pc = "record"
      /\ f.unprocessed = e.unprocessed \ {item} /\ f.accepted = e.accepted \cup {r}
  BY <1>0, <1>t, Constants, <1>n DEF Endpoint, Start, Clear, Return, Fail, Fields, Same
<1> HIDE DEF f
<1>2. Control(f, net)
  BY <1>0, <1>1, ContentFacts, <1>k, <1>l DEF Control, Staged, Called, QueuedEarly, Undamaged, Tolerant, Same, Fields
<1>3. Data(f, net)
  BY <1>0, <1>1, ContentFacts, Accepts, <1>q, <1>r, <1>b, <1>j, <1>l DEF Same, Fields
<1> QED BY <1>1, <1>2, <1>3 DEF EndpointInv, f

LEMMA UnopenedStep ==
    ASSUME Numbered, NEW e, EndpointInv(e, net), NEW item \in e.unprocessed,
           e.pc = "start",
           ~item.intact
    PROVE  EndpointInv(UseBuffered(e, item), net)
<1> DEFINE f == UseBuffered(e, item)
<1>0. e \in Endpoint /\ Control(e, net) /\ Data(e, net)
  BY DEF EndpointInv
<1>l. ~e.rcontent.left
  BY <1>0 DEF Control, Called
<1>q. item \in Early /\ item.rec \in Record /\ item.rec \in net /\ item.rec \in e.queued
  BY <1>0 DEF Endpoint, Early, Control, QueuedEarly
<1>r. PICK r \in Record : r = item.rec
  BY <1>q
<1>d. Damage
  BY <1>0 DEF Control, QueuedEarly
<1>n. f = [e EXCEPT !.unprocessed = @ \ {item}, !.rrec = r, !.pc = "record"]
  BY <1>0, <1>r DEF UseBuffered, dtls1_process_record, Endpoint
<1> HIDE DEF f
<1>t. f \in Endpoint
  BY <1>0, Constants, <1>n DEF Endpoint, Start, Clear, Return, Fail
<1>1. /\ f \in Endpoint /\ Same(e, f, {"unprocessed", "rrec", "pc"})
      /\ f.pc = "record"
      /\ f.unprocessed = e.unprocessed \ {item}
  BY <1>0, <1>t, Constants, <1>n DEF Endpoint, Start, Clear, Return, Fail, Fields, Same
<1> HIDE DEF f
<1>2. Control(f, net)
  BY <1>0, <1>1, ContentFacts, <1>d, <1>l DEF Control, Staged, Called, QueuedEarly, Undamaged, Tolerant, Same, Fields
<1>3. Data(f, net)
  BY <1>0, <1>1, ContentFacts, Idles DEF Same, Fields, Frame
<1> QED BY <1>1, <1>2, <1>3 DEF EndpointInv, f

(* dtls1_retrieve_buffered_rcontent: what waited for Finished is read. *)
LEMMA FetchStep ==
    ASSUME Numbered, NEW e, EndpointInv(e, net), NEW item \in e.buffered_app_data,
           e.pc = "start",
           e.state = "ok",
           item.content.left
    PROVE  EndpointInv([UseBufferedData(e, item) EXCEPT !.pc = "record"], net)
<1> DEFINE f == [UseBufferedData(e, item) EXCEPT !.pc = "record"]
<1>0. e \in Endpoint /\ Control(e, net) /\ Data(e, net)
  BY DEF EndpointInv
<1>l. ~e.rcontent.left
  BY <1>0 DEF Control, Called
<1>q. item \in Held /\ item.content \in Content /\ item.content.rec.epoch \in Nat /\ e.rrec \in Record
  BY <1>0 DEF Endpoint, Held, Content, Record
<1>o. [e.rrec EXCEPT !.epoch = item.content.rec.epoch] \in Record
  BY <1>q DEF Record
<1>r. PICK r \in Record : r = [e.rrec EXCEPT !.epoch = item.content.rec.epoch]
  BY <1>o
<1>n. f = [e EXCEPT !.buffered_app_data = @ \ {item}, !.rcontent = item.content, !.rrec = r, !.pc = "record"]
  BY <1>0, <1>r DEF UseBufferedData, Endpoint
<1> HIDE DEF f
<1>t. f \in Endpoint
  BY <1>0, Constants, <1>n, <1>q DEF Endpoint, Start, Clear, Return, Fail
<1>1. /\ f \in Endpoint /\ Same(e, f, {"buffered_app_data", "rcontent", "rrec", "pc"})
      /\ f.pc = "record"
      /\ f.rcontent = item.content
      /\ f.buffered_app_data = e.buffered_app_data \ {item}
  BY <1>0, <1>t, Constants, <1>n, <1>q DEF Endpoint, Start, Clear, Return, Fail, Fields, Same
<1> HIDE DEF f
<1>2. Control(f, net)
  BY <1>0, <1>1, ContentFacts, <1>l DEF Control, Staged, Called, QueuedEarly, Undamaged, Tolerant, Same, Fields
<1>3. Data(f, net)
  BY <1>0, <1>1, ContentFacts, Fetches, <1>l DEF Same, Fields
<1> QED BY <1>1, <1>2, <1>3 DEF EndpointInv, f

LEMMA FetchEmptyStep ==
    ASSUME Numbered, NEW e, EndpointInv(e, net), NEW item \in e.buffered_app_data,
           e.pc = "start",
           ~item.content.left
    PROVE  EndpointInv(UseBufferedData(e, item), net)
<1> DEFINE f == UseBufferedData(e, item)
<1>0. e \in Endpoint /\ Control(e, net) /\ Data(e, net)
  BY DEF EndpointInv
<1>l. ~e.rcontent.left
  BY <1>0 DEF Control, Called
<1>q. item \in Held /\ item.content \in Content /\ item.content.rec.epoch \in Nat /\ e.rrec \in Record
  BY <1>0 DEF Endpoint, Held, Content, Record
<1>o. [e.rrec EXCEPT !.epoch = item.content.rec.epoch] \in Record
  BY <1>q DEF Record
<1>r. PICK r \in Record : r = [e.rrec EXCEPT !.epoch = item.content.rec.epoch]
  BY <1>o
<1>d. Damage
  BY <1>0 DEF Control, Undamaged
<1>n. f = [e EXCEPT !.buffered_app_data = @ \ {item}, !.rcontent = item.content, !.rrec = r]
  BY <1>0, <1>r DEF UseBufferedData, Endpoint
<1> HIDE DEF f
<1>t. f \in Endpoint
  BY <1>0, Constants, <1>n, <1>q DEF Endpoint, Start, Clear, Return, Fail
<1>1. /\ f \in Endpoint /\ Same(e, f, {"buffered_app_data", "rcontent", "rrec"})
      /\ f.rcontent = item.content
      /\ f.buffered_app_data = e.buffered_app_data \ {item}
  BY <1>0, <1>t, Constants, <1>n, <1>q DEF Endpoint, Start, Clear, Return, Fail, Fields, Same
<1> HIDE DEF f
<1>2. Control(f, net)
  BY <1>0, <1>1, ContentFacts, <1>l, <1>d DEF Control, Staged, Called, QueuedEarly, Undamaged, Tolerant, Same, Fields
<1>3. Data(f, net)
  BY <1>0, <1>1, ContentFacts, Fetches, <1>l DEF Same, Fields
<1> QED BY <1>1, <1>2, <1>3 DEF EndpointInv, f

(* dtls1_process_buffered_record. *)
LEMMA BufferedStep ==
    ASSUME Numbered, NEW e, EndpointInv(e, net), e.pc = "start"
    PROVE  EndpointInv(dtls1_process_buffered_record(e), net)
<1>1. CASE e.unprocessed_epoch # e.read_epoch
  BY <1>1, AskStep DEF dtls1_process_buffered_record
<1>2. CASE e.unprocessed_epoch = e.read_epoch /\ e.unprocessed = {}
  BY <1>2, TurnStep DEF dtls1_process_buffered_record
<1>3. CASE e.unprocessed_epoch = e.read_epoch /\ e.unprocessed # {}
  <2>1. \A item \in e.unprocessed : item.seq \in Nat
    BY DEF EndpointInv, Endpoint, Early
  <2>2. PICK item \in e.unprocessed : item = pqueue_peek(e.unprocessed)
    BY <1>3, <2>1, Peeked
  <2>3. EndpointInv(UseBuffered(e, item), net)
    BY <1>3, OpenStep, UnopenedStep
  <2> QED BY <1>3, <2>2, <2>3 DEF dtls1_process_buffered_record
<1> QED BY <1>1, <1>2, <1>3

(* dtls1_read_bytes, until there is content. *)
LEMMA ContentStep ==
    ASSUME Numbered, NEW e, EndpointInv(e, net), e.pc = "start"
    PROVE  EndpointInv(HaveContent(dtls1_retrieve_buffered_rcontent(e)), net)
<1>0. ~e.rcontent.left
  BY DEF EndpointInv, Control, Called
<1>1. CASE InInit(e) \/ e.buffered_app_data = {}
  <2>1. dtls1_retrieve_buffered_rcontent(e) = e
    BY <1>1 DEF dtls1_retrieve_buffered_rcontent
  <2> QED BY <1>0, <2>1, BufferedStep DEF HaveContent
<1>2. CASE e.state = "ok" /\ e.buffered_app_data # {}
  <2>1. \A item \in e.buffered_app_data : item.seq \in Nat
    BY DEF EndpointInv, Endpoint, Held
  <2>2. PICK item \in e.buffered_app_data : item = pqueue_peek(e.buffered_app_data)
    BY <1>2, <2>1, Peeked
  <2> DEFINE f == UseBufferedData(e, item)
  <2>3. dtls1_retrieve_buffered_rcontent(e) = f
    BY <1>0, <1>2, <2>2 DEF dtls1_retrieve_buffered_rcontent, InInit
  <2>4. f.rcontent = item.content /\ f.pc = "start"
    BY DEF UseBufferedData, EndpointInv, Endpoint
  <2> HIDE DEF f
  <2>5. CASE item.content.left
    <3>1. EndpointInv([f EXCEPT !.pc = "record"], net)
      BY <1>2, <2>5, FetchStep DEF f
    <3> QED BY <2>3, <2>4, <2>5, <3>1 DEF HaveContent
  <2>6. CASE ~item.content.left
    <3>1. EndpointInv(f, net)
      BY <2>6, FetchEmptyStep DEF f
    <3> QED BY <2>3, <2>4, <2>6, <3>1, BufferedStep DEF HaveContent
  <2> QED BY <2>5, <2>6
<1> QED BY <1>1, <1>2 DEF InInit

LEMMA StartStep ==
    ASSUME Numbered, NEW e, EndpointInv(e, net), e.pc = "start"
    PROVE  EndpointInv(StartReading(e), net)
<1>1. CASE e.rrcount >= RecordLimit
  BY <1>1, LimitStep DEF StartReading
<1>2. CASE ~(e.rrcount >= RecordLimit)
  <2> DEFINE f == [e EXCEPT !.rrcount = @ + 1]
  <2>1. EndpointInv(f, net)
    BY <1>2, CountStep
  <2>2. f.pc = "start"
    BY DEF EndpointInv, Endpoint
  <2>3. StartReading(e) = HaveContent(dtls1_retrieve_buffered_rcontent(f))
    BY <1>2 DEF StartReading
  <2> HIDE DEF f
  <2> QED BY <2>1, <2>2, <2>3, ContentStep
<1> QED BY <1>1, <1>2

(* SSL_do_handshake and SSL_read are called. *)
LEMMA CallStep ==
    ASSUME Numbered, NEW e, EndpointInv(e, net),
           e.pc = "idle",
           e.ret \notin {"failed", "repeated", "zero"}
    PROVE  EndpointInv([e EXCEPT !.pc = "start", !.change_cipher_spec_ok = @ \/ e.state = "finished"], net)
<1> DEFINE f == [e EXCEPT !.pc = "start", !.change_cipher_spec_ok = @ \/ e.state = "finished"]
<1>0. e \in Endpoint /\ Control(e, net) /\ Data(e, net)
  BY DEF EndpointInv
<1>l. ~e.rcontent.left
  BY <1>0 DEF Control, Called
<1>n. PICK c \in BOOLEAN : c = (e.change_cipher_spec_ok \/ e.state = "finished")
  OBVIOUS
<1>o. f = [e EXCEPT !.pc = "start", !.change_cipher_spec_ok = c]
  BY <1>0, <1>n DEF Endpoint
<1> HIDE DEF f
<1>t. f \in Endpoint
  BY <1>0, Constants, <1>n, <1>o DEF Endpoint, Start, Clear, Return, Fail
<1>1. /\ f \in Endpoint /\ Same(e, f, {"pc", "change_cipher_spec_ok"})
      /\ f.pc = "start"
      /\ f.change_cipher_spec_ok <=> e.change_cipher_spec_ok \/ e.state = "finished"
  BY <1>0, <1>t, Constants, <1>n, <1>o DEF Endpoint, Start, Clear, Return, Fail, Fields, Same
<1> HIDE DEF f
<1>2. Control(f, net)
  BY <1>0, <1>1, ContentFacts, <1>l DEF Control, Staged, Called, QueuedEarly, Undamaged, Tolerant, Same, Fields
<1>3. Data(f, net)
  BY <1>0, <1>1, ContentFacts, Idles DEF Same, Fields, Frame
<1> QED BY <1>1, <1>2, <1>3 DEF EndpointInv, f

-----------------------------------------------------------------------------
(* The peer. *)

(* What the endpoint knows of the records that were sent stays true. *)
LEMMA SentGrows ==
    ASSUME NEW e, NEW a, NEW b, a \subseteq b, EndpointInv(e, a)
    PROVE  EndpointInv(e, b)
<1>1. Control(e, b)
  BY DEF EndpointInv, Control, QueuedEarly
<1>2. Data(e, b)
  BY DEF EndpointInv, Data, Marked
<1> QED BY <1>1, <1>2 DEF EndpointInv

LEMMA NumberedStays ==
    ASSUME Numbered, net' = net, arrived' \in SUBSET net
    PROVE  Numbered'
<1>1. Extra' = Extra
  BY DEF Extra, Sent
<1>2. ASSUME NEW x PROVE NextSeq(x)' = NextSeq(x)
  BY DEF NextSeq
<1> QED BY <1>1, <1>2 DEF Numbered

(* A record is sent with the next number of its epoch. *)
LEMMA SendStep ==
    ASSUME Numbered, NEW kind \in Kind, PeerSend(kind)
    PROVE  Numbered' /\ net \subseteq net'
<1> DEFINE x == EpochOf(kind)
           E == {q \in net : q.epoch = x}
           n == NextSeq(x)
<1>x. x \in Nat
  BY DEF EpochOf
<1>n. IsFiniteSet(net) /\ IsFiniteSet(E) /\ n = Cardinality(E) /\ n \in Nat
  <2>1. E \in SUBSET net
    OBVIOUS
  <2>2. IsFiniteSet(net) /\ IsFiniteSet(E)
    BY <2>1, FS_Subset DEF Numbered
  <2> QED BY <2>2, FS_CardinalityType DEF NextSeq
<1>r. PICK r : r = [kind |-> kind, epoch |-> x, seq |-> n]
  OBVIOUS
<1>1. r \in Record /\ r.kind = kind /\ r.epoch = x /\ r.seq = n
  BY <1>n, <1>r, <1>x DEF Record
<1>2. net' = net \cup {r} /\ arrived' = arrived
  BY <1>r DEF PeerSend, Send
<1> HIDE DEF x, n
<1>3. ASSUME NEW q \in net, q.epoch = x PROVE q.seq < n /\ q.seq \in Nat
  BY <1>3 DEF Numbered, Record, n
<1>4. r \notin net
  BY <1>1, <1>3, <1>n
<1>5. IsFiniteSet(net')
  BY <1>2, <1>n, FS_AddElement
<1>6. NextSeq(x)' = n + 1 /\ \A y : y # x => NextSeq(y)' = NextSeq(y)
  <2>1. {q \in net' : q.epoch = x} = E \cup {r}
    BY <1>1, <1>2
  <2>2. r \notin E
    BY <1>4
  <2> HIDE DEF E
  <2>3. Cardinality(E \cup {r}) = n + 1
    BY <1>n, <2>2, FS_AddElement
  <2>4. NextSeq(x)' = n + 1
    BY <2>1, <2>3 DEF NextSeq
  <2>5. ASSUME NEW y, y # x PROVE NextSeq(y)' = NextSeq(y)
    <3>1. {q \in net' : q.epoch = y} = {q \in net : q.epoch = y}
      BY <1>1, <1>2, <2>5
    <3> QED BY <3>1 DEF NextSeq
  <2> QED BY <2>4, <2>5
<1>7. ASSUME NEW q \in net'
      PROVE  q.kind \in Kind /\ q.epoch = EpochOf(q.kind) /\ q.seq < NextSeq(q.epoch)'
  <2>1. CASE q = r
    BY <1>1, <1>6, <1>n, <2>1 DEF x
  <2>2. CASE q \in net /\ q.epoch = x
    BY <1>3, <1>6, <1>n, <2>2 DEF Numbered
  <2>3. CASE q \in net /\ q.epoch # x
    BY <1>6, <2>3 DEF Numbered
  <2> QED BY <1>2, <2>1, <2>2, <2>3
<1>8. ASSUME NEW p \in net', NEW q \in net', p.epoch = q.epoch, p.seq = q.seq PROVE p = q
  <2>1. CASE p = r /\ q \in net
    BY <1>1, <1>3, <1>8, <1>n, <2>1
  <2>2. CASE q = r /\ p \in net
    BY <1>1, <1>3, <1>8, <1>n, <2>2
  <2>3. CASE p \in net /\ q \in net
    BY <1>8, <2>3 DEF Numbered
  <2> QED BY <1>2, <2>1, <2>2, <2>3
<1>9. Cardinality(Extra') <= ExtraBound
  <2>0. IsFiniteSet(Extra) /\ Cardinality(Extra) \in Nat
    <3>1. Extra \in SUBSET net
      BY DEF Extra, Sent
    <3> QED BY <1>n, <3>1, FS_Subset, FS_CardinalityType
  <2>1. CASE kind \in Protected
    <3>1. Cardinality(Extra) < ExtraBound
      BY <2>1 DEF PeerSend, Extra, Protected
    <3>2. Extra' = Extra \cup {r}
      BY <1>1, <1>2, <2>1 DEF Extra, Sent, Protected
    <3>3. Cardinality(Extra \cup {r}) = Cardinality(Extra) \/ Cardinality(Extra \cup {r}) = Cardinality(Extra) + 1
      BY <2>0, FS_AddElement
    <3> QED BY <2>0, <3>1, <3>2, <3>3
  <2>2. CASE kind \notin Protected
    <3>1. Extra' = Extra
      BY <1>1, <1>2, <2>2 DEF Extra, Sent, Protected
    <3> QED BY <3>1 DEF Numbered
  <2> QED BY <2>1, <2>2
<1>10. net' \in SUBSET Record /\ arrived' \in SUBSET net'
  BY <1>1, <1>2 DEF Numbered
<1>11. net \subseteq net'
  BY <1>2
<1> QED BY <1>5, <1>7, <1>8, <1>9, <1>10, <1>11 DEF Numbered

-----------------------------------------------------------------------------
LEMMA Initially == Init => Inv
<1> SUFFICES ASSUME Init PROVE Inv
  OBVIOUS
<1>1. Numbered
  <2>1. Extra = {} /\ Cardinality(Extra) = 0 /\ IsFiniteSet(net)
    BY FS_EmptySet DEF Init, Extra, Sent
  <2> QED BY <2>1 DEF Init, Numbered
<1>2. s \in Endpoint
  <2>1. EmptyBitmap \in Bitmap /\ 0 \in Epoch /\ 1 \in NextEpoch /\ "message" \in Stage /\ "none" \in Returned
    BY DEF EmptyBitmap, Bitmap, Epoch, NextEpoch, Stage, Returned
  <2>2. << >> \in Seq(Record)
    OBVIOUS
  <2> QED BY <2>1, <2>2, Constants DEF Init, Endpoint
<1>3. /\ s.log = << >> /\ s.accepted = {} /\ s.queued = {} /\ s.unprocessed = {}
      /\ s.buffered_app_data = {} /\ s.rcontent = NoContent /\ s.state = "message" /\ s.read_epoch = 0
      /\ ~s.change_cipher_spec /\ ~s.change_cipher_spec_ok /\ s.pc = "idle" /\ s.ret = "none"
  BY DEF Init
<1>4. Control(s, net)
  BY <1>3, Constants DEF Control, Staged, Called, QueuedEarly, Undamaged, Tolerant
<1>5. Data(s, net)
  BY <1>3, Constants DEF Data, Contents, Whole, Marked, OnePlace, Confirmed, NotLost
<1> QED BY <1>1, <1>2, <1>4, <1>5 DEF Inv, EndpointInv

LEMMA Inductive == Inv /\ [Next]_vars => Inv'
<1> SUFFICES ASSUME Inv, [Next]_vars PROVE Inv'
  OBVIOUS
<1>0. Numbered /\ EndpointInv(s, net) /\ arrived \in SUBSET net
  BY DEF Inv, Numbered
<1>s. ASSUME net' = net, arrived' \in SUBSET net, EndpointInv(s', net) PROVE Inv'
  BY <1>0, <1>s, NumberedStays DEF Inv
<1>1. ASSUME NEW kind \in Kind, PeerSend(kind) PROVE Inv'
  <2>1. Numbered' /\ net \subseteq net' /\ s' = s
    BY <1>0, <1>1, SendStep DEF PeerSend
  <2>2. EndpointInv(s, net')
    BY <1>0, <2>1, SentGrows
  <2> QED BY <2>1, <2>2 DEF Inv
<1>2. CASE Call
  <2>1. s' = [s EXCEPT !.pc = "start", !.change_cipher_spec_ok = @ \/ s.state = "finished"]
    BY <1>2 DEF Call
  <2>2. s.pc = "idle" /\ s.ret \notin {"failed", "repeated", "zero"}
    BY <1>2 DEF Call, Failed
  <2>3. EndpointInv(s', net)
    BY <1>0, <2>1, <2>2, CallStep
  <2> QED BY <1>0, <1>2, <1>s, <2>3 DEF Call
<1>3. CASE ReadStart
  BY <1>0, <1>3, <1>s, StartStep DEF ReadStart
<1>4. ASSUME NEW r \in net, NEW intact \in BOOLEAN, ReadWire(r, intact) PROVE Inv'
  <2>1. EndpointInv(s', net)
    BY <1>0, <1>4, WireStep DEF ReadWire
  <2> QED BY <1>0, <1>4, <1>s, <2>1 DEF ReadWire
<1>5. CASE WouldBlock
  BY <1>0, <1>5, <1>s, LimitStep DEF WouldBlock
<1>6. CASE ReadRecord
  BY <1>0, <1>6, <1>s, UseContentStep DEF ReadRecord
<1>7. CASE UNCHANGED vars
  BY <1>0, <1>7, <1>s DEF vars
<1> QED BY <1>1, <1>2, <1>3, <1>4, <1>5, <1>6, <1>7 DEF Next, Stopped

(* The strengthening holds of every state the read path reaches. *)
THEOREM Invariance == Spec => []Inv
  BY Initially, Inductive, PTL DEF Spec

(* DeliveredOnce: for every window, every length of the queues and every     *)
(* network, dtls1_get_record lets a record of the current epoch be delivered *)
(* at most once.  A record is marked before it leaves s->s3->rcontent, and   *)
(* from there it goes to one place (OnePlace, Marked).                       *)
THEOREM NoRecordTwice == Spec => []DeliveredOnce
<1>1. Inv => DeliveredOnce
  <2> SUFFICES ASSUME Inv PROVE DeliveredOnce
    OBVIOUS
  <2>0. Numbered /\ s \in Endpoint /\ Control(s, net) /\ Data(s, net)
    BY DEF Inv, EndpointInv
  <2>1. TypeOK
    <3>1. s.bitmap \in Bitmap /\ s.next_bitmap \in Bitmap
      BY <2>0 DEF Endpoint
    <3>2. s.bitmap.map \subseteq 0 .. Window - 1 /\ s.next_bitmap.map \subseteq 0 .. Window - 1
      BY <3>1 DEF Bitmap
    <3>3. /\ s.read_epoch \in Epoch /\ s.unprocessed_epoch \in NextEpoch /\ s.state \in Stage
          /\ s.pc \in Place /\ s.rrcount \in Count
      BY <2>0 DEF Endpoint
    <3>4. \A item \in s.unprocessed : item.rec \in net
      BY <2>0 DEF Control, QueuedEarly
    <3>5. arrived \subseteq net
      BY <2>0 DEF Numbered
    <3> QED BY <3>2, <3>3, <3>4, <3>5 DEF TypeOK, Epoch, NextEpoch, Stage, Place, Count
  <2>2. DOMAIN s.log = 1 .. Len(s.log) /\ Len(s.log) \in Nat
    BY <2>0 DEF Endpoint
  <2>3. ASSUME NEW i \in 1 .. Len(s.log), NEW j \in 1 .. Len(s.log), i < j, s.log[i] = s.log[j]
        PROVE  s.log[i] \in s.queued
    <3>1. i # j
      BY <2>3
    <3> QED BY <2>0, <2>3, <3>1 DEF Data, OnePlace
  <2> QED BY <2>1, <2>2, <2>3 DEF DeliveredOnce
<1> QED BY <1>1, Invariance, PTL

(* FinishedFirst: nothing the new keys protect is handed to the application  *)
(* before the Finished message, in whatever order the datagrams arrive and   *)
(* whichever of them are damaged (Staged, Confirmed).                        *)
THEOREM NothingBeforeFinished == Spec => []FinishedFirst
<1>1. Inv => FinishedFirst
  <2> SUFFICES ASSUME Inv PROVE FinishedFirst
    OBVIOUS
  <2>0. s \in Endpoint /\ Confirmed(s)
    BY DEF Inv, EndpointInv, Data
  <2>1. DOMAIN s.log = 1 .. Len(s.log)
    BY <2>0 DEF Endpoint
  <2> QED BY <2>0, <2>1 DEF FinishedFirst, Confirmed, Protected
<1> QED BY <1>1, Invariance, PTL

(* AcceptedNotLost: when no datagram is damaged, and the queue of data that  *)
(* came before Finished (buffered_app_data) is as long as the records the    *)
(* peer sends, no data that was marked received is lost.  Room shows that    *)
(* the limit is not met.                                                     *)
THEOREM NothingLost ==
    ASSUME ~Damage, ExtraBound <= QueueLimit
    PROVE  Spec => []AcceptedNotLost
<1>1. Inv => AcceptedNotLost
  <2> SUFFICES ASSUME Inv PROVE AcceptedNotLost
    OBVIOUS
  <2>0. s \in Endpoint /\ NotLost(s)
    BY DEF Inv, EndpointInv, Data, Roomy
  <2>1. DOMAIN s.log = 1 .. Len(s.log)
    BY <2>0 DEF Endpoint
  <2>2. ASSUME NEW r \in s.accepted, r.kind = "data", ~s.shutdown
        PROVE  \/ \E i \in DOMAIN s.log : s.log[i] = r
               \/ r \in Waiting
               \/ s.rcontent.left /\ s.rcontent.rec = r
    <3>1. Logged(s, r) \/ InContent(s.rcontent, r) \/ InQueue(s, r)
      BY <2>0, <2>2 DEF NotLost, Kept
    <3> QED BY <2>1, <3>1 DEF Logged, InContent, InQueue, Waiting
  <2> QED BY <2>2 DEF AcceptedNotLost
<1> QED BY <1>1, Invariance, PTL

(* LossIsTolerated: whatever is lost, repeated and reordered, and however    *)
(* often the client sends its flight, a call of a server fails only when     *)
(* more Finished messages came after the handshake than                      *)
(* dtls1_check_timeout_num allows, or when a record was queued for the next  *)
(* epoch, a copy of which pqueue_insert refuses; for every limit of the      *)
(* queues, of the records of a call and of the answers.  When the handshake  *)
(* is over, the only message that can come is a Finished; data before        *)
(* Finished finds change_cipher_spec set (Staged, Undamaged); a record that  *)
(* was not queued is in one place, and not refused by a queue (OnePlace).    *)
THEOREM ServerTolerates ==
    ASSUME ~Damage, Server
    PROVE  Spec => []LossIsTolerated
<1>1. Inv => LossIsTolerated
  BY DEF Inv, EndpointInv, Control, Tolerant, LossIsTolerated
<1> QED BY <1>1, Invariance, PTL
=============================================================================
