----------------------------- MODULE DtlsRecord -----------------------------
(* The read path of a DTLS connection (d1_pkt.c): datagrams that are lost,   *)
(* reordered, duplicated and damaged reach an endpoint that is ending its    *)
(* handshake and then reads application data.  The peer sends the message    *)
(* the endpoint waits for, its ChangeCipherSpec, its Finished (again when it *)
(* num_alerts), and then data and alerts.  One record per datagram.  The    *)
(* cipher (s->s3->hs.cipher) is chosen before, as in every full handshake.   *)
EXTENDS DtlsBitmap, FiniteSets, Sequences

CONSTANTS
    Server,         \* s->server
    QueueLimit,     \* 100, the limit of the two queues
    RecordLimit,    \* 3, the records dtls1_read_bytes processes
    AlertCount,     \* DTLS1_TMO_ALERT_COUNT, 12
    Duplicates,     \* the network repeats datagrams
    Damage,         \* the network damages protected datagrams
    FlightBound,    \* bound: how often the peer sends its flight
    ExtraBound      \* bound: the records the peer sends after its Finished

ASSUME RecordAssumption ==
    /\ QueueLimit \in Nat /\ RecordLimit \in Nat \ {0} /\ AlertCount \in Nat
    /\ FlightBound \in Nat /\ ExtraBound \in Nat

Kind == {"message", "ccs", "finished", "data", "warning", "close"}

TypeOf(kind) ==
    CASE kind \in {"message", "finished"} -> "handshake"
      [] kind = "ccs" -> "ccs"
      [] kind = "data" -> "data"
      [] kind \in {"warning", "close"} -> "alert"

EpochOf(kind) == IF kind \in {"message", "ccs"} THEN 0 ELSE 1

VARIABLES
    s,              \* the endpoint
    net,            \* the records sent
    arrived         \* the records the network has delivered

vars == <<s, net, arrived>>

NoRecord == [kind |-> "none", epoch |-> 0, seq |-> 0]

(* s->s3->rcontent: its type stays when its data is read.  A cleared content *)
(* has type 0.                                                               *)
NoContent == [type |-> "none", rec |-> NoRecord, left |-> FALSE]

Init ==
    /\ s = [read_epoch |-> 0,
            bitmap |-> EmptyBitmap, next_bitmap |-> EmptyBitmap,
            unprocessed |-> {}, unprocessed_epoch |-> 1, buffered_app_data |-> {},
            rcontent |-> NoContent, rrec |-> NoRecord,
            change_cipher_spec |-> FALSE, change_cipher_spec_ok |-> FALSE,
            state |-> "message", shutdown |-> FALSE,
            pc |-> "idle", rrcount |-> 0, ret |-> "none",
            log |-> << >>, num_alerts |-> 0, accepted |-> {}, queued |-> {}]
    /\ net = {} /\ arrived = {}

-----------------------------------------------------------------------------
(* The peer and the network. *)

Sent(kind) == {r \in net : r.kind = kind}
NextSeq(epoch) == Cardinality({r \in net : r.epoch = epoch})

Send(kind) ==
    net' = net \cup {[kind |-> kind, epoch |-> EpochOf(kind), seq |-> NextSeq(EpochOf(kind))]}

(* A flight is sent in order, and again from its beginning; a server answers *)
(* repeated Finished messages with ChangeCipherSpec and Finished only.       *)
PeerSend(kind) ==
    /\ CASE kind = "message"  -> Cardinality(Sent(kind)) < FlightBound
         [] kind = "ccs"      -> Cardinality(Sent(kind)) < Cardinality(Sent("message"))
         [] kind = "finished" -> Cardinality(Sent(kind)) < Cardinality(Sent("ccs"))
         [] OTHER             -> /\ Sent("finished") # {} /\ Sent("close") = {}
                                 /\ Cardinality(Sent("data") \cup Sent("warning") \cup Sent("close"))
                                        < ExtraBound
    /\ Send(kind)
    /\ UNCHANGED <<s, arrived>>

-----------------------------------------------------------------------------
(* Ends of a call, and of an iteration of its loop. *)
Return(e, ret) == [e EXCEPT !.pc = "idle", !.rrcount = 0, !.ret = ret]
Fail(e) == Return(e, "failed")
Start(e) == [e EXCEPT !.pc = "start"]
Clear(e) == [e EXCEPT !.rcontent = NoContent]

InInit(e) == e.state # "ok"
Requested(e) == IF InInit(e) THEN "handshake" ELSE "data"

(* pqueue: items in the order of their sequence numbers, duplicates refused. *)
pqueue_find(q, seq) == {r \in q : r.seq = seq}
pqueue_peek(q) == CHOOSE r \in q : \A o \in q : r.seq <= o.seq

-----------------------------------------------------------------------------
(* tls12_record_layer_open_record: a protected record that was damaged does  *)
(* not open.  dtls1_process_record then reports success and leaves the old   *)
(* content where it is.                                                      *)
dtls1_process_record(e, r, intact) ==
    IF intact THEN [e EXCEPT !.rcontent = [type |-> TypeOf(r.kind), rec |-> r, left |-> TRUE],
                             !.accepted = @ \cup {r}]
    ELSE e

dtls1_get_bitmap(e, r) ==
    IF r.epoch = e.read_epoch THEN "bitmap"
    ELSE IF r.epoch = e.read_epoch + 1 /\ TypeOf(r.kind) \in {"handshake", "alert"} THEN "next_bitmap"
    ELSE "none"

IsRepeat(e, r) == ~dtls1_record_replay_check(e[dtls1_get_bitmap(e, r)], r.seq)

(* Mutant: an accepted record is not marked. *)
MarkNothing(e, r) == e

Mark(e, r) == [e EXCEPT ![dtls1_get_bitmap(e, r)] = dtls1_record_bitmap_update(@, r.seq)]

(* dtls1_buffer_record: when the record is queued, s->s3->rrec is cleared,   *)
(* and rr points to it: the sequence number marked afterwards is 0.          *)
dtls1_buffer_record(e, r, intact) ==
    IF Cardinality(e.unprocessed) >= QueueLimit THEN Mark([e EXCEPT !.rrec = r], r)
    ELSE IF pqueue_find(e.unprocessed, r.seq) # {} THEN Return([e EXCEPT !.rrec = NoRecord], "repeated")
    ELSE [e EXCEPT !.unprocessed = @ \cup {[seq |-> r.seq, rec |-> r, intact |-> intact]},
                   !.rrec = NoRecord, !.queued = @ \cup {r},
                   !.next_bitmap = dtls1_record_bitmap_update(@, 0)]

(* dtls1_get_record, for one datagram: discarded (and the next is read),     *)
(* queued for the next epoch, or processed.                                  *)
Discarded(e, r) == dtls1_get_bitmap(e, r) = "none" \/ IsRepeat(e, r)

ForNextEpoch(e, r) == dtls1_get_bitmap(e, r) = "next_bitmap"

dtls1_get_record(e, r, intact) ==
    IF Discarded(e, r) THEN [e EXCEPT !.rrec = r]
    ELSE IF ForNextEpoch(e, r)
         THEN IF InInit(e) THEN dtls1_buffer_record(e, r, intact) ELSE [e EXCEPT !.rrec = r]
    ELSE [Mark(dtls1_process_record([e EXCEPT !.rrec = r], r, intact), r) EXCEPT !.pc = "record"]

(* dtls1_process_buffered_record *)
UseBuffered(e, item) ==
    [dtls1_process_record([e EXCEPT !.unprocessed = @ \ {item}, !.rrec = item.rec],
                          item.rec, item.intact) EXCEPT !.pc = "record"]

dtls1_process_buffered_record(e) ==
    IF e.unprocessed_epoch # e.read_epoch THEN [e EXCEPT !.pc = "wire"]
    ELSE IF e.unprocessed = {}
         THEN [e EXCEPT !.pc = "wire", !.unprocessed_epoch = e.read_epoch + 1]
    ELSE UseBuffered(e, pqueue_peek(e.unprocessed))

(* dtls1_retrieve_buffered_rcontent *)
UseBufferedData(e, item) ==
    [e EXCEPT !.buffered_app_data = @ \ {item}, !.rcontent = item.content,
              !.rrec.epoch = item.content.rec.epoch]

(* Mutant: data buffered during the handshake is not looked for. *)
RetrieveNothing(e) == e

dtls1_retrieve_buffered_rcontent(e) ==
    IF InInit(e) \/ e.rcontent.left \/ e.buffered_app_data = {} THEN e
    ELSE UseBufferedData(e, pqueue_peek(e.buffered_app_data))

(* dtls1_read_bytes from start: until there is content. *)
HaveContent(e) == IF e.rcontent.left THEN [e EXCEPT !.pc = "record"] ELSE dtls1_process_buffered_record(e)

StartReading(e) ==
    IF e.rrcount >= RecordLimit THEN Return(e, "want_read")
    ELSE HaveContent(dtls1_retrieve_buffered_rcontent([e EXCEPT !.rrcount = @ + 1]))

-----------------------------------------------------------------------------
(* dtls1_read_bytes, once it has a record. *)

(* Mutant: the content is cleared before it is queued. *)
BufferRcontentCleared(e) == Start(Clear(e))

(* dtls1_buffer_rcontent, and the content is cleared. *)
dtls1_buffer_rcontent(e) ==
    IF Cardinality(e.buffered_app_data) >= QueueLimit THEN Start(Clear(e))
    ELSE IF pqueue_find(e.buffered_app_data, e.rrec.seq) # {} THEN Return(Clear(e), "repeated")
    ELSE Start(Clear([e EXCEPT !.buffered_app_data =
                          @ \cup {[seq |-> e.rrec.seq, content |-> e.rcontent]}]))

(* A record is handed to whoever waits for it. *)
Deliver(e) == [e EXCEPT !.log = Append(@, e.rcontent.rec), !.rcontent.left = FALSE]

(* The handshake takes the message it waits for; one it has had is dropped   *)
(* (dtls1_get_message).  Each time it starts to wait for Finished, a         *)
(* ChangeCipherSpec is welcome (ssl3_connect, ssl3_accept).                  *)
TakeMessage(e) ==
    IF e.state = "message" /\ e.rcontent.rec.kind = "message"
    THEN Start([Deliver(e) EXCEPT !.state = "finished", !.change_cipher_spec_ok = TRUE, !.rrcount = 0])
    ELSE IF e.state = "finished" /\ e.rcontent.rec.kind = "finished" /\ e.change_cipher_spec
    THEN Return([Deliver(e) EXCEPT !.state = "ok", !.change_cipher_spec = FALSE], "handshake")
    ELSE Start([e EXCEPT !.rcontent.left = FALSE, !.rrcount = 0])

(* ssl3_read_alert *)
ssl3_read_alert(e) ==
    IF ~e.rcontent.left THEN Fail(e)
    ELSE IF e.rcontent.rec.kind = "close" THEN Return([Deliver(e) EXCEPT !.shutdown = TRUE], "closed")
    ELSE Start(Deliver(e))

dtls1_reset_read_seq_numbers(e) ==
    [e EXCEPT !.bitmap = e.next_bitmap, !.next_bitmap = EmptyBitmap]

(* ssl3_read_change_cipher_spec *)
ssl3_read_change_cipher_spec(e) ==
    IF ~e.change_cipher_spec_ok THEN Start(Clear(e))
    ELSE Start(dtls1_reset_read_seq_numbers(
             [Clear(e) EXCEPT !.change_cipher_spec_ok = FALSE, !.change_cipher_spec = TRUE,
                              !.read_epoch = @ + 1]))

(* Mutant: a repeated Finished is an unexpected message to a server, too. *)
UnexpectedFinishedFails(e) == Fail(e)

(* dtls1_check_timeout_num: the counter was cleared when the handshake had   *)
(* the Finished of the peer (dtls1_stop_timer), and no timer runs for the    *)
(* last flight of a server.                                                  *)
Counted(e) == [e EXCEPT !.num_alerts = @ + 1]

dtls1_check_timeout_num(e) == e.num_alerts + 1 > AlertCount

(* dtls1_read_handshake_unexpected: a message of an old epoch is a stale     *)
(* retransmission; otherwise only a server expects a repeated Finished, and  *)
(* sends its own again as often as it would for a timer.                     *)
dtls1_read_handshake_unexpected(e) ==
    IF ~e.rcontent.left THEN Fail(e)
    ELSE IF e.rcontent.rec.epoch # e.read_epoch THEN Start(Clear(e))
    ELSE IF e.rcontent.rec.kind = "finished" /\ Server
    THEN IF dtls1_check_timeout_num(e) THEN Fail(Counted(e)) ELSE Start(Clear(Counted(e)))
    ELSE Fail(e)

(* Mutant: application data before Finished is not kept back. *)
UseContentAtOnce(e) ==
    IF e.rcontent.type = Requested(e)
    THEN IF ~e.rcontent.left THEN Return(e, "zero")
         ELSE IF InInit(e) THEN TakeMessage(e)
         ELSE Return(Deliver(e), "data")
    ELSE IF e.rcontent.type = "alert" THEN ssl3_read_alert(e)
    ELSE IF e.rcontent.type = "data" THEN Start(Clear(Deliver(e)))
    ELSE IF e.rcontent.type = "ccs" THEN ssl3_read_change_cipher_spec(e)
    ELSE IF e.rcontent.type = "handshake" THEN dtls1_read_handshake_unexpected(e)
    ELSE Fail(e)

UseContent(e) ==
    IF e.change_cipher_spec /\ e.rcontent.type # "handshake" THEN dtls1_buffer_rcontent(e)
    ELSE IF e.shutdown THEN Return(Clear(e), "closed")
    ELSE IF e.rcontent.type = Requested(e)
    THEN IF ~e.rcontent.left THEN Return(e, "zero")
         ELSE IF InInit(e) THEN TakeMessage(e)
         ELSE Return(Deliver(e), "data")
    ELSE IF e.rcontent.type = "alert" THEN ssl3_read_alert(e)
    ELSE IF e.rcontent.type = "ccs" THEN ssl3_read_change_cipher_spec(e)
    ELSE IF e.rcontent.type = "handshake" THEN dtls1_read_handshake_unexpected(e)
    ELSE Fail(e)

-----------------------------------------------------------------------------
(* SSL_do_handshake, and SSL_read after it.  The application stops when a    *)
(* call failed; a read that returns 0 without a close_notify is a failure.   *)
Failed == s.ret \in {"failed", "repeated", "zero"}

Call ==
    /\ s.pc = "idle" /\ ~Failed
    /\ s' = [s EXCEPT !.pc = "start", !.change_cipher_spec_ok = @ \/ s.state = "finished"]
    /\ UNCHANGED <<net, arrived>>

ReadStart == s.pc = "start" /\ s' = StartReading(s) /\ UNCHANGED <<net, arrived>>

ReadWire(r, intact) ==
    /\ s.pc = "wire" /\ (Duplicates \/ r \notin arrived)
    /\ intact \/ (Damage /\ r.epoch = 1)
    /\ s' = dtls1_get_record(s, r, intact)
    /\ arrived' = arrived \cup {r}
    /\ UNCHANGED net

(* Nothing to read: SSL_ERROR_WANT_READ. *)
WouldBlock == s.pc = "wire" /\ s' = Return(s, "want_read") /\ UNCHANGED <<net, arrived>>

ReadRecord == s.pc = "record" /\ s' = UseContent(s) /\ UNCHANGED <<net, arrived>>

Stopped == Failed /\ UNCHANGED vars

Next ==
    \/ \E kind \in Kind : PeerSend(kind)
    \/ Call
    \/ ReadStart
    \/ \E r \in net, intact \in BOOLEAN : ReadWire(r, intact)
    \/ WouldBlock
    \/ ReadRecord
    \/ Stopped

Spec == Init /\ [][Next]_vars

(* The application calls again when it is told to, and a call runs on.  What *)
(* the network delivers is not assumed.                                      *)
Fairness == WF_vars(Call) /\ WF_vars(ReadStart) /\ WF_vars(ReadRecord)

FairSpec == Spec /\ Fairness

-----------------------------------------------------------------------------
(* Part of DeliveredOnce. *)
TypeOK ==
    /\ s.read_epoch \in {0, 1} /\ s.unprocessed_epoch \in {1, 2}
    /\ s.bitmap.map \subseteq 0 .. Window - 1 /\ s.next_bitmap.map \subseteq 0 .. Window - 1
    /\ \A item \in s.unprocessed : item.rec \in net
    /\ s.state \in {"message", "finished", "ok"}
    /\ s.pc \in {"idle", "start", "wire", "record"} /\ s.rrcount \in 0 .. RecordLimit
    /\ arrived \subseteq net

(* However the network reorders and repeats datagrams, a record that arrives *)
(* in its own epoch is delivered at most once (dtls1_get_record).  Records   *)
(* queued for the next epoch are excepted: dtls1_buffer_record clears rr, so *)
(* that their own number is not marked.                                      *)
DeliveredOnce ==
    /\ TypeOK
    /\ \A i, j \in DOMAIN s.log : i < j /\ s.log[i] = s.log[j] => s.log[i] \in s.queued

(* Nothing the new keys protect is handed out before the Finished message    *)
(* that confirms them, although it may arrive and be decrypted earlier       *)
(* (buffered_app_data, unprocessed_rcds).                                    *)
FinishedFirst ==
    \A i \in DOMAIN s.log :
        s.log[i].kind \in {"data", "warning", "close"} =>
            \E j \in 1 .. i - 1 : s.log[j].kind = "finished"

Waiting == {item.content.rec : item \in s.buffered_app_data}

(* Application data that passed the replay check is delivered, or still      *)
(* held: a record is marked received only if nobody has to send it again.    *)
(* As long as the queue has room.                                            *)
AcceptedNotLost ==
    \A r \in s.accepted : r.kind = "data" /\ ~s.shutdown =>
        \/ \E i \in DOMAIN s.log : s.log[i] = r
        \/ r \in Waiting
        \/ s.rcontent.left /\ s.rcontent.rec = r

(* Data and alerts that were decrypted before the Finished message came are  *)
(* handed out after it, whatever the network does then                       *)
(* (dtls1_retrieve_buffered_rcontent).                                       *)
HeldIsDelivered ==
    (s.state = "ok" /\ s.buffered_app_data # {}) ~>
        (s.buffered_app_data = {} \/ s.shutdown \/ Failed)

(* Lost, reordered and repeated datagrams, and flights that are sent again,  *)
(* make a call of a server fail for two reasons only: more Finished messages *)
(* came than dtls1_check_timeout_num answers, or a datagram that was queued  *)
(* for the next epoch came again (dtls1_read_handshake_unexpected,           *)
(* dtls1_get_record).  Copies of all others are dropped.                     *)
LossIsTolerated ==
    /\ s.ret \in {"failed", "zero"} => s.num_alerts > AlertCount
    /\ s.ret = "repeated" => s.queued # {}

-----------------------------------------------------------------------------
(* What a comment of the source says. *)

(* dtls1_process_record: "DTLS should silently discard invalid records,      *)
(* including those with a bad MAC".  Then no call fails for one.             *)
InvalidIsDiscarded == ~Failed
=============================================================================
