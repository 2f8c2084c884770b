-------------------------- MODULE Tls13RecordLayer --------------------------
(***************************************************************************)
(* A TLS 1.3 connection after the handshake: the record layer of libssl    *)
(* (tls13_record_layer.c), the post-handshake messages (tls13_lib.c) and   *)
(* the calls of the application (tls13_legacy.c, ssl_lib.c), over BIOs     *)
(* that may stop taking records at any point.  The peer is any TLS 1.3     *)
(* implementation; the endpoint modelled is a client, which may also       *)
(* receive session tickets.                                                *)
(*                                                                         *)
(*   rl    what the write path keeps in struct tls13_record_layer, the     *)
(*         records it has handed to the write BIO (wbio) and the result of *)
(*         the last call (ret); room is the number of records the BIO      *)
(*         takes during the current step                                   *)
(*   rd    what the read path keeps, and the records in the read BIO       *)
(*   app   the application's side: the call in progress, ssl->shutdown,    *)
(*         and how much it has written and read                            *)
(*   peer  the sending side of the peer                                    *)
(*                                                                         *)
(* A call that loops on TLS13_IO_WANT_RETRY takes one step per iteration.  *)
(* The reply to a KeyUpdate has five bytes and an alert two, so neither is *)
(* ever split over records; application data is counted in units of one    *)
(* record's content when written.  A record is sealed under key number gen *)
(* with sequence number seq and opens exactly under the same pair.         *)
(***************************************************************************)
EXTENDS Integers, Sequences, FiniteSets

CONSTANTS
    MaxSeq,      \* the largest sequence number, 2^64 - 1 in the code
    PhhLimit,    \* TLS13_PHH_LIMIT
    PhhRetry,    \* SSL_MODE_AUTO_RETRY
    WriteLen,    \* the records a buffer given to SSL_write takes
    RoomBound,   \* the records a BIO may take during one step
    ChunkBound,  \* the records of application data written in all
    PeerBound,   \* the records the peer sends in all
    Traffic      \* the kinds of records it may send

ASSUME MaxSeqAssumption == MaxSeq \in Nat
ASSUME WriteLenAssumption == WriteLen \in Nat \ {0}
ASSUME RoomAssumption == RoomBound \in Nat
ASSUME PhhAssumption == PhhLimit \in Nat /\ PhhRetry \in BOOLEAN

VARIABLES rl, rd, app, peer

vars == <<rl, rd, app, peer>>

-----------------------------------------------------------------------------
(* Alerts, return values and records. *)

TLS13_ALERT_CLOSE_NOTIFY == 0
TLS13_ALERT_UNEXPECTED_MESSAGE == 10
TLS13_ALERT_RECORD_OVERFLOW == 22
TLS13_ALERT_ILLEGAL_PARAMETER == 47
TLS13_ALERT_USER_CANCELED == 90

NoAlert == 256  \* alert_data == NULL

(* TLS13_IO_*.  A positive length is SUCCESS.  NESTED is a read that waits  *)
(* for more of a handshake message; AGAIN is a plain -1 of SSL_shutdown.    *)
Ret == {"SUCCESS", "EOF", "FAILURE", "ALERT", "WANT_POLLIN", "WANT_POLLOUT",
        "WANT_RETRY", "NESTED", "AGAIN"}

Record == [ct : {"none", "empty", "app", "handshake", "alert"},
           gen : Nat, seq : Nat, content : Nat]

NoRecord == [ct |-> "none", gen |-> 0, seq |-> 0, content |-> 0]

(* wrec allocated, but without data: what a failed seal leaves behind.      *)
EmptyRecord == [ct |-> "empty", gen |-> 0, seq |-> 0, content |-> 0]

Return(r, ret) == [r EXCEPT !.ret = ret]

-----------------------------------------------------------------------------
(* Writing. *)

(* Push wrec into the BIO and free it; wire_write may refuse. *)
tls13_record_send(r) ==
    IF r.wrec.ct = "empty" THEN Return(r, "FAILURE")
    ELSE IF r.room = 0 THEN Return(r, "WANT_POLLOUT")
    ELSE [r EXCEPT !.wbio = Append(@, r.wrec), !.wrec = NoRecord,
                   !.room = @ - 1, !.ret = "SUCCESS"]

(* Mutant: the sequence number is not checked. *)
SealRecordUnchecked(r, ct, content) ==
    [r EXCEPT !.wrec = [ct |-> ct, gen |-> r.gen, seq |-> r.seq, content |-> content],
              !.seq = @ + 1, !.ret = "SUCCESS"]

(* tls13_record_layer_inc_seq_num refuses to go beyond the largest number. *)
tls13_record_layer_seal_record(r, ct, content) ==
    IF r.seq = MaxSeq THEN [r EXCEPT !.wrec = EmptyRecord, !.ret = "FAILURE"]
    ELSE [r EXCEPT !.wrec = [ct |-> ct, gen |-> r.gen, seq |-> r.seq, content |-> content],
                   !.seq = @ + 1, !.ret = "SUCCESS"]

(* Seal a new record and send it. *)
SealAndSend(r, ct, content) ==
    LET sealed == tls13_record_layer_seal_record(r, ct, content)
    IN  IF sealed.ret = "SUCCESS" THEN tls13_record_send(sealed) ELSE sealed

(* Mutant: write_closed is not looked at. *)
WriteRecordWhenClosed(r, ct, content) ==
    LET pushed == tls13_record_send(r)
    IN  IF ct = "app" /\ r.wrec_appdata_len # 0
        THEN [r EXCEPT !.wrec_appdata_len = 0, !.ret = "SUCCESS"]
        ELSE IF r.wrec.ct = "none" THEN SealAndSend(r, ct, content)
        ELSE IF pushed.ret # "SUCCESS" \/ r.wrec.ct = ct THEN pushed
        ELSE IF r.wrec.ct # "app" THEN Return(pushed, "FAILURE")
        ELSE SealAndSend([pushed EXCEPT !.wrec_appdata_len = 1], ct, content)

(* Mutant: application data pushed out for another record is forgotten. *)
WriteRecordUnaccounted(r, ct, content) ==
    LET pushed == tls13_record_send(r)
    IN  IF r.write_closed THEN Return(r, "EOF")
        ELSE IF r.wrec.ct = "none" THEN SealAndSend(r, ct, content)
        ELSE IF pushed.ret # "SUCCESS" \/ r.wrec.ct = ct THEN pushed
        ELSE IF r.wrec.ct # "app" THEN Return(pushed, "FAILURE")
        ELSE SealAndSend(pushed, ct, content)

(* A record left over from a call that blocked goes first.  If it is of the *)
(* type asked for it is the record asked for; application data is accounted *)
(* for in wrec_appdata_len until the application asks again.                *)
tls13_record_layer_write_record(r, ct, content) ==
    LET pushed == tls13_record_send(r)
    IN  IF r.write_closed THEN Return(r, "EOF")
        ELSE IF ct = "app" /\ r.wrec_appdata_len # 0
        THEN [r EXCEPT !.wrec_appdata_len = 0, !.ret = "SUCCESS"]
        ELSE IF r.wrec.ct = "none" THEN SealAndSend(r, ct, content)
        ELSE IF pushed.ret # "SUCCESS" \/ r.wrec.ct = ct THEN pushed
        ELSE IF r.wrec.ct # "app" THEN Return(pushed, "FAILURE")
        ELSE SealAndSend([pushed EXCEPT !.wrec_appdata_len = 1], ct, content)

(* w is the result of writing the alert. *)
AlertWritten(r, w) ==
    IF w.ret # "SUCCESS" THEN Return(w, IF w.ret = "EOF" THEN "ALERT" ELSE w.ret)
    ELSE IF r.alert_data = TLS13_ALERT_CLOSE_NOTIFY
    THEN [w EXCEPT !.alert_data = NoAlert, !.write_closed = TRUE]
    ELSE [w EXCEPT !.alert_data = NoAlert, !.write_closed = TRUE, !.read_closed = TRUE,
                   !.ret = "ALERT"]

tls13_record_layer_send_alert(r) ==
    AlertWritten(r, tls13_record_layer_write_record(r, "alert", r.alert_data))

(* Mutant: the sequence number goes on under the new key. *)
PhhDoneKeepsSeq(r) ==
    IF r.key_update_request
    THEN [r EXCEPT !.gen = @ + 1, !.key_update_request = FALSE] ELSE r

(* The write key changes when the reply is out.                             *)
tls13_phh_done_cb(r) ==
    IF r.key_update_request
    THEN [r EXCEPT !.gen = @ + 1, !.seq = 0, !.key_update_request = FALSE]
    ELSE r

(* Mutant: a reply that blocks is dropped. *)
SendPhhDrops(r) ==
    LET w == [tls13_record_layer_write_record(r, "handshake", 0) EXCEPT !.phh_data = FALSE]
    IN  IF w.ret # "SUCCESS" THEN w ELSE tls13_phh_done_cb(w)

tls13_record_layer_send_phh(r) ==
    LET w == tls13_record_layer_write_record(r, "handshake", 0)
    IN  IF w.ret # "SUCCESS" THEN w ELSE tls13_phh_done_cb([w EXCEPT !.phh_data = FALSE])

(* Mutant: only an alert is sent. *)
SendPendingAlertOnly(r) ==
    IF r.alert_data # NoAlert THEN tls13_record_layer_send_alert(r) ELSE Return(r, "SUCCESS")

tls13_record_layer_send_pending(r) ==
    IF r.alert_data # NoAlert THEN tls13_record_layer_send_alert(r)
    ELSE IF r.phh_data THEN tls13_record_layer_send_phh(r)
    ELSE Return(r, "SUCCESS")

tls13_record_layer_enqueue_alert(r, desc) ==
    IF r.alert_data # NoAlert THEN Return(r, "FAILURE")
    ELSE tls13_record_layer_send_pending([r EXCEPT !.alert_data = desc])

tls13_send_alert(r, desc) == tls13_record_layer_enqueue_alert(r, desc)

tls13_record_layer_phh(r) ==
    IF r.phh_data THEN Return(r, "FAILURE")
    ELSE tls13_record_layer_send_pending([r EXCEPT !.phh_data = TRUE])

tls13_record_layer_write(r, chunk) ==
    LET pending == tls13_record_layer_send_pending(r)
    IN  IF pending.ret # "SUCCESS" THEN pending
        ELSE tls13_record_layer_write_record(pending, "app", chunk)

-----------------------------------------------------------------------------
(* Reading.  The operators take and return the state s of a call, with the  *)
(* fields rl, rd and app.                                                   *)

State(l, d, a) == [rl |-> l, rd |-> d, app |-> a]

Returns(s, ret) == State(Return(s.rl, ret), s.rd, s.app)

SendsAlert(s, desc) == State(tls13_send_alert(s.rl, desc), s.rd, s.app)

NoContent == [ct |-> "none", data |-> << >>]

tls_content_clear(d) == [d EXCEPT !.rcontent = NoContent]

(* Mutant: user_canceled is a warning like any other. *)
ProcessAlertNoUserCanceled(s, body) ==
    LET level == body[1]  desc == body[2]
    IN  IF desc = TLS13_ALERT_CLOSE_NOTIFY
        THEN State([s.rl EXCEPT !.read_closed = TRUE, !.ret = "EOF"], s.rd,
                   [s.app EXCEPT !.shutdown = @ \cup {"received"}])
        ELSE IF level = "fatal"
        THEN State([s.rl EXCEPT !.read_closed = TRUE, !.write_closed = TRUE, !.ret = "ALERT"],
                   s.rd, s.app)
        ELSE SendsAlert(s, TLS13_ALERT_ILLEGAL_PARAMETER)

(* body is <<level, description>>. *)
tls13_record_layer_process_alert(s, body) ==
    LET level == body[1]  desc == body[2]
    IN  IF desc = TLS13_ALERT_CLOSE_NOTIFY
        THEN State([s.rl EXCEPT !.read_closed = TRUE, !.ret = "EOF"], s.rd,
                   [s.app EXCEPT !.shutdown = @ \cup {"received"}])
        ELSE IF desc = TLS13_ALERT_USER_CANCELED THEN Returns(s, "WANT_RETRY")
        ELSE IF level = "fatal"
        THEN State([s.rl EXCEPT !.read_closed = TRUE, !.write_closed = TRUE, !.ret = "ALERT"],
                   s.rd, s.app)
        ELSE SendsAlert(s, TLS13_ALERT_ILLEGAL_PARAMETER)

(* The content of a record: application data in units numbered by the peer, *)
(* or handshake messages and fragments of them.                             *)
tls13_record_layer_read_record(s) ==
    LET rec    == Head(s.rd.rbio)
        opened == [s.rd EXCEPT !.rbio = Tail(@), !.seq = @ + 1]
        filled == [opened EXCEPT !.rcontent = [ct |-> rec.ct, data |-> rec.body]]
    IN  IF s.rd.rbio = << >> THEN Returns(s, "WANT_POLLIN")
        ELSE IF rec.gen # s.rd.gen \/ rec.seq # s.rd.seq THEN Returns(s, "FAILURE")
        ELSE IF rec.ct = "overflow"
        THEN State(Return(s.rl, "FAILURE"),
                   [s.rd EXCEPT !.alert = TLS13_ALERT_RECORD_OVERFLOW], s.app)
        ELSE IF s.rd.seq = MaxSeq THEN Returns(s, "FAILURE")
        ELSE IF rec.ct = "alert"
        THEN tls13_record_layer_process_alert(State(s.rl, opened, s.app), rec.body)
        ELSE IF rec.ct = "app" \/ (rec.ct = "handshake" /\ rec.body # << >>)
        THEN State(Return(s.rl, "SUCCESS"), filled, s.app)
        ELSE SendsAlert(State(s.rl, filled, s.app), TLS13_ALERT_UNEXPECTED_MESSAGE)

(* phh_idle is the time since phh_last_seen in half hours, at most two.     *)
tls13_phh_limit_check(d) == d.phh_idle >= 2 \/ d.phh_count <= PhhLimit

PhhCounted(d) ==
    [d EXCEPT !.phh_count = (IF d.phh_idle < 2 THEN @ ELSE 0) + 1, !.phh_idle = 0]

(* The read key changes at once, the write key when the reply is sent.      *)
tls13_key_update_recv(s, request) ==
    LET d == [s.rd EXCEPT !.gen = @ + 1, !.seq = 0]
    IN  IF ~request THEN State(Return(s.rl, "SUCCESS"), d, s.app)
        ELSE State(tls13_record_layer_phh([s.rl EXCEPT !.key_update_request = TRUE]), d, s.app)

tls13_new_session_ticket_recv(s) ==
    Returns(s, "SUCCESS")

(* The message is complete: handle it and leave the callback. *)
PhhMessage(s, msg) ==
    CASE msg = "key_update_requested"     -> tls13_key_update_recv(s, TRUE)
      [] msg = "key_update_not_requested" -> tls13_key_update_recv(s, FALSE)
      [] msg = "key_update_illegal"       -> SendsAlert(s, TLS13_ALERT_ILLEGAL_PARAMETER)
      [] msg = "new_session_ticket"       -> tls13_new_session_ticket_recv(s)
      [] OTHER                            -> Returns(s, "FAILURE")

KeyUpdates == {"key_update_requested", "key_update_not_requested"}

(* There is one of msgs in the content, all of it or its end. *)
Carries(ct, data, msgs) ==
    ct = "handshake" /\ \E j \in DOMAIN data : data[j].msg \in msgs /\ data[j].part # "first"

(* History: the KeyUpdates in the content that is about to be cleared. *)
Lost(d) ==
    LET lost(msgs) == Carries(d.rcontent.ct, d.rcontent.data, msgs)
    IN  [d EXCEPT !.lost_update = @ \/ lost(KeyUpdates),
                  !.lost_requests = @ + IF lost({"key_update_requested"}) THEN 1 ELSE 0]

(* The end of tls13_record_layer_recv_phh, whatever the callback returned.  *)
(* What follows the message in the same record is cleared with it.          *)
PhhReturn(s) ==
    LET ret == s.rl.ret
        d   == [tls_content_clear(Lost(s.rd)) EXCEPT !.phh = ret = "WANT_POLLIN"]
    IN  State(IF ret # "SUCCESS" THEN s.rl
              ELSE Return(s.rl, IF PhhRetry THEN "WANT_RETRY" ELSE "WANT_POLLIN"),
              d, s.app)

(* tls13_handshake_msg_recv on the content at hand: a first fragment makes  *)
(* it read on, inside the callback.                                         *)
tls13_handshake_msg_recv(s) ==
    LET item == Head(s.rd.rcontent.data)
        d    == [s.rd EXCEPT !.rcontent.data = Tail(@), !.hs_msg = item.part = "first"]
    IN  IF item.part = "first" THEN State(Return(s.rl, "NESTED"), d, s.app)
        ELSE PhhReturn(PhhMessage(State(s.rl, d, s.app), item.msg))

tls13_phh_received_cb(s) ==
    IF ~tls13_phh_limit_check(s.rd)
    THEN PhhReturn(SendsAlert(s, TLS13_ALERT_UNEXPECTED_MESSAGE))
    ELSE tls13_handshake_msg_recv(State(s.rl, PhhCounted(s.rd), s.app))

tls13_record_layer_recv_phh(s) ==
    tls13_phh_received_cb(State(s.rl, [s.rd EXCEPT !.phh = TRUE], s.app))

(* tls13_record_layer_read_internal once it has sent what is pending, up to *)
(* the point where there is content.                                        *)
AfterPending(s) ==
    IF s.rl.ret # "SUCCESS" THEN s
    ELSE IF s.rl.read_closed THEN Returns(s, "EOF")
    ELSE IF s.rd.rcontent.data = << >> THEN tls13_record_layer_read_record(s)
    ELSE s

PullUp(s) == AfterPending(State(tls13_record_layer_send_pending(s.rl), s.rd, s.app))

(* Mutant: a peek takes the data away. *)
ContentReadPeekTakes(s, n, peek) ==
    LET data == s.rd.rcontent.data
        k    == IF n < Len(data) THEN n ELSE Len(data)
    IN  State(Return(s.rl, "SUCCESS"),
              [s.rd EXCEPT !.rcontent.data = SubSeq(data, k + 1, Len(data))],
              IF peek THEN s.app ELSE [s.app EXCEPT !.consumed = @ + k])

(* Up to n units of the content, left in place by a peek. *)
tls_content_read(s, n, peek) ==
    LET data == s.rd.rcontent.data
        k    == IF n < Len(data) THEN n ELSE Len(data)
    IN  IF peek THEN Returns(s, "SUCCESS")
        ELSE State(Return(s.rl, "SUCCESS"),
                   [s.rd EXCEPT !.rcontent.data = SubSeq(data, k + 1, Len(data))],
                   [s.app EXCEPT !.consumed = @ + k])

(* What is done with the content. *)
UseContent(s, n, peek) ==
    IF s.rl.ret # "SUCCESS" THEN s
    ELSE IF s.rd.rcontent.data = << >> THEN Returns(s, "WANT_POLLIN")
    ELSE IF s.rd.rcontent.ct = "handshake" THEN tls13_record_layer_recv_phh(s)
    ELSE IF s.rd.phh THEN SendsAlert(s, TLS13_ALERT_UNEXPECTED_MESSAGE)
    ELSE tls_content_read(s, n, peek)

tls13_record_layer_read_internal(s, n, peek) == UseContent(PullUp(s), n, peek)

(* An alert that opening a record asked for is sent after the loop. *)
AfterLoop(s) ==
    IF s.rd.alert # 0 /\ s.rl.ret # "WANT_RETRY" /\ s.rl.ret # "NESTED"
    THEN SendsAlert(s, s.rd.alert) ELSE s

(* The read of handshake data from within the callback: the iteration of    *)
(* tls13_record_layer_read for the rest of a fragmented message.            *)
UseNestedContent(s) ==
    IF s.rl.ret = "WANT_RETRY" THEN Returns(s, "NESTED")
    ELSE IF s.rl.ret # "SUCCESS" THEN PhhReturn(AfterLoop(s))
    ELSE IF s.rd.rcontent.data = << >> THEN PhhReturn(Returns(s, "WANT_POLLIN"))
    ELSE IF s.rd.rcontent.ct # "handshake"
    THEN PhhReturn(SendsAlert(s, TLS13_ALERT_UNEXPECTED_MESSAGE))
    ELSE tls13_handshake_msg_recv(s)

NestedRead(s) == UseNestedContent(PullUp(s))

(* One iteration of tls13_record_layer_read or tls13_record_layer_peek. *)
tls13_record_layer_read(s, n, peek) ==
    AfterLoop(IF s.rl.ret = "NESTED" THEN NestedRead(s)
              ELSE tls13_record_layer_read_internal(s, n, peek))

-----------------------------------------------------------------------------
(* The application.  It makes one call at a time, repeats a write that did  *)
(* not complete with the same buffer and stops after a fatal error.  Calls  *)
(* that ssl_lib.c refuses because of ssl->shutdown change nothing and are   *)
(* left out.                                                                *)

Init ==
    /\ rl = [wrec |-> NoRecord, wrec_appdata_len |-> 0, gen |-> 0, seq |-> 0,
             wbio |-> << >>, alert_data |-> NoAlert, phh_data |-> FALSE,
             key_update_request |-> FALSE, read_closed |-> FALSE, write_closed |-> FALSE,
             ret |-> "SUCCESS", room |-> 0]
    /\ rd = [rbio |-> << >>, gen |-> 0, seq |-> 0, rcontent |-> NoContent, alert |-> 0,
             phh |-> FALSE, hs_msg |-> FALSE, phh_count |-> 0, phh_idle |-> 2,
             lost_update |-> FALSE, lost_requests |-> 0]
    /\ app = [call |-> "none", shutdown |-> {}, wnum |-> 0, acked |-> 0, consumed |-> 0]
    /\ peer = [gen |-> 0, seq |-> 0, units |-> 0, partial |-> "none", open |-> TRUE,
               faulty |-> FALSE, sent |-> 0, requests |-> 0]

Fatal == {"FAILURE", "ALERT"}

Idle == app.call = "none" /\ rl.ret \notin Fatal

(* The state of a call in which the BIO takes room more records. *)
Current(room) == State([rl EXCEPT !.room = room], rd, app)

Becomes(s) ==
    /\ rl' = [s.rl EXCEPT !.room = 0]
    /\ rd' = s.rd
    /\ app' = s.app
    /\ UNCHANGED peer

(* The call must retry; else it returns to the application. *)
Loops(s) == s.rl.ret \in {"WANT_RETRY", "NESTED"}

SetCall(s, call) == State(s.rl, s.rd, [s.app EXCEPT !.call = call])

(* A read goes on while it must retry. *)
GoesOn(call, s) == Becomes(SetCall(s, IF Loops(s) THEN call ELSE "none"))

(* SSL_read or SSL_peek with a buffer of n units. *)
Read(call, n, room) ==
    GoesOn(call, tls13_record_layer_read(Current(room), n, call = "peek"))

SSL_read(call, n, room) ==
    /\ Idle
    /\ "received" \notin app.shutdown
    /\ Read(call, n, room)

(* One record of the loop of tls13_legacy_write_bytes; wnum remembers how   *)
(* far the buffer has been written.                                         *)
Write(room) ==
    LET l    == tls13_record_layer_write(Current(room).rl, app.acked + app.wnum + 1)
        a    == [app EXCEPT !.call = "none"]
        more == [app EXCEPT !.call = "write", !.wnum = @ + 1]
        all  == [app EXCEPT !.call = "none", !.wnum = 0, !.acked = @ + WriteLen]
    IN  Becomes(State(l, rd, IF l.ret # "SUCCESS" THEN a
                             ELSE IF app.wnum + 1 = WriteLen THEN all ELSE more))

SSL_write(room) ==
    /\ Idle
    /\ "sent" \notin app.shutdown
    /\ app.acked + WriteLen <= ChunkBound
    /\ Write(room)

(* The end of tls13_legacy_shutdown. *)
ShutdownReturn(s) ==
    IF Loops(s) THEN SetCall(s, "shutdown")
    ELSE SetCall(Returns(s, IF "received" \in s.app.shutdown THEN "SUCCESS" ELSE "AGAIN"),
                 "none")

(* The read of tls13_legacy_shutdown, whose result is ignored. *)
ShutdownRead(s) ==
    ShutdownReturn(tls13_record_layer_read(s, Len(s.rd.rcontent.data) + 512, FALSE))

tls13_legacy_shutdown(s) ==
    LET alerted == State(tls13_send_alert(s.rl, TLS13_ALERT_CLOSE_NOTIFY), s.rd,
                         [s.app EXCEPT !.shutdown = @ \cup {"sent"}])
        pending == State(tls13_record_layer_send_pending(s.rl), s.rd, s.app)
        first   == "sent" \notin s.app.shutdown
        tried   == IF first THEN alerted ELSE pending
    IN  IF tried.rl.ret = "EOF" THEN Returns(tried, "AGAIN")
        ELSE IF \/ tried.rl.ret # "SUCCESS"
                \/ first
                \/ "received" \in s.app.shutdown
                \/ s.rd.rcontent.ct = "app" /\ s.rd.rcontent.data # << >>
        THEN tried
        ELSE ShutdownRead(tried)

SSL_shutdown(room) ==
    /\ Idle
    /\ Becomes(tls13_legacy_shutdown(Current(room)))

(* The next iteration of a loop in the call in progress. *)
Continue(room) ==
    \/ \E n \in 1 .. 2 : app.call \in {"read", "peek"} /\ Read(app.call, n, room)
    \/ app.call = "write" /\ Write(room)
    \/ app.call = "shutdown" /\ Becomes(ShutdownRead(Current(room)))

-----------------------------------------------------------------------------
(* The peer.  data_n is a record with n units of application data; _first   *)
(* and _last are the two fragments of a message.  A ticket may have another *)
(* message behind it in its record; a KeyUpdate is the last of its record.  *)

Whole(msg) == <<[msg |-> msg, part |-> "whole"]>>

Fragment(msg, part) == <<[msg |-> msg, part |-> part]>>

Handshakes ==
    [update            |-> Whole("key_update_not_requested"),
     update_request    |-> Whole("key_update_requested"),
     ticket            |-> Whole("new_session_ticket"),
     bad_update        |-> Whole("key_update_illegal"),
     bad_type          |-> Whole("certificate_request"),
     two_tickets       |-> Whole("new_session_ticket") \o Whole("new_session_ticket"),
     ticket_update     |-> Whole("new_session_ticket") \o Whole("key_update_not_requested"),
     ticket_request    |-> Whole("new_session_ticket") \o Whole("key_update_requested"),
     request_first     |-> Fragment("key_update_requested", "first"),
     request_last      |-> Fragment("key_update_requested", "last"),
     ticket_first      |-> Fragment("new_session_ticket", "first"),
     ticket_last       |-> Fragment("new_session_ticket", "last")]

Alerts ==
    [close_notify  |-> <<"warning", TLS13_ALERT_CLOSE_NOTIFY>>,
     user_canceled |-> <<"warning", TLS13_ALERT_USER_CANCELED>>,
     fatal_alert   |-> <<"fatal", TLS13_ALERT_ILLEGAL_PARAMETER>>,
     warning_alert |-> <<"warning", TLS13_ALERT_ILLEGAL_PARAMETER>>]

Units == [data_0 |-> 0, data_1 |-> 1, data_2 |-> 2]

(* What no conforming peer sends: see also interleaved data below. *)
Malformed == {"overflow", "unexpected", "warning_alert", "bad_update", "bad_type"}

Kinds == DOMAIN Units \cup DOMAIN Handshakes \cup DOMAIN Alerts \cup Malformed

ASSUME TrafficAssumption == Traffic \subseteq Kinds

PeerRecord(kind) ==
    LET rec(ct, body) == [ct |-> ct, gen |-> peer.gen, seq |-> peer.seq, body |-> body]
    IN  CASE kind \in DOMAIN Units ->
                rec("app", [i \in 1 .. Units[kind] |-> peer.units + i])
          [] kind \in DOMAIN Handshakes -> rec("handshake", Handshakes[kind])
          [] kind \in DOMAIN Alerts -> rec("alert", Alerts[kind])
          [] OTHER -> rec(kind, << >>)

(* Fragments of a message are sent without anything between them, unless    *)
(* the peer is faulty and puts application data there.                      *)
InTurn(kind) ==
    CASE peer.partial = "none" -> kind \notin {"request_last", "ticket_last"}
      [] peer.partial = "request_first" -> kind \in {"request_last", "data_1"}
      [] peer.partial = "ticket_first" -> kind \in {"ticket_last", "data_1"}

PeerSend(kind) ==
    LET request == kind \in {"update_request", "request_last", "ticket_request"}
        update == request \/ kind \in {"update", "ticket_update"}
        faulty == kind \in Malformed \/ (peer.partial # "none" /\ kind = "data_1")
    IN  /\ peer.open
        /\ peer.sent < PeerBound
        /\ peer.seq <= MaxSeq
        /\ InTurn(kind)
        /\ rd' = [rd EXCEPT !.rbio = Append(@, PeerRecord(kind))]
        /\ peer' = [gen |-> peer.gen + IF update THEN 1 ELSE 0,
                    seq |-> IF update THEN 0 ELSE peer.seq + 1,
                    units |-> peer.units + IF kind \in DOMAIN Units THEN Units[kind] ELSE 0,
                    partial |-> IF kind \in {"request_first", "ticket_first"}
                                THEN kind ELSE "none",
                    open |-> kind \notin {"close_notify", "fatal_alert"} /\ ~faulty,
                    faulty |-> faulty,
                    sent |-> peer.sent + 1,
                    requests |-> peer.requests + IF request THEN 1 ELSE 0]
        /\ UNCHANGED <<rl, app>>

HalfHourPasses ==
    /\ rd.phh_idle < 2
    /\ app.call = "none"
    /\ rd' = [rd EXCEPT !.phh_idle = @ + 1]
    /\ UNCHANGED <<rl, app, peer>>

(* The application has stopped after a fatal error. *)
Stopped == app.call = "none" /\ rl.ret \in Fatal /\ UNCHANGED vars

Call(room) ==
    \/ \E call \in {"read", "peek"}, n \in 1 .. 2 : SSL_read(call, n, room)
    \/ SSL_write(room)
    \/ SSL_shutdown(room)
    \/ Continue(room)

Next ==
    \/ \E room \in 0 .. RoomBound : Call(room)
    \/ \E kind \in Traffic : PeerSend(kind)
    \/ HalfHourPasses
    \/ Stopped

Spec == Init /\ [][Next]_vars

(* A reply or an alert is waiting, and the application may still read. *)
Waiting ==
    Idle /\ "received" \notin app.shutdown /\ (rl.phh_data \/ rl.alert_data # NoAlert)

(* Weak fairness with the enabling conditions written out: a call runs to   *)
(* its end, and while something is waiting the application polls and reads  *)
(* again, each time finding that the BIO takes records.                     *)
Fairness ==
    /\ []<>(app.call = "none") \/ []<><<Continue(RoomBound)>>_vars
    /\ []<>~Waiting \/ []<><<SSL_read("read", 1, RoomBound)>>_vars

FairSpec == Spec /\ Fairness

-----------------------------------------------------------------------------
(* Properties. *)

TypeOK ==
    /\ rl \in [wrec : Record, wrec_appdata_len : {0, 1}, gen : Nat, seq : 0 .. MaxSeq,
               wbio : Seq(Record), alert_data : 0 .. NoAlert, phh_data : BOOLEAN,
               key_update_request : BOOLEAN, read_closed : BOOLEAN, write_closed : BOOLEAN,
               ret : Ret, room : {0}]
    /\ rd.gen \in Nat /\ rd.seq \in 0 .. MaxSeq
    /\ app.call \in {"none", "read", "peek", "write", "shutdown"}
    /\ app.shutdown \subseteq {"sent", "received"}
    /\ app.wnum \in 0 .. WriteLen - 1

IsUpdate(rec) == rec.ct = "handshake"

(* The key number and sequence number of the record after rec. *)
Follows(rec, gen, seq) ==
    IF IsUpdate(rec) THEN gen = rec.gen + 1 /\ seq = 0
    ELSE gen = rec.gen /\ seq = rec.seq + 1

(* The same for the record after those in log. *)
NextIs(log, gen, seq) ==
    IF Len(log) = 0 THEN gen = 0 /\ seq = 0 ELSE Follows(log[Len(log)], gen, seq)

InOrder(log) ==
    \A i \in 1 .. Len(log) :
        IF i = 1 THEN log[i].gen = 0 /\ log[i].seq = 0
        ELSE Follows(log[i - 1], log[i].gen, log[i].seq)

(* A conforming peer can open everything written, in the order written: the *)
(* sequence numbers of a key start at 0 and have no gap and no repetition,  *)
(* and the key changes after a KeyUpdate and only there, however writes     *)
(* blocked and whatever was pending.                                        *)
WireInOrder == InOrder(rl.wbio)

IsData(rec) == rec.ct = "app"

(* The application data in log are the chunks 1 to n, in order. *)
Chunks(log, n) ==
    /\ \A i \in 1 .. Len(log) : IsData(log[i]) => log[i].content \in 1 .. n
    /\ \A c \in 1 .. n : \E i \in 1 .. Len(log) : IsData(log[i]) /\ log[i].content = c
    /\ \A i, j \in 1 .. Len(log) :
          i < j /\ IsData(log[i]) /\ IsData(log[j]) => log[i].content < log[j].content

(* Application data is written exactly once and in order: what the          *)
(* application has been told is written, or will be told when it asks again *)
(* (wrec_appdata_len), is on the wire, and nothing else is.                 *)
DataExactlyOnce == Chunks(rl.wbio, app.acked + app.wnum + rl.wrec_appdata_len)

(* Nothing is written once the write channel is closed, by a close_notify   *)
(* or by an error alert sent or received.                                   *)
ClosedIsFinal == [][rl.write_closed => rl'.write_closed /\ rl'.wbio = rl.wbio]_vars

(* A fatal error was returned, or will be when the error alert is sent. *)
GivingUp == rl.ret \in Fatal \/ rl.alert_data \notin {NoAlert, TLS13_ALERT_CLOSE_NOTIFY}

(* The application data that is unread: that of the content (0) and of the  *)
(* records in the BIO, each unit by its number.                             *)
Unread(k) ==
    IF k = 0 THEN IF rd.rcontent.ct = "app" THEN rd.rcontent.data ELSE << >>
    ELSE IF rd.rbio[k].ct = "app" THEN rd.rbio[k].body ELSE << >>

(* Reading neither loses, repeats nor reorders the application data of a    *)
(* conforming peer, whatever other records come between: the unread units   *)
(* are those after the ones read, each once and in order.                   *)
StreamInOrder ==
    ~peer.faulty =>
        /\ app.consumed <= peer.units
        /\ \A k \in 0 .. Len(rd.rbio) : \A i \in DOMAIN Unread(k) :
              Unread(k)[i] \in app.consumed + 1 .. peer.units
        /\ \A u \in app.consumed + 1 .. peer.units :
              \E k \in 0 .. Len(rd.rbio) : \E i \in DOMAIN Unread(k) : Unread(k)[i] = u
        /\ \A k, l \in 0 .. Len(rd.rbio) : \A i \in DOMAIN Unread(k), j \in DOMAIN Unread(l) :
              k < l \/ (k = l /\ i < j) => Unread(k)[i] < Unread(l)[j]

Exhausted == rl.seq = MaxSeq \/ rd.seq = MaxSeq

(* With a conforming peer calls do not fail before a shutdown, the end of   *)
(* the sequence numbers or the loss of a KeyUpdate that came behind another *)
(* message in its record (NothingMoreToDo), and an alert is only sent to a  *)
(* peer that exceeds the limit on post-handshake messages.                  *)
NoSpuriousFailure ==
    /\ rl.ret = "FAILURE" =>
          peer.faulty \/ Exhausted \/ "sent" \in app.shutdown \/ rd.lost_update
    /\ rl.ret = "ALERT" => peer.faulty \/ ~peer.open \/ rd.phh_count > PhhLimit

(* A record with all or the end of a KeyUpdate that asks for a reply. *)
IsRequest(rec) == Carries(rec.ct, rec.body, {"key_update_requested"})

(* Every requested key update is answered by one update of the write key,   *)
(* as long as we may write: it is done, pending, or yet to be read.  Only a *)
(* request that comes behind another message in its record is lost, and     *)
(* then the peer's next record ends the connection (NoSpuriousFailure).     *)
RequestsAnswered ==
    LET unread == {i \in 1 .. Len(rd.rbio) : IsRequest(rd.rbio[i])}
    IN  ~GivingUp /\ ~rl.write_closed =>
            peer.requests = rl.gen + (IF rl.phh_data THEN 1 ELSE 0) + Cardinality(unread)
                                      + rd.lost_requests

(* When the callback for post-handshake messages has succeeded, there is    *)
(* nothing more to do for the record it read: the next record of a          *)
(* conforming peer opens under the read key and sequence number of now.     *)
NothingMoreToDo ==
    LET next == IF rd.rbio = << >> THEN peer ELSE Head(rd.rbio)
    IN  ~peer.faulty /\ ~GivingUp /\ ~rl.read_closed =>
            next.gen = rd.gen /\ next.seq = rd.seq

(* A pending reply to a KeyUpdate is sent, unless the connection ends. *)
ReplySent ==
    rl.phh_data ~> \/ ~rl.phh_data \/ rl.ret \in Fatal \/ rl.write_closed
                   \/ "received" \in app.shutdown
=============================================================================
