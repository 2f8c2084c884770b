---------------------------- MODULE DtlsHandshake ----------------------------
(* A DTLS handshake between two endpoints of this library over a network     *)
(* that loses and reorders datagrams (d1_both.c, d1_lib.c): fragments,       *)
(* messages that come early, flights, the timers that send them again, and   *)
(* the cookie exchange.  ssl3_connect and ssl3_accept are reduced to the     *)
(* order of their messages, see Tls12Handshake for what the messages say.    *)
(*                                                                           *)
(* Lengths are in units that a fragment consists of.  The network repeats    *)
(* no datagram: DtlsReplay shows that copies have no effect, and a message   *)
(* that is sent again has a new record number.                               *)
EXTENDS Integers, FiniteSets, SequencesExt, BagsExt

CONSTANTS
    Configs,        \* the handshakes, and for each the bounds of its faults
    Size,           \* the length of each type of message
    Mtu,            \* s->d1->mtu at first
    FallbackMtu,    \* what BIO_CTRL_DGRAM_GET_FALLBACK_MTU reports
    AlertCount,     \* DTLS1_TMO_ALERT_COUNT
    Ahead           \* 10, how far a message may be ahead

ASSUME DtlsAssumption ==
    /\ Mtu \in Nat \ {0} /\ FallbackMtu \in 1 .. Mtu
    /\ AlertCount \in Nat /\ Ahead \in Nat
    /\ \A c \in Configs : c.cookie \in {"none", "accept", "listen"}

Endpoint == {"client", "server"}
Peer(e) == IF e = "client" THEN "server" ELSE "client"

VARIABLES
    cfg,            \* the handshake: auth, ticket, cookie, losses, early
    ep,             \* the two SSL with their s->d1
    net,            \* the datagrams on their way to each endpoint
    lost,           \* how many were lost, at most cfg.losses
    early           \* how many timers expired early, at most cfg.early

vars == <<cfg, ep, net, lost, early>>

WriteStates == {"CW_CLNT_HELLO", "CW_CERT", "CW_KEY_EXCH", "CW_CERT_VRFY", "CW_CHANGE",
                "CW_FINISHED", "SW_HELLO_VERIFY", "SW_SRVR_HELLO", "SW_CERT", "SW_KEY_EXCH",
                "SW_CERT_REQ", "SW_SRVR_DONE", "SW_SESSION_TICKET", "SW_CHANGE", "SW_FINISHED"}
ReadStates == {"CR_SRVR_HELLO", "CR_HELLO_VERIFY", "CR_KEY_EXCH", "CR_CERT_REQ", "CR_SRVR_DONE",
               "CR_SESSION_TICKET", "CR_FINISHED", "SR_CLNT_HELLO", "SR_CERT", "SR_KEY_EXCH",
               "SR_CERT_VRFY", "SR_FINISHED"}

(* SSL_clear, dtls1_clear and the first states of the loops.  out are the    *)
(* datagrams of the current step.                                            *)
NewSsl(e, c) ==
    [state |-> IF e = "client" THEN "CW_CLNT_HELLO" ELSE "SR_CLNT_HELLO",
     handshake_read_seq |-> 0, next_handshake_write_seq |-> 0,
     read_epoch |-> 0, write_epoch |-> 0,
     change_cipher_spec |-> FALSE, change_cipher_spec_ok |-> FALSE,
     transcript |-> << >>, peer_finished |-> << >>,
     sent_messages |-> << >>, buffered_messages |-> {}, unprocessed_rcds |-> << >>,
     rbuf |-> << >>, wbuf |-> << >>, out |-> << >>,
     timer |-> FALSE, num_alerts |-> 0, mtu |-> Mtu,
     listen |-> e = "server" /\ c.cookie = "listen",
     send_cookie |-> FALSE, cert_request |-> FALSE, fail |-> "none"]

Init ==
    /\ cfg \in Configs
    /\ ep = [e \in Endpoint |-> NewSsl(e, cfg)]
    /\ net = [e \in Endpoint |-> EmptyBag]
    /\ lost = 0 /\ early = 0

-----------------------------------------------------------------------------
(* Writing. *)

BIO_flush(s) ==
    IF s.wbuf = << >> THEN s ELSE [s EXCEPT !.out = Append(@, s.wbuf), !.wbuf = << >>]

Pending(s) == FoldLeft(LAMBDA n, r : n + r.len, 0, s.wbuf)      \* BIO_wpending

(* The records of a message: the first takes what room the datagram has      *)
(* left, the others have datagrams of their own.                             *)
Fragments(m, epoch, room, mtu) ==
    LET count == 1 + (IF m.size > room THEN (m.size - room + mtu - 1) \div mtu ELSE 0)
        off(i) == IF i = 1 THEN 0 ELSE room + (i - 2) * mtu
        len(i) == IF i = count THEN m.size - off(i) ELSE IF i = 1 THEN room ELSE mtu
    IN [i \in 1 .. count |-> [type |-> IF m.type = "CCS" THEN "ccs" ELSE "handshake",
                              epoch |-> epoch, msg |-> m, off |-> off(i), len |-> len(i)]]

TranscriptRecord(s, m, retransmitting) ==
    IF m.type = "CCS" \/ retransmitting THEN s
    ELSE [s EXCEPT !.transcript = Append(@, m.type)]

dtls1_do_write(s0, m, epoch, retransmitting) ==
    LET s == IF Pending(s0) < s0.mtu THEN s0 ELSE BIO_flush(s0)
        f == Fragments(m, epoch, s.mtu - Pending(s), s.mtu)
        Write(t, r) == [(IF Pending(t) < t.mtu THEN t ELSE BIO_flush(t)) EXCEPT !.wbuf = Append(@, r)]
    IN TranscriptRecord(FoldLeft(Write, s, f), m, retransmitting)

(* Mutant: the number alone is the place in the queue. *)
QueuePriorityIsNumber(m) == 2 * m.seq

(* ChangeCipherSpec has the number of Finished and goes before it. *)
dtls1_get_queue_priority(m) == 2 * m.seq - (IF m.type = "CCS" THEN 1 ELSE 0)

(* Kept for retransmission with the epoch it was sent in, unless its place   *)
(* in the queue is taken (pqueue_insert).                                    *)
dtls1_buffer_message(s, m) ==
    LET priority(i) == dtls1_get_queue_priority(s.sent_messages[i].msg)
        before == {i \in DOMAIN s.sent_messages : priority(i) <= dtls1_get_queue_priority(m)}
    IN IF \E i \in before : priority(i) = dtls1_get_queue_priority(m) THEN s
       ELSE [s EXCEPT !.sent_messages = InsertAt(@, Cardinality(before) + 1,
                                                 [msg |-> m, epoch |-> s.write_epoch])]

(* ssl3_handshake_msg_finish, dtls1_set_message_header, ssl3_handshake_write *)
HandshakeWrite(s, type, body) ==
    LET m == [type |-> type, seq |-> s.next_handshake_write_seq, size |-> Size[type], body |-> body]
        t == [s EXCEPT !.next_handshake_write_seq = IF s.listen THEN @ ELSE @ + 1]
    IN dtls1_do_write(dtls1_buffer_message(t, m), m, s.write_epoch, FALSE)

(* ssl3_send_client_change_cipher_spec and the server's, with the change of  *)
(* the write keys that follows.  The number is that of the next message.     *)
ChangeCipherSpec(s) ==
    LET m == [type |-> "CCS", seq |-> s.next_handshake_write_seq, size |-> 1, body |-> << >>]
    IN [dtls1_do_write(dtls1_buffer_message(s, m), m, s.write_epoch, FALSE)
            EXCEPT !.write_epoch = @ + 1]

-----------------------------------------------------------------------------
(* Timers.  A timer that expired num_alerts times runs 2^num_alerts seconds. *)

dtls1_start_timer(s) == [s EXCEPT !.timer = TRUE]

dtls1_clear_record_buffer(s) == [s EXCEPT !.sent_messages = << >>]

dtls1_stop_timer(s) == dtls1_clear_record_buffer([s EXCEPT !.timer = FALSE, !.num_alerts = 0])

dtls1_retransmit_message(s, item) == BIO_flush(dtls1_do_write(s, item.msg, item.epoch, TRUE))

(* Mutant: only what was sent under the keys of now is sent again. *)
RetransmitPresentEpoch(s) ==
    FoldLeft(dtls1_retransmit_message, s,
             SelectSeq(s.sent_messages, LAMBDA item : item.epoch = s.write_epoch))

dtls1_retransmit_buffered_messages(s) == FoldLeft(dtls1_retransmit_message, s, s.sent_messages)

(* A fatal error.  The peer is told, except when a time-out ends it. *)
Fail(s, why) == [s EXCEPT !.fail = why]

Alert(s) ==
    [s EXCEPT !.out = Append(@, <<[type |-> "alert", epoch |-> s.write_epoch,
                                   msg |-> [type |-> "ALERT", seq |-> 0, size |-> 1, body |-> << >>],
                                   off |-> 0, len |-> 1]>>)]

FatalError(s, why) == Fail(Alert(s), why)

dtls1_check_timeout_num(s) ==
    LET t == [s EXCEPT !.num_alerts = @ + 1,
                       !.mtu = IF s.num_alerts + 1 > 2 THEN FallbackMtu ELSE @]
    IN IF t.num_alerts > AlertCount THEN Fail(t, "timeout") ELSE t

RetransmitUnlessFailed(s) == IF s.fail # "none" THEN s ELSE dtls1_retransmit_buffered_messages(s)

dtls1_handle_timeout(s) == RetransmitUnlessFailed(dtls1_check_timeout_num(s))

-----------------------------------------------------------------------------
(* What ssl3_connect and ssl3_accept do in a state that writes: the message, *)
(* whether the timer is started, whether the flight ends, the next state.    *)

Transmission(s) ==
    CASE s.state = "CW_CLNT_HELLO" -> [type |-> "CH", timer |-> TRUE, flush |-> TRUE, next |-> "CR_SRVR_HELLO"]
      [] s.state = "CW_CERT"       -> [type |-> "CERT", timer |-> TRUE, flush |-> FALSE, next |-> "CW_KEY_EXCH"]
      [] s.state = "CW_KEY_EXCH"   -> [type |-> "CKE", timer |-> TRUE, flush |-> FALSE,
                                       next |-> IF s.cert_request THEN "CW_CERT_VRFY" ELSE "CW_CHANGE"]
      [] s.state = "CW_CERT_VRFY"  -> [type |-> "CV", timer |-> TRUE, flush |-> FALSE, next |-> "CW_CHANGE"]
      [] s.state = "CW_CHANGE"     -> [type |-> "CCS", timer |-> TRUE, flush |-> FALSE, next |-> "CW_FINISHED"]
      [] s.state = "CW_FINISHED"   -> [type |-> "FIN", timer |-> TRUE, flush |-> TRUE,
                                       next |-> IF cfg.ticket THEN "CR_SESSION_TICKET" ELSE "CR_FINISHED"]
      [] s.state = "SW_HELLO_VERIFY" -> [type |-> "HVR", timer |-> FALSE, flush |-> TRUE, next |-> "SR_CLNT_HELLO"]
      [] s.state = "SW_SRVR_HELLO" -> [type |-> "SH", timer |-> TRUE, flush |-> FALSE, next |-> "SW_CERT"]
      [] s.state = "SW_CERT"       -> [type |-> "CERT", timer |-> TRUE, flush |-> FALSE, next |-> "SW_KEY_EXCH"]
      [] s.state = "SW_KEY_EXCH"   -> [type |-> "SKE", timer |-> TRUE, flush |-> FALSE,
                                       next |-> IF cfg.auth THEN "SW_CERT_REQ" ELSE "SW_SRVR_DONE"]
      [] s.state = "SW_CERT_REQ"   -> [type |-> "CREQ", timer |-> TRUE, flush |-> FALSE, next |-> "SW_SRVR_DONE"]
      [] s.state = "SW_SRVR_DONE"  -> [type |-> "SHD", timer |-> TRUE, flush |-> TRUE,
                                       next |-> IF cfg.auth THEN "SR_CERT" ELSE "SR_KEY_EXCH"]
      [] s.state = "SW_SESSION_TICKET" -> [type |-> "TICKET", timer |-> FALSE, flush |-> FALSE, next |-> "SW_CHANGE"]
      [] s.state = "SW_CHANGE"     -> [type |-> "CCS", timer |-> FALSE, flush |-> FALSE, next |-> "SW_FINISHED"]
      [] s.state = "SW_FINISHED"   -> [type |-> "FIN", timer |-> FALSE, flush |-> TRUE, next |-> "OK"]

(* Every ClientHello resets the transcript, and so does HelloVerifyRequest   *)
(* after it is sent.  SSL_ST_OK resets the message numbers.                  *)
BeforeWriting(s) == IF s.state = "CW_CLNT_HELLO" THEN [s EXCEPT !.transcript = << >>] ELSE s

Body(s, type) ==
    CASE type = "FIN" -> s.transcript
      [] type = "CH"  -> IF s.send_cookie THEN <<"cookie">> ELSE << >>
      [] OTHER        -> << >>

Handshaken(s) == [s EXCEPT !.state = "OK", !.handshake_read_seq = 0, !.next_handshake_write_seq = 0]

Goto(s, state) == IF state = "OK" THEN Handshaken(s) ELSE [s EXCEPT !.state = state]

AfterWriting(s, x) ==
    IF x.type = "HVR" THEN IF s.listen THEN [NewSsl("server", cfg) EXCEPT !.out = s.out]
                           ELSE Goto([s EXCEPT !.transcript = << >>], x.next)
    ELSE Goto(s, x.next)

Transmit(s0) ==
    LET x == Transmission(s0)
        b == BeforeWriting(s0)
        s == IF x.timer THEN dtls1_start_timer(b) ELSE b
        w == IF x.type = "CCS" THEN ChangeCipherSpec(s) ELSE HandshakeWrite(s, x.type, Body(s, x.type))
    IN AfterWriting(IF x.flush THEN BIO_flush(w) ELSE w, x)

-----------------------------------------------------------------------------
(* What they do with a message in a state that reads. *)

(* ssl3_get_server_finished, ssl3_get_client_finished *)
GetFinished(s, m, next) ==
    IF ~s.change_cipher_spec \/ m.body # s.peer_finished THEN FatalError(s, "finished")
    ELSE Goto(dtls1_stop_timer([s EXCEPT !.change_cipher_spec = FALSE]), next)

GetHelloVerify(s) ==
    IF s.send_cookie THEN FatalError(s, "unexpected")
    ELSE Goto([dtls1_stop_timer(s) EXCEPT !.send_cookie = TRUE], "CW_CLNT_HELLO")

(* The message after the ServerHello is read where a HelloVerifyRequest was  *)
(* possible, and ends the timer of the ClientHello.                          *)
ClientGets(s, m) ==
    CASE s.state = "CR_SRVR_HELLO" /\ m.type = "HVR"     -> GetHelloVerify(s)
      [] s.state = "CR_SRVR_HELLO" /\ m.type = "SH"      -> Goto(s, "CR_HELLO_VERIFY")
      [] s.state = "CR_HELLO_VERIFY" /\ m.type = "CERT"  -> Goto(dtls1_stop_timer(s), "CR_KEY_EXCH")
      [] s.state = "CR_KEY_EXCH" /\ m.type = "SKE"       -> Goto(s, "CR_CERT_REQ")
      [] s.state = "CR_CERT_REQ" /\ m.type = "CREQ"      -> Goto([s EXCEPT !.cert_request = TRUE], "CR_SRVR_DONE")
      [] s.state \in {"CR_CERT_REQ", "CR_SRVR_DONE"} /\ m.type = "SHD" ->
             Goto(dtls1_stop_timer(s), IF s.cert_request THEN "CW_CERT" ELSE "CW_KEY_EXCH")
      [] s.state = "CR_SESSION_TICKET" /\ m.type = "TICKET" -> Goto(s, "CR_FINISHED")
      [] s.state = "CR_FINISHED" /\ m.type = "FIN"       -> GetFinished(s, m, "OK")
      [] OTHER                                           -> FatalError(s, "unexpected")

(* ssl3_get_client_hello; with DTLSv1_listen the numbers are set when the    *)
(* cookie has come back.                                                     *)
GetClientHello(s, m) ==
    IF cfg.cookie # "none" /\ m.body # <<"cookie">> THEN Goto(dtls1_stop_timer(s), "SW_HELLO_VERIFY")
    ELSE Goto([dtls1_stop_timer(s) EXCEPT
                   !.listen = FALSE,
                   !.handshake_read_seq = IF s.listen THEN 2 ELSE @,
                   !.next_handshake_write_seq = IF s.listen THEN 1 ELSE @], "SW_SRVR_HELLO")

AfterFinished == IF cfg.ticket THEN "SW_SESSION_TICKET" ELSE "SW_CHANGE"

ServerGets(s, m) ==
    CASE s.state = "SR_CLNT_HELLO" /\ m.type = "CH"      -> GetClientHello(s, m)
      [] s.state = "SR_CERT" /\ m.type = "CERT"          -> Goto(s, "SR_KEY_EXCH")
      [] s.state = "SR_KEY_EXCH" /\ m.type = "CKE"       -> Goto(s, "SR_CERT_VRFY")
      [] s.state = "SR_CERT_VRFY" /\ m.type = "CV" /\ ~s.change_cipher_spec -> Goto(s, "SR_FINISHED")
      [] s.state = "SR_CERT_VRFY" /\ m.type = "FIN" /\ ~cfg.auth -> GetFinished(s, m, AfterFinished)
      [] s.state = "SR_FINISHED" /\ m.type = "FIN"       -> GetFinished(s, m, AfterFinished)
      [] OTHER                                           -> FatalError(s, "unexpected")

CcsStates == {"SR_CERT_VRFY", "SR_FINISHED", "CR_FINISHED"}

(* These states set change_cipher_spec_ok whenever the loop enters them. *)
Enter(s) == [s EXCEPT !.change_cipher_spec_ok = @ \/ s.state \in CcsStates]

(* The end of dtls1_get_message. *)
dtls1_get_message(e, s, m) ==
    LET t == [TranscriptRecord(s, m, FALSE)
                  EXCEPT !.handshake_read_seq = IF s.listen THEN @ ELSE @ + 1]
    IN Enter(IF e = "client" THEN ClientGets(t, m) ELSE ServerGets(t, m))

-----------------------------------------------------------------------------
(* Fragments and messages that come early. *)

pqueue_find(s, seq) == {i \in s.buffered_messages : i.msg.seq = seq}
pqueue_peek(s) ==
    CHOOSE i \in s.buffered_messages : \A o \in s.buffered_messages : i.msg.seq <= o.msg.seq

Units(r) == r.off .. r.off + r.len - 1

(* Mutant: a message is complete when its last unit has come. *)
CompleteAtEnd(item) == item.msg.size - 1 \in item.have

IsComplete(item) == 0 .. item.msg.size - 1 \subseteq item.have  \* RSMBLY_BITMASK_IS_COMPLETE

dtls1_reassemble_fragment(s, r) ==
    LET old == pqueue_find(s, r.msg.seq)
        item == IF old = {} THEN [msg |-> r.msg, have |-> {}, reassembly |-> TRUE]
                ELSE CHOOSE i \in old : TRUE
        new == [item EXCEPT !.have = @ \cup Units(r)]
    IN IF ~item.reassembly THEN s       \* a retransmission
       ELSE [s EXCEPT !.buffered_messages =
                 (@ \ old) \cup {[new EXCEPT !.reassembly = ~IsComplete(new)]}]

dtls1_process_out_of_seq_message(s, r) ==
    IF \/ r.msg.seq <= s.handshake_read_seq
       \/ r.msg.seq > s.handshake_read_seq + Ahead
       \/ r.len = r.msg.size /\ pqueue_find(s, r.msg.seq) # {}
       \/ s.handshake_read_seq = 0 /\ r.msg.type = "FIN"
    THEN s
    ELSE IF r.len < r.msg.size THEN dtls1_reassemble_fragment(s, r)
    ELSE [s EXCEPT !.buffered_messages =
              @ \cup {[msg |-> r.msg, have |-> Units(r), reassembly |-> FALSE]}]

dtls1_get_message_fragment(e, s, r) ==
    IF r.msg.seq # s.handshake_read_seq /\ ~(s.listen /\ r.msg.seq = 1)
    THEN dtls1_process_out_of_seq_message(s, r)
    ELSE IF r.len < r.msg.size THEN dtls1_reassemble_fragment(s, r)
    ELSE dtls1_get_message(e, s, r.msg)

(* Only the first message of the queue is looked at. *)
Retrievable(s) ==
    /\ s.state \in ReadStates /\ s.buffered_messages # {}
    /\ ~pqueue_peek(s).reassembly
    /\ pqueue_peek(s).msg.seq = s.handshake_read_seq

(* A message that lacks units is not the message that was sent. *)
Reassembled(item) ==
    IF item.have = 0 .. item.msg.size - 1 THEN item.msg ELSE [item.msg EXCEPT !.type = "DAMAGED"]

dtls1_retrieve_buffered_fragment(e, s) ==
    LET item == pqueue_peek(s)
    IN dtls1_get_message(e, [s EXCEPT !.buffered_messages = @ \ {item}], Reassembled(item))

-----------------------------------------------------------------------------
(* Records. *)

ssl3_read_change_cipher_spec(s) ==
    IF ~s.change_cipher_spec_ok THEN s
    ELSE [s EXCEPT !.change_cipher_spec_ok = FALSE, !.change_cipher_spec = TRUE,
                   !.read_epoch = @ + 1, !.peer_finished = s.transcript]

(* Alerts between ChangeCipherSpec and Finished are put aside. *)
ssl3_read_alert(s) == IF s.change_cipher_spec THEN s ELSE Fail(s, "alerted")

(* Mutant: a handshake message after the handshake is refused. *)
UnexpectedRefused(e, s, r) == FatalError(s, "unexpected")

(* After the handshake.  A server whose client sends Finished again sends    *)
(* its last flight again.                                                    *)
dtls1_read_handshake_unexpected(e, s, r) ==
    IF e = "server" /\ r.msg.type = "FIN" THEN RetransmitUnlessFailed(dtls1_check_timeout_num(s))
    ELSE FatalError(s, "unexpected")

dtls1_read_bytes(e, s, r) ==
    CASE r.type = "alert"                          -> ssl3_read_alert(s)
      [] r.type = "ccs"                            -> ssl3_read_change_cipher_spec(s)
      [] r.type = "handshake" /\ s.state = "OK"    -> dtls1_read_handshake_unexpected(e, s, r)
      [] r.type = "handshake" /\ s.state # "OK"    -> dtls1_get_message_fragment(e, s, r)

(* dtls1_buffer_record takes the read buffer away with what is left in it,   *)
(* dtls1_retrieve_buffered_record puts it back.                              *)
dtls1_buffer_record(s, r) ==
    [s EXCEPT !.unprocessed_rcds = Append(@, [rec |-> r, rbuf |-> s.rbuf]), !.rbuf = << >>]

dtls1_get_record(e, s, r) ==
    IF r.epoch = s.read_epoch THEN dtls1_read_bytes(e, s, r)
    ELSE IF /\ r.epoch = s.read_epoch + 1 /\ r.type \in {"handshake", "alert"}
            /\ s.state # "OK" /\ ~s.listen
    THEN dtls1_buffer_record(s, r)
    ELSE s

BufferedReady(s) == s.unprocessed_rcds # << >> /\ s.read_epoch = 1
HasRecord(s) == BufferedReady(s) \/ s.rbuf # << >>

dtls1_process_buffered_record(e, s) ==
    LET q == s.unprocessed_rcds
    IN dtls1_read_bytes(e, [s EXCEPT !.rbuf = Head(q).rbuf, !.unprocessed_rcds = Tail(q)], Head(q).rec)

NextRecord(e, s) ==
    IF BufferedReady(s) THEN dtls1_process_buffered_record(e, s)
    ELSE dtls1_get_record(e, [s EXCEPT !.rbuf = Tail(@)], Head(s.rbuf))

-----------------------------------------------------------------------------
(* Actions.  An application calls SSL_connect or SSL_accept until the        *)
(* handshake is over and SSL_read after that.                                *)

Do(e, s) ==
    /\ ep' = [ep EXCEPT ![e] = [s EXCEPT !.out = << >>]]
    /\ net' = [net EXCEPT ![Peer(e)] = FoldLeft(BagAdd, @, s.out)]
    /\ UNCHANGED <<cfg, lost>>

Works(e) == ep[e].fail = "none"
Reads(e) == Works(e) /\ ep[e].state \in ReadStates \cup {"OK"} /\ ~Retrievable(ep[e])
Waits(e) == Reads(e) /\ ~HasRecord(ep[e])

Send(e) ==
    /\ Works(e) /\ ep[e].state \in WriteStates
    /\ Do(e, Transmit(ep[e])) /\ UNCHANGED early

Retrieve(e) ==
    /\ Works(e) /\ Retrievable(ep[e])
    /\ Do(e, dtls1_retrieve_buffered_fragment(e, ep[e])) /\ UNCHANGED early

Read(e) ==
    /\ Reads(e) /\ HasRecord(ep[e])
    /\ Do(e, NextRecord(e, ep[e])) /\ UNCHANGED early

(* A datagram arrives; the call that waited for it is made again. *)
Receive(e) ==
    /\ Waits(e)
    /\ \E d \in BagToSet(net[e]) :
          /\ ep' = [ep EXCEPT ![e] = [Enter(@) EXCEPT !.rbuf = d]]
          /\ net' = [net EXCEPT ![e] = BagRemove(@, d)]
    /\ UNCHANGED <<cfg, lost, early>>

Lose(e) ==
    /\ lost < cfg.losses
    /\ \E d \in BagToSet(net[e]) : net' = [net EXCEPT ![e] = BagRemove(@, d)]
    /\ lost' = lost + 1 /\ UNCHANGED <<cfg, ep, early>>

(* Nothing is on its way and nobody has anything left to do. *)
Quiet == \A e \in Endpoint : Works(e) => (Waits(e) /\ net[e] = EmptyBag)

(* Both timers double when they expire, so neither runs ahead of the other   *)
(* by more than one expiry.                                                  *)
InTurn(e) ==
    LET p == Peer(e)
    IN Works(p) /\ ep[p].timer => ep[e].num_alerts <= ep[p].num_alerts + 1

(* A timer expires when nothing has come, or too early. *)
Timeout(e) ==
    /\ Reads(e) /\ ep[e].timer
    /\ \/ Quiet /\ InTurn(e) /\ UNCHANGED early
       \/ ~Quiet /\ early < cfg.early /\ early' = early + 1
    /\ Do(e, dtls1_handle_timeout(ep[e]))

Step(e) == Send(e) \/ Retrieve(e) \/ Read(e)

Next == \E e \in Endpoint : Step(e) \/ Receive(e) \/ Lose(e) \/ Timeout(e)

(* Weak fairness of steps, deliveries and timers: an application goes on     *)
(* calling, the network delivers what it does not lose, and timers expire.   *)
(* Each action is enabled when its guard holds, which is written out here.   *)
Expires(e) == Quiet /\ Works(e) /\ ep[e].timer /\ InTurn(e)

Fairness ==
    \A e \in Endpoint :
        /\ []<>~(Works(e) /\ ~Waits(e)) \/ []<><<Step(e)>>_vars
        /\ []<>~(Waits(e) /\ net[e] # EmptyBag) \/ []<><<Receive(e)>>_vars
        /\ []<>~Expires(e) \/ []<><<Quiet /\ Timeout(e)>>_vars

Spec == Init /\ [][Next]_vars /\ Fairness

-----------------------------------------------------------------------------
(* Part of TranscriptsAgree; a message number is queued once. *)
TypeOK ==
    /\ lost \in 0 .. cfg.losses /\ early \in 0 .. cfg.early
    /\ \A e \in Endpoint :
          /\ ep[e].state \in WriteStates \cup ReadStates \cup {"OK"}
          /\ ep[e].num_alerts \in 0 .. AlertCount + 1
          /\ ep[e].read_epoch \in {0, 1} /\ ep[e].write_epoch \in {0, 1}
          /\ IsABag(net[e])
          /\ \A i, j \in ep[e].buffered_messages : i.msg.seq = j.msg.seq => i = j

(* Whatever is lost, overtaken, fragmented and sent again, both endpoints    *)
(* hash the same whole messages in the same order (dtls1_do_write,           *)
(* dtls1_get_message, dtls1_reassemble_fragment): one transcript is always   *)
(* the beginning of the other.                                               *)
TranscriptsAgree ==
    /\ TypeOK
    /\ LET c == ep["client"].transcript  s == ep["server"].transcript
       IN IsPrefix(c, s) \/ IsPrefix(s, c)

(* No loss and no order of arrival makes a call of the handshake fail, other *)
(* than by AlertCount time-outs.  A client that is done is excepted: it      *)
(* refuses a Finished that its server sends again.                           *)
LossIsTolerated ==
    \A e \in Endpoint :
        ep[e].fail \notin {"none", "timeout"} => ep["client"].state = "OK"

(* The messages of an endpoint that its peer has not got yet.  At SSL_ST_OK  *)
(* an endpoint forgets its numbers: then the one that the peer waits for.    *)
NotReceived(e) ==
    LET first == ep[Peer(e)].handshake_read_seq
    IN  IF ep[e].state = "OK" THEN {first} ELSE first .. ep[e].next_handshake_write_seq - 1

(* A message that the peer has not got yet can be sent again: a timer is     *)
(* never stopped, nor a flight forgotten, on a message that does not confirm *)
(* that flight (dtls1_stop_timer at three states of ssl3_connect and two of  *)
(* ssl3_accept), and no message takes the place of another in the queue.  A  *)
(* server that is done keeps its last flight for a client that is not.  A    *)
(* server that listens has no messages it waits for.                         *)
KeptUntilReceived ==
    \A e \in Endpoint : ep[Peer(e)].state # "OK" /\ ~ep[Peer(e)].listen =>
        \A seq \in NotReceived(e) :
            \E i \in DOMAIN ep[e].sent_messages :
                LET m == ep[e].sent_messages[i].msg IN m.seq = seq /\ m.type # "CCS"

(* The message an endpoint waits for is complete in its queue. *)
Available(s) ==
    \E i \in s.buffered_messages : i.msg.seq = s.handshake_read_seq /\ ~i.reassembly

(* It is not read because fragments of an earlier message are before it: one *)
(* that then came in one piece, and was read past the queue.                 *)
Obstructed(e) ==
    /\ ep[e].state \in ReadStates /\ Available(ep[e])
    /\ pqueue_peek(ep[e]).msg.seq < ep[e].handshake_read_seq

(* A server that does not listen has sent a HelloVerifyRequest, waits for a  *)
(* ClientHello with the next number, and has no timer; without the cookie    *)
(* the client repeats the old one.                                           *)
CookieLost ==
    /\ cfg.cookie = "accept"
    /\ ep["server"].state = "SR_CLNT_HELLO" /\ ep["server"].handshake_read_seq = 1
    /\ ~ep["client"].send_cookie /\ ep["client"].rbuf = << >>
    /\ \A d \in BagToSet(net["client"]) : \A i \in DOMAIN d : d[i].msg.type # "HVR"

(* The server waits for CertificateVerify and has already processed the     *)
(* ChangeCipherSpec behind it: it discards all that comes in the old epoch.  *)
Overtaken == ep["server"].state = "SR_CERT_VRFY" /\ ep["server"].change_cipher_spec

Stalled == CookieLost \/ Overtaken \/ \E e \in Endpoint : Obstructed(e)

(* Both endpoints complete the handshake in spite of the losses: what the    *)
(* timer of one of them sends again is what the other waits for, in the      *)
(* right epoch (dtls1_handle_timeout, dtls1_read_handshake_unexpected).      *)
(* There are three states that no timer leads out of: a lost HelloVerify-    *)
(* Request of a server that does not listen, a ChangeCipherSpec that was     *)
(* processed before CertificateVerify, and a message that the queue keeps    *)
(* behind the fragments of an earlier one.                                   *)
Completion == <>[]((\A e \in Endpoint : ep[e].state = "OK") \/ Stalled)
=============================================================================
