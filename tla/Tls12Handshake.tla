--------------------------- MODULE Tls12Handshake ---------------------------
(* The handshake of TLS 1.2 and earlier, and of DTLS: the state machines of  *)
(* ssl3_connect (ssl_clnt.c) and ssl3_accept (ssl_srvr.c), connected by a    *)
(* transport that keeps order.  Full handshakes and resumptions by ID and by *)
(* ticket, with and without client certificates, renegotiations of either    *)
(* side with application data in flight, and the removal of plaintext        *)
(* records.  Each endpoint is the record of the fields of its SSL object     *)
(* that carry over from one step to another; hashes, signatures and keys are *)
(* the values they are computed from.                                        *)
EXTENDS Naturals, Sequences, SequencesExt

CONSTANTS
    Configs,            \* what the two endpoints are set up to do
    RenegotiationBound, \* bound: calls of SSL_renegotiate
    DataBound,          \* bound: application data records of an endpoint
    OmissionBound       \* bound: plaintext records removed on the way

ASSUME BoundAssumption ==
    RenegotiationBound \in Nat /\ DataBound \in Nat /\ OmissionBound \in Nat

(* SSL_VERIFY_FAIL_IF_NO_PEER_CERT is only of use together with               *)
(* SSL_VERIFY_PEER, and a session that such a server still knows is of a     *)
(* client that it has authenticated.                                         *)
ASSUME ConfigAssumption ==
    \A c \in Configs :
        /\ c.offer \in {"none", "id", "ticket"} /\ "SSL_read" \in c.calls
        /\ "fail" \in c.verify =>
            /\ "peer" \in c.verify
            /\ c.known /\ c.offer # "none" => c.clientCert /\ c.kex # "anon"

VARIABLES
    cfg,        \* the configuration
    ssl,        \* the two SSL objects
    net,        \* the records on their way to each endpoint
    cache,      \* the sessions in the server's cache
    omitted     \* how many records were removed

vars == <<cfg, ssl, net, cache, omitted>>

Endpoint == {"client", "server"}
Peer(e) == IF e = "client" THEN "server" ELSE "client"

(* A value that may be NULL. *)
Null == << >>
Some(x) == <<x>>

Anonymous == cfg.kex = "anon"
Ephemeral == cfg.kex \in {"ECDHE", "anon"}
Verifies(flag) == flag \in cfg.verify

NoSession == [id |-> Null, tick |-> Null, master |-> Null, peer |-> FALSE, proved |-> FALSE]

(* The session of an earlier connection: known by its ID, or in a ticket,    *)
(* whose hash the client uses as the ID.  proved says that the owner of the  *)
(* peer's certificate has signed.                                            *)
OldSession(peer) == [NoSession EXCEPT !.master = <<0, 0, 0>>, !.peer = peer, !.proved = peer]

Ticket(n, session) == [n |-> n, master |-> session.master, peer |-> session.peer, proved |-> session.proved]

ServerSession(c) == OldSession("peer" \in c.verify /\ c.clientCert /\ c.kex # "anon")

ClientSession(c) ==
    CASE c.offer = "none" -> NoSession
      [] c.offer = "id" -> [OldSession(c.kex # "anon") EXCEPT !.id = <<"id", 0>>]
      [] c.offer = "ticket" -> [OldSession(c.kex # "anon") EXCEPT
                                    !.id = <<"tk", 0>>, !.tick = Some(Ticket(0, ServerSession(c)))]

(* n counts the handshakes of the endpoint, done those it has completed.     *)
NewSsl(e, session) ==
    [who |-> e, state |-> "BEFORE", next_state |-> "BEFORE", n |-> 0, done |-> 0,
     session |-> session, hit |-> FALSE, cr |-> 0, sr |-> 0, cipher |-> FALSE,
     handshake_transcript |-> Null, frozen |-> FALSE, handshake_hash |-> Null, cert_verify |-> Null,
     reuse_message |-> Null, ccs_ok |-> FALSE, change_cipher_spec |-> FALSE,
     key_block |-> Null, rkey |-> Null, wkey |-> Null, peer_finished |-> Null,
     previous_client_finished |-> Null, previous_server_finished |-> Null,
     ticket_expected |-> FALSE, status_expected |-> FALSE, cert_request |-> 0, send_cookie |-> FALSE,
     renegotiate |-> 0, new_session |-> FALSE, total_renegotiations |-> 0,
     bbio |-> FALSE, wbuf |-> << >>, flush |-> FALSE, data |-> 0]

Init ==
    /\ cfg \in Configs
    /\ ssl = [e \in Endpoint |-> NewSsl(e, IF e = "client" THEN ClientSession(cfg) ELSE NoSession)]
    /\ net = [e \in Endpoint |-> << >>]
    /\ cache = IF cfg.offer = "id" /\ cfg.known
               THEN {[ServerSession(cfg) EXCEPT !.id = <<"id", 0>>]} ELSE {}
    /\ omitted = 0

-----------------------------------------------------------------------------
(* Records and messages. *)

Message(mt, body) == [mt |-> mt, body |-> body]
NoMessage == Message("none", [none |-> TRUE])

WireRecord(s, type, m) == [type |-> type, msg |-> m, key |-> s.wkey]

Write(s, type, m) == [s EXCEPT !.wbuf = Append(@, WireRecord(s, type, m))]

(* ssl_transcript.c *)
tls1_transcript_free(s) == [s EXCEPT !.handshake_transcript = Null]
tls1_transcript_reset(s) == [s EXCEPT !.handshake_transcript = Some(<< >>), !.frozen = FALSE]
tls1_transcript_freeze(s) == [s EXCEPT !.frozen = TRUE]

(* What a message adds to the transcript.  Finished is a function of what    *)
(* precedes it, and renegotiation information is made of earlier Finished    *)
(* messages that both sides compare: neither is repeated.                    *)
Digest(m) ==
    CASE m.mt \in {"ClientHello", "ServerHello"} -> [m EXCEPT !.body.ri = Null]
      [] m.mt = "Finished" -> [m EXCEPT !.body.hash = Null]
      [] OTHER -> m

tls1_transcript_record(s, m) ==
    [s EXCEPT !.handshake_hash = IF @ = Null THEN Null ELSE Some(Append(@[1], Digest(m))),
              !.handshake_transcript = IF @ = Null \/ s.frozen THEN @ ELSE Some(Append(@[1], Digest(m)))]

(* ssl3_handshake_write *)
Send(s, m) == tls1_transcript_record(Write(s, "handshake", m), m)

(* A fatal alert is flushed; of an error without one the peer hears nothing. *)
Die(s) == [s EXCEPT !.state = "Failed", !.wbuf = << >>]
Abort(s) == [Write(s, "alert", NoMessage) EXCEPT !.state = "Failed", !.flush = TRUE]

(* Waiting for Finished, and for CertificateVerify, allows ChangeCipherSpec. *)
AllowsCcs == {"CR_FINISHED", "SR_CERT_VRFY", "SR_FINISHED"}

Goto(s, state) == [s EXCEPT !.state = state, !.ccs_ok = @ \/ state \in AllowsCcs]

Flush(s, state) == [s EXCEPT !.state = "FLUSH", !.next_state = state]

(* One step of endpoint e: what it writes stays in the buffering BIO when    *)
(* there is one.                                                             *)
Written(e, t) == IF t.flush \/ ~ssl[e].bbio THEN t.wbuf ELSE << >>
After(e, t) == IF t.flush \/ ~ssl[e].bbio THEN [t EXCEPT !.wbuf = << >>, !.flush = FALSE] ELSE t

Step(e, t) ==
    /\ ssl' = [ssl EXCEPT ![e] = After(e, t)]
    /\ net' = [net EXCEPT ![Peer(e)] = @ \o Written(e, t)]
    /\ UNCHANGED <<cfg, omitted>>

StepAfterRead(e, t) ==
    /\ ssl' = [ssl EXCEPT ![e] = After(e, t)]
    /\ net' = [net EXCEPT ![Peer(e)] = @ \o Written(e, t), ![e] = Tail(@)]
    /\ UNCHANGED <<cfg, omitted>>

Opens(e) == Head(net[e]).key = ssl[e].rkey
Incoming(e, type) == net[e] # << >> /\ Opens(e) /\ Head(net[e]).type = type

(* A state that writes, or that has nothing to do. *)
Do(e, state, Handler(_)) ==
    /\ ssl[e].state = state
    /\ Step(e, Handler(ssl[e]))
    /\ UNCHANGED cache

(* ssl3_get_message: the message kept by the previous state, or the next     *)
(* one, which the transcript records.  A client skips a HelloRequest.        *)
Reused(e, Handler(_, _)) ==
    /\ ssl[e].reuse_message # Null
    /\ Step(e, Handler([ssl[e] EXCEPT !.reuse_message = Null], ssl[e].reuse_message[1]))

ssl3_get_message(e, Handler(_, _)) ==
    /\ ssl[e].reuse_message = Null
    /\ Incoming(e, "handshake")
    /\ Head(net[e]).msg.mt # "HelloRequest"
    /\ StepAfterRead(e, Handler(tls1_transcript_record(ssl[e], Head(net[e]).msg), Head(net[e]).msg))

Get(e, state, Handler(_, _)) ==
    /\ ssl[e].state = state
    /\ Reused(e, Handler) \/ ssl3_get_message(e, Handler)
    /\ UNCHANGED cache

Reuse(s, m) == [s EXCEPT !.reuse_message = Some(m)]

-----------------------------------------------------------------------------
(* Keys (t1_enc.c) and Finished messages (tls12_lib.c). *)

Keys(s) == <<s.session.master, s.cr, s.sr>>

tls12_derive_master_secret(s, pre) == [s EXCEPT !.session.master = <<pre, s.cr, s.sr>>]

tls1_setup_key_block(s) == [s EXCEPT !.key_block = IF @ = Null THEN Keys(s) ELSE @]

tls1_change_write_cipher_state(s) == [s EXCEPT !.wkey = <<s.who>> \o s.key_block]
tls1_change_read_cipher_state(s) == [s EXCEPT !.rkey = <<Peer(s.who)>> \o s.key_block]

VerifyData(s, who) ==
    Message("Finished", [who |-> who, master |-> s.session.master, hash |-> s.handshake_hash])

tls12_derive_peer_finished(s) == [s EXCEPT !.peer_finished = Some(VerifyData(s, Peer(s.who)))]

(* previous_client_finished and previous_server_finished, for RFC 5746. *)
Remember(s, who, m) ==
    IF who = "client" THEN [s EXCEPT !.previous_client_finished = Some(m)]
    ELSE [s EXCEPT !.previous_server_finished = Some(m)]

(* ssl3_send_client_change_cipher_spec, ssl3_send_server_change_cipher_spec. *)
SendChangeCipherSpec(s, state) ==
    tls1_change_write_cipher_state(tls1_setup_key_block(
        [Write(s, "ccs", NoMessage) EXCEPT !.state = state]))

(* Mutant: the Finished message that is sent is not remembered. *)
SendFinishedForgets(s) == Send(s, VerifyData(s, s.who))

(* ssl3_send_client_finished, ssl3_send_server_finished. *)
SendFinished(s) == Send(Remember(s, s.who, VerifyData(s, s.who)), VerifyData(s, s.who))

(* Mutant: Finished is not compared. *)
AcceptFinished(s, m) == m.mt = "Finished" /\ s.change_cipher_spec

FinishedIsRight(s, m) ==
    m.mt = "Finished" /\ s.change_cipher_spec /\ s.peer_finished = Some(m)

(* ssl3_get_server_finished, ssl3_get_client_finished. *)
GetFinished(s, m, state) ==
    IF ~FinishedIsRight(s, m) THEN Abort(s)
    ELSE [Remember(s, Peer(s.who), m) EXCEPT !.change_cipher_spec = FALSE, !.state = state]

-----------------------------------------------------------------------------
(* The client: the states of ssl3_connect. *)

Connect(s) ==
    IF s.handshake_transcript # Null THEN Die(s)
    ELSE [tls1_transcript_reset(s) EXCEPT
            !.state = "CW_CLNT_HELLO", !.n = @ + 1, !.bbio = FALSE,
            !.renegotiate = IF s.state = "RENEGOTIATE" THEN 1 ELSE @,
            !.send_cookie = @ /\ ~cfg.dtls, !.hit = @ /\ ~cfg.dtls]

(* The session that is offered; none when a new one is wanted. *)
Offered(s, field) == IF s.new_session THEN Null ELSE field

ClientHello(s) ==
    Message("ClientHello",
        [cr |-> s.cr, id |-> Offered(s, s.session.id), tickets |-> cfg.tickets,
         tick |-> IF cfg.tickets THEN Offered(s, s.session.tick) ELSE Null, cookie |-> s.send_cookie,
         ri |-> IF s.renegotiate = 0 THEN Null ELSE Some(s.previous_client_finished)])

ssl3_send_client_hello(s) ==
    LET r == IF cfg.dtls THEN tls1_transcript_reset(s) ELSE s
        t == [r EXCEPT !.cr = s.n,
                       !.session = IF @.id = Null /\ @.tick = Null THEN NoSession ELSE @]
        u == [Send(t, ClientHello(t)) EXCEPT !.bbio = TRUE]
    IN  IF s.send_cookie THEN Flush(u, "CR_SRVR_HELLO") ELSE Goto(u, "CR_SRVR_HELLO")

(* A server that resumes the session repeats its ID. *)
Resumes(s, m) == s.session.id # Null /\ m.body.id = s.session.id

ClientMiss(session, id) ==
    IF session.id # Null THEN [NoSession EXCEPT !.id = id] ELSE [session EXCEPT !.id = id]

tlsext_ri_client_process(s, m) ==
    m.body.ri = <<s.previous_client_finished, s.previous_server_finished>>

AfterServerHello(s) ==
    IF ~s.hit THEN Goto(s, IF cfg.dtls THEN "CR_HELLO_VERIFY" ELSE "CR_CERT")
    ELSE IF cfg.dtls THEN Goto(s, "CR_FINISHED")
    ELSE Goto(tls1_transcript_free(s), IF s.ticket_expected THEN "CR_SESSION_TICKET" ELSE "CR_FINISHED")

ssl3_get_server_hello(s, m) ==
    IF m.mt = "HelloVerifyRequest" /\ ~s.send_cookie THEN Goto(Reuse(s, m), "CR_HELLO_VERIFY")
    ELSE IF m.mt # "ServerHello" \/ ~tlsext_ri_client_process(s, m) THEN Abort(s)
    ELSE IF s.handshake_transcript = Null THEN Die(s)
    ELSE LET t == [s EXCEPT
                    !.sr = m.body.sr, !.cipher = TRUE, !.hit = Resumes(s, m),
                    !.session = IF Resumes(s, m) THEN @ ELSE ClientMiss(@, m.body.id),
                    !.ccs_ok = @ \/ (Resumes(s, m) /\ ~cfg.dtls),
                    !.handshake_hash = s.handshake_transcript,
                    !.ticket_expected = @ \/ m.body.ticket,
                    !.status_expected = @ \/ m.body.status]
         IN  AfterServerHello(IF cfg.sigalgs THEN t ELSE tls1_transcript_free(t))

ssl3_get_dtls_hello_verify(s, m) ==
    IF m.mt = "HelloVerifyRequest" THEN Goto([s EXCEPT !.send_cookie = TRUE], "CW_CLNT_HELLO")
    ELSE Goto(Reuse([s EXCEPT !.send_cookie = FALSE], m), "CR_CERT")

ssl3_get_server_certificate(s, m) ==
    LET next == IF s.status_expected THEN "CR_CERT_STATUS" ELSE "CR_KEY_EXCH"
    IN  CASE m.mt = "ServerKeyExchange" -> Goto(Reuse(s, m), next)
          [] m.mt = "Certificate" -> Goto([s EXCEPT !.session.peer = TRUE], next)
          [] OTHER -> Abort(s)

(* An anonymous server has no certificate. *)
SkipServerCertificate(s) == Goto(s, "CR_KEY_EXCH")

ssl3_get_cert_status(s, m) ==
    CASE m.mt = "ServerKeyExchange" -> Goto(Reuse(s, m), "CR_KEY_EXCH")
      [] m.mt = "CertificateStatus" -> Goto(s, "CR_KEY_EXCH")
      [] OTHER -> Abort(s)

(* The key exchange is signed with the certificate, over the randoms. *)
KeyExchangeSigned(s, m) == Anonymous \/ (s.session.peer /\ m.body.signed = <<s.cr, s.sr>>)
ssl3_check_cert_and_algorithm(s) == Anonymous \/ s.session.peer

ssl3_get_server_key_exchange(s, m) ==
    IF \/ (m.mt = "ServerKeyExchange") # Ephemeral
       \/ m.mt = "ServerKeyExchange" /\ ~KeyExchangeSigned(s, m)
       \/ ~ssl3_check_cert_and_algorithm(s)
    THEN Abort(s)
    ELSE Goto(IF Ephemeral THEN s ELSE Reuse(s, m), "CR_CERT_REQ")

ssl3_get_certificate_request(s, m) ==
    IF m.mt = "ServerDone"
    THEN Goto([Reuse(tls1_transcript_free(s), m) EXCEPT !.cert_request = 0], "CR_SRVR_DONE")
    ELSE IF m.mt # "CertificateRequest" \/ Anonymous THEN Abort(s)
    ELSE Goto([s EXCEPT !.cert_request = 1], "CR_SRVR_DONE")

ssl3_get_server_done(s, m) ==
    IF m.mt # "ServerDone" THEN Abort(s)
    ELSE Goto(s, IF s.cert_request # 0 THEN "CW_CERT" ELSE "CW_KEY_EXCH")

Certificate(chain) == Message("Certificate", [chain |-> chain])

ssl3_send_client_certificate(s) ==
    IF cfg.clientCert THEN Goto(Send(s, Certificate(TRUE)), "CW_KEY_EXCH")
    ELSE Goto(Send(tls1_transcript_free([s EXCEPT !.cert_request = 2]), Certificate(FALSE)), "CW_KEY_EXCH")

(* The premaster secret is new in every handshake of the client. *)
ssl3_send_client_key_exchange(s) ==
    LET t == tls12_derive_master_secret(Send(s, Message("ClientKeyExchange", [pre |-> s.n])), s.n)
    IN  IF s.cert_request = 1 THEN Goto(t, "CW_CERT_VRFY")
        ELSE Goto([t EXCEPT !.change_cipher_spec = FALSE], "CW_CHANGE")

(* TLS 1.2 signs the transcript, earlier versions its hash. *)
ssl3_send_client_verify(s) ==
    LET signed == IF cfg.sigalgs THEN s.handshake_transcript ELSE s.handshake_hash
    IN  IF signed = Null THEN Die(s)
        ELSE Goto([Send(tls1_transcript_free(s), Message("CertificateVerify", [signed |-> signed])) EXCEPT
                    !.change_cipher_spec = FALSE], "CW_CHANGE")

ssl3_send_client_change_cipher_spec(s) == SendChangeCipherSpec(s, "CW_FINISHED")

ssl3_send_client_finished(s) ==
    Flush([SendFinished(s) EXCEPT !.ccs_ok = @ \/ ~cfg.dtls],
          IF s.hit THEN "ST_OK" ELSE IF s.ticket_expected THEN "CR_SESSION_TICKET" ELSE "CR_FINISHED")

(* The hash of a ticket becomes the ID of the session. *)
ssl3_get_new_session_ticket(s, m) ==
    CASE m.mt = "Finished" -> Goto(Reuse(s, m), "CR_FINISHED")
      [] m.mt = "NewSessionTicket" ->
            Goto([s EXCEPT !.session.tick = Some(m.body), !.session.id = <<"tk", m.body.n>>], "CR_FINISHED")
      [] OTHER -> Abort(s)

ssl3_get_server_finished(s, m) == GetFinished(s, m, IF s.hit THEN "CW_CHANGE" ELSE "ST_OK")

(* SSL_ST_OK of the client. *)
Connected(s) ==
    IF s.handshake_transcript # Null THEN Die(s)
    ELSE [s EXCEPT !.state = "Established", !.key_block = Null, !.bbio = FALSE, !.wbuf = << >>,
                   !.renegotiate = 0, !.new_session = FALSE, !.done = @ + 1]

-----------------------------------------------------------------------------
(* The server: the states of ssl3_accept. *)

Accept(s) ==
    IF s.state = "RENEGOTIATE" THEN [s EXCEPT !.renegotiate = 1, !.state = "SW_HELLO_REQ"]
    ELSE IF s.handshake_transcript # Null THEN Die(s)
    ELSE [tls1_transcript_reset(s) EXCEPT !.state = "SR_CLNT_HELLO", !.n = @ + 1, !.bbio = TRUE]

(* A HelloRequest is not part of the transcript. *)
ssl3_send_hello_request(s) == Flush(Write(s, "handshake", Message("HelloRequest", [none |-> TRUE])), "ST_OK")

(* tls1_process_ticket and tls_decrypt_ticket: the server's keys open the    *)
(* tickets of this connection; whether they open an older one, and whether   *)
(* the ticket is to be renewed, is given.                                    *)
Decrypts(m) == m.body.tick # Null /\ (cfg.known \/ m.body.tick[1].n > 0)

TicketExpected(m) == IF Decrypts(m) THEN cfg.renew ELSE m.body.tickets

TicketSession(m) ==
    [NoSession EXCEPT !.id = m.body.id, !.master = m.body.tick[1].master,
                      !.peer = m.body.tick[1].peer, !.proved = m.body.tick[1].proved]

(* ssl_get_prev_session: the session that is resumed, if there is one.  A    *)
(* ticket that cannot be opened rules out a session of the cache.            *)
PreviousSessions(m) ==
    IF Decrypts(m) THEN {TicketSession(m)}
    ELSE IF m.body.tick # Null THEN {}
    ELSE {session \in cache : session.id = m.body.id}

(* ssl_get_new_session: no ID for a session that will be in a ticket. *)
NewServerSession(s) == [NoSession EXCEPT !.id = IF s.ticket_expected THEN Null ELSE <<"id", s.n>>]

ChooseSession(s, m) ==
    LET t == [s EXCEPT !.ticket_expected = TicketExpected(m)]
        found == PreviousSessions(m)
    IN  IF s.new_session /\ cfg.noResume THEN [s EXCEPT !.hit = FALSE, !.session = NewServerSession(s)]
        ELSE IF found = {} THEN [t EXCEPT !.hit = FALSE, !.session = NewServerSession(t)]
        ELSE [t EXCEPT !.hit = TRUE, !.session = CHOOSE session \in found : TRUE]

(* The signalling cipher suite may only be in a first hello; a later one has *)
(* the client's last Finished.                                               *)
tlsext_ri_server_process(s, m) ==
    IF m.body.ri = Null THEN s.renegotiate = 0 ELSE m.body.ri[1] = s.previous_client_finished

ssl3_get_client_hello(s, m) ==
    IF m.mt # "ClientHello" THEN Abort(s)
    ELSE IF cfg.dtls /\ cfg.cookies /\ ~m.body.cookie THEN Goto(s, "SW_HELLO_VERIFY")
    ELSE IF ~tlsext_ri_server_process(s, m) THEN Abort(s)
    ELSE LET t == [ChooseSession([s EXCEPT !.cr = m.body.cr], m) EXCEPT
                    !.sr = s.n, !.cipher = TRUE, !.handshake_hash = s.handshake_transcript,
                    !.status_expected = cfg.status /\ ~Anonymous,
                    !.renegotiate = IF cfg.dtls THEN @ ELSE 2]
         IN  Goto(IF cfg.sigalgs /\ Verifies("peer") THEN t ELSE tls1_transcript_free(t), "SW_SRVR_HELLO")

ssl3_send_dtls_hello_verify_request(s) ==
    Flush(tls1_transcript_reset(Send(s, Message("HelloVerifyRequest", [none |-> TRUE]))), "SR_CLNT_HELLO")

ServerHello(s) ==
    Message("ServerHello", [sr |-> s.sr, id |-> s.session.id, ticket |-> s.ticket_expected,
        status |-> s.status_expected, ri |-> <<s.previous_client_finished, s.previous_server_finished>>])

ssl3_send_server_hello(s) ==
    Goto([Send(s, ServerHello(s)) EXCEPT !.renegotiate = IF cfg.dtls THEN 2 ELSE @],
         IF ~s.hit THEN "SW_CERT" ELSE IF s.ticket_expected THEN "SW_SESSION_TICKET" ELSE "SW_CHANGE")

ssl3_send_server_certificate(s) ==
    IF Anonymous THEN Goto(s, "SW_KEY_EXCH")
    ELSE Goto(Send(s, Certificate(TRUE)), IF s.status_expected THEN "SW_CERT_STATUS" ELSE "SW_KEY_EXCH")

ssl3_send_cert_status(s) == Goto(Send(s, Message("CertificateStatus", [none |-> TRUE])), "SW_KEY_EXCH")

ssl3_send_server_key_exchange(s) ==
    IF ~Ephemeral THEN Goto(s, "SW_CERT_REQ")
    ELSE Goto(Send(s, Message("ServerKeyExchange",
                [signed |-> IF Anonymous THEN << >> ELSE <<s.cr, s.sr>>])), "SW_CERT_REQ")

(* No certificate is asked for without SSL_VERIFY_PEER; with                 *)
(* SSL_VERIFY_CLIENT_ONCE when the session has one; from an anonymous suite, *)
(* unless the server insists.                                                *)
NoRequest(s) ==
    \/ ~Verifies("peer")
    \/ s.session.peer /\ Verifies("once")
    \/ Anonymous /\ ~Verifies("fail")

ssl3_send_certificate_request(s) ==
    IF NoRequest(s)
    THEN LET t == [s EXCEPT !.cert_request = 0]
         IN  Goto(IF cfg.dtls THEN t ELSE tls1_transcript_free(t), "SW_SRVR_DONE")
    ELSE Goto([Send(s, Message("CertificateRequest", [none |-> TRUE])) EXCEPT !.cert_request = 1],
              "SW_SRVR_DONE")

ssl3_send_server_done(s) == Flush(Send(s, Message("ServerDone", [none |-> TRUE])), "SR_CERT")

SkipClientCertificate(s) == Goto(s, "SR_KEY_EXCH")

(* Mutant: an empty list satisfies SSL_VERIFY_FAIL_IF_NO_PEER_CERT. *)
AcceptNoCertificate(s, m) ==
    IF m.mt # "Certificate" THEN Abort(s)
    ELSE Goto(IF m.body.chain THEN [s EXCEPT !.session.peer = TRUE] ELSE tls1_transcript_free(s), "SR_KEY_EXCH")

ssl3_get_client_certificate(s, m) ==
    IF m.mt # "Certificate" \/ (~m.body.chain /\ Verifies("fail")) THEN Abort(s)
    ELSE Goto(IF m.body.chain THEN [s EXCEPT !.session.peer = TRUE] ELSE tls1_transcript_free(s), "SR_KEY_EXCH")

ssl3_get_client_key_exchange(s, m) ==
    IF m.mt # "ClientKeyExchange" THEN Abort(s)
    ELSE LET t == tls12_derive_master_secret(s, m.body.pre)
         IN  Goto(IF cfg.sigalgs THEN IF s.session.peer THEN tls1_transcript_freeze(t) ELSE t
                  ELSE [tls1_transcript_free(t) EXCEPT !.cert_verify = s.handshake_hash], "SR_CERT_VRFY")

SignatureIsRight(s, m) ==
    m.body.signed # Null /\ m.body.signed = (IF cfg.sigalgs THEN s.handshake_transcript ELSE s.cert_verify)

ssl3_get_cert_verify(s, m) ==
    IF m.mt # "CertificateVerify"
    THEN IF s.session.peer THEN Abort(s) ELSE Goto(Reuse(tls1_transcript_free(s), m), "SR_FINISHED")
    ELSE IF ~s.session.peer \/ s.change_cipher_spec \/ ~SignatureIsRight(s, m) THEN Abort(s)
    ELSE Goto([tls1_transcript_free(s) EXCEPT !.session.proved = TRUE], "SR_FINISHED")

ssl3_get_client_finished(s, m) ==
    GetFinished(s, m, IF s.hit THEN "ST_OK" ELSE IF s.ticket_expected THEN "SW_SESSION_TICKET" ELSE "SW_CHANGE")

ssl3_send_newsession_ticket(s) ==
    Goto(Send(s, Message("NewSessionTicket", Ticket(s.n, s.session))), "SW_CHANGE")

ssl3_send_server_change_cipher_spec(s) == SendChangeCipherSpec(s, "SW_FINISHED")

ssl3_send_server_finished(s) ==
    IF s.hit THEN Flush(tls1_transcript_free(SendFinished(s)), "SR_FINISHED")
    ELSE Flush(SendFinished(s), "ST_OK")

(* SSL_ST_OK of the server, which is also reached after a HelloRequest.  A   *)
(* new session with an ID goes into the cache.                               *)
Accepted(s) ==
    LET t == [s EXCEPT !.state = "Established", !.key_block = Null, !.bbio = FALSE, !.wbuf = << >>]
    IN  IF s.handshake_transcript # Null THEN Die(s)
        ELSE IF s.renegotiate # 2 THEN t
        ELSE [t EXCEPT !.renegotiate = 0, !.new_session = FALSE, !.done = @ + 1]

ssl_update_cache ==
    LET s == ssl["server"]
    IN  /\ s.state = "ST_OK"
        /\ Step("server", Accepted(s))
        /\ cache' = IF s.renegotiate = 2 /\ s.handshake_transcript = Null /\ s.session.id # Null /\ ~s.hit
                    THEN {session \in cache : session.id # s.session.id} \union {s.session}
                    ELSE cache

-----------------------------------------------------------------------------
(* What the record layer does while either side waits (ssl_pkt.c). *)

(* Mutant: the buffering BIO is left unflushed. *)
FlushLater(s) == Goto(s, s.next_state)

FlushBuffer(s) == Goto([s EXCEPT !.flush = TRUE], s.next_state)

ReadStates ==
    {"CR_SRVR_HELLO", "CR_HELLO_VERIFY", "CR_CERT", "CR_CERT_STATUS", "CR_KEY_EXCH", "CR_CERT_REQ",
     "CR_SRVR_DONE", "CR_SESSION_TICKET", "CR_FINISHED", "SR_CLNT_HELLO", "SR_CERT", "SR_KEY_EXCH",
     "SR_CERT_VRFY", "SR_FINISHED", "Established"}

(* CR_CERT and SR_CERT read nothing when no certificate is expected. *)
SkipsCertificate(s) ==
    \/ s.state = "CR_CERT" /\ Anonymous
    \/ s.state = "SR_CERT" /\ s.cert_request = 0

Waits(e) == ssl[e].state \in ReadStates /\ ~SkipsCertificate(ssl[e]) /\ ssl[e].reuse_message = Null

ReadCcs(s) ==
    IF s.change_cipher_spec \/ ~s.cipher THEN Abort(s)
    ELSE IF ~s.ccs_ok THEN IF cfg.dtls THEN s ELSE Abort(s)
    ELSE LET t == [s EXCEPT !.ccs_ok = FALSE, !.change_cipher_spec = TRUE]
         IN  IF t.key_block = Null /\ t.session.master = Null THEN Die(t)
             ELSE tls12_derive_peer_finished(tls1_change_read_cipher_state(tls1_setup_key_block(t)))

ssl3_read_change_cipher_spec(e) ==
    /\ Waits(e) /\ Incoming(e, "ccs")
    /\ StepAfterRead(e, ReadCcs(ssl[e]))
    /\ UNCHANGED cache

(* A call that returned with SSL_ERROR_WANT_READ is made again. *)
Reenter(e) ==
    /\ Waits(e) /\ ssl[e].state \in AllowsCcs /\ ~ssl[e].ccs_ok
    /\ Step(e, Goto(ssl[e], ssl[e].state))
    /\ UNCHANGED cache

(* A fatal alert takes the session out of the cache. *)
ssl3_read_alert(e) ==
    /\ Waits(e) /\ Incoming(e, "alert")
    /\ StepAfterRead(e, Die(ssl[e]))
    /\ cache' = IF e = "server" THEN {session \in cache : session.id # ssl[e].session.id} ELSE cache

(* A record of other keys: TLS gives up, DTLS drops it. *)
BadRecord(e) ==
    /\ Waits(e) /\ net[e] # << >> /\ ~Opens(e)
    /\ StepAfterRead(e, IF cfg.dtls THEN ssl[e] ELSE Abort(ssl[e]))
    /\ UNCHANGED cache

(* ssl3_get_message of a client that is in a handshake already. *)
SkipHelloRequest(e) ==
    /\ e = "client" /\ Waits(e) /\ ssl[e].state # "Established"
    /\ Incoming(e, "handshake") /\ Head(net[e]).msg.mt = "HelloRequest"
    /\ StepAfterRead(e, ssl[e])
    /\ UNCHANGED cache

(* Without a handshake: HelloRequest and ClientHello start one. The latter   *)
(* is read again by ssl3_get_client_hello.                                   *)
Unexpected(s, m) ==
    CASE s.who = "client" /\ m.mt = "HelloRequest" ->
            [s EXCEPT !.state = "RENEGOTIATE", !.total_renegotiations = @ + 1]
      [] s.who = "server" /\ m.mt = "ClientHello" ->
            [s EXCEPT !.state = "ACCEPT", !.renegotiate = 1, !.new_session = TRUE]
      [] OTHER -> Abort(s)

ssl3_read_handshake_unexpected(e) ==
    LET t == Unexpected(ssl[e], Head(net[e]).msg)
    IN  /\ ssl[e].state = "Established" /\ Incoming(e, "handshake")
        /\ IF t.state = "ACCEPT" THEN Step(e, t) ELSE StepAfterRead(e, t)
        /\ UNCHANGED cache

(* The application renegotiates; without abbreviated it wants a new session. *)
SSL_renegotiate(e, abbreviated) ==
    /\ ssl[e].state = "Established" /\ ~cfg.dtls
    /\ ssl[e].total_renegotiations < RenegotiationBound
    /\ Step(e, [ssl[e] EXCEPT !.state = "RENEGOTIATE", !.renegotiate = 1, !.new_session = ~abbreviated,
                              !.total_renegotiations = @ + 1])
    /\ UNCHANGED cache

WriteData(e) ==
    /\ ssl[e].state = "Established" /\ ssl[e].data < DataBound
    /\ Step(e, [Write(ssl[e], "data", NoMessage) EXCEPT !.data = @ + 1])
    /\ UNCHANGED cache

(* Mutant: data is only read outside of handshakes. *)
MayReadDataNever(s, call) == s.state = "Established"

(* A renegotiation that the peer has not answered lets data through, if it   *)
(* is a call of SSL_read that drives it: in_read_app_data is only set there. *)
(* What SSL_read leaves in that field when it has met data (2) lets a later  *)
(* SSL_write fail without an alert, and is not told from no call at all.     *)
MayReadData(s, call) ==
    /\ ~s.change_cipher_spec /\ call = "SSL_read"
    /\ \/ s.state = "Established"
       \/ s.state \in {"CR_SRVR_HELLO", "SR_CLNT_HELLO"} /\ s.total_renegotiations # 0

(* SSL_read, or a renegotiation that the application drives with SSL_write   *)
(* or SSL_do_handshake, meets a data record.  Outside of a handshake these   *)
(* two do not read.                                                          *)
ReadData(e) ==
    /\ Waits(e) /\ Incoming(e, "data")
    /\ \E call \in cfg.calls :
        /\ ssl[e].state = "Established" => call = "SSL_read"
        /\ StepAfterRead(e, IF MayReadData(ssl[e], call) THEN ssl[e] ELSE Abort(ssl[e]))
    /\ UNCHANGED cache

(* A plaintext record is removed on the way. *)
Omit(e) ==
    /\ ~cfg.dtls /\ omitted < OmissionBound
    /\ net[e] # << >> /\ Head(net[e]).key = Null /\ Head(net[e]).type # "alert"
    /\ net' = [net EXCEPT ![e] = Tail(@)]
    /\ omitted' = omitted + 1
    /\ UNCHANGED <<cfg, ssl, cache>>

-----------------------------------------------------------------------------
ssl3_connect ==
    \/ \E state \in {"BEFORE", "RENEGOTIATE"} : Do("client", state, Connect)
    \/ Do("client", "CW_CLNT_HELLO", ssl3_send_client_hello)
    \/ Get("client", "CR_SRVR_HELLO", ssl3_get_server_hello)
    \/ Get("client", "CR_HELLO_VERIFY", ssl3_get_dtls_hello_verify)
    \/ Anonymous /\ Do("client", "CR_CERT", SkipServerCertificate)
    \/ ~Anonymous /\ Get("client", "CR_CERT", ssl3_get_server_certificate)
    \/ Get("client", "CR_CERT_STATUS", ssl3_get_cert_status)
    \/ Get("client", "CR_KEY_EXCH", ssl3_get_server_key_exchange)
    \/ Get("client", "CR_CERT_REQ", ssl3_get_certificate_request)
    \/ Get("client", "CR_SRVR_DONE", ssl3_get_server_done)
    \/ Do("client", "CW_CERT", ssl3_send_client_certificate)
    \/ Do("client", "CW_KEY_EXCH", ssl3_send_client_key_exchange)
    \/ Do("client", "CW_CERT_VRFY", ssl3_send_client_verify)
    \/ Do("client", "CW_CHANGE", ssl3_send_client_change_cipher_spec)
    \/ Do("client", "CW_FINISHED", ssl3_send_client_finished)
    \/ Get("client", "CR_SESSION_TICKET", ssl3_get_new_session_ticket)
    \/ Get("client", "CR_FINISHED", ssl3_get_server_finished)
    \/ Do("client", "ST_OK", Connected)

ssl3_accept ==
    \/ \E state \in {"BEFORE", "ACCEPT", "RENEGOTIATE"} : Do("server", state, Accept)
    \/ Do("server", "SW_HELLO_REQ", ssl3_send_hello_request)
    \/ Get("server", "SR_CLNT_HELLO", ssl3_get_client_hello)
    \/ Do("server", "SW_HELLO_VERIFY", ssl3_send_dtls_hello_verify_request)
    \/ Do("server", "SW_SRVR_HELLO", ssl3_send_server_hello)
    \/ Do("server", "SW_CERT", ssl3_send_server_certificate)
    \/ Do("server", "SW_CERT_STATUS", ssl3_send_cert_status)
    \/ Do("server", "SW_KEY_EXCH", ssl3_send_server_key_exchange)
    \/ Do("server", "SW_CERT_REQ", ssl3_send_certificate_request)
    \/ Do("server", "SW_SRVR_DONE", ssl3_send_server_done)
    \/ ssl["server"].cert_request = 0 /\ Do("server", "SR_CERT", SkipClientCertificate)
    \/ ssl["server"].cert_request # 0 /\ Get("server", "SR_CERT", ssl3_get_client_certificate)
    \/ Get("server", "SR_KEY_EXCH", ssl3_get_client_key_exchange)
    \/ Get("server", "SR_CERT_VRFY", ssl3_get_cert_verify)
    \/ Get("server", "SR_FINISHED", ssl3_get_client_finished)
    \/ Do("server", "SW_SESSION_TICKET", ssl3_send_newsession_ticket)
    \/ Do("server", "SW_CHANGE", ssl3_send_server_change_cipher_spec)
    \/ Do("server", "SW_FINISHED", ssl3_send_server_finished)
    \/ ssl_update_cache

ssl3_read_bytes(e) ==
    \/ ssl3_read_change_cipher_spec(e)
    \/ ssl3_read_alert(e)
    \/ BadRecord(e)
    \/ SkipHelloRequest(e)
    \/ ssl3_read_handshake_unexpected(e)
    \/ ReadData(e)

(* What an endpoint does without a new request of its application. *)
Progress(e) ==
    \/ e = "client" /\ ssl3_connect
    \/ e = "server" /\ ssl3_accept
    \/ Do(e, "FLUSH", FlushBuffer)
    \/ ssl3_read_bytes(e)
    \/ Reenter(e)

Request(e) ==
    \/ \E abbreviated \in BOOLEAN : SSL_renegotiate(e, abbreviated)
    \/ WriteData(e)

Next == \E e \in Endpoint : Progress(e) \/ Request(e) \/ Omit(e)

(* Applications that call the library until it has nothing more to do. *)
Fairness == \A e \in Endpoint : WF_vars(Progress(e))

Spec == Init /\ [][Next]_vars /\ Fairness

-----------------------------------------------------------------------------
(* Properties. *)

Established(e) == ssl[e].state = "Established"
Failed(e) == ssl[e].state = "Failed"

States ==
    ReadStates \union
    {"BEFORE", "RENEGOTIATE", "ACCEPT", "FLUSH", "ST_OK", "Failed",
     "CW_CLNT_HELLO", "CW_CERT", "CW_KEY_EXCH", "CW_CERT_VRFY", "CW_CHANGE", "CW_FINISHED",
     "SW_HELLO_REQ", "SW_HELLO_VERIFY", "SW_SRVR_HELLO", "SW_CERT", "SW_CERT_STATUS", "SW_KEY_EXCH",
     "SW_CERT_REQ", "SW_SRVR_DONE", "SW_SESSION_TICKET", "SW_CHANGE", "SW_FINISHED"}

(* The fields of the SSL objects keep their ranges, nothing is buffered      *)
(* outside of a handshake and a message is kept for the next state only      *)
(* while that state reads.  Part of Agreement.                               *)
TypeOK ==
    /\ cfg \in Configs
    /\ omitted \in 0..OmissionBound
    /\ \A e \in Endpoint :
        /\ ssl[e].state \in States
        /\ ssl[e].cert_request \in 0..2 /\ ssl[e].renegotiate \in 0..2
        /\ ssl[e].data \in 0..DataBound
        /\ ssl[e].bbio \/ ssl[e].wbuf = << >>
        /\ ssl[e].reuse_message # Null => ssl[e].state \in ReadStates \union {"Failed"}
        /\ Established(e) => ssl[e].reuse_message = Null /\ ~ssl[e].change_cipher_spec

(* Both ends have completed the same handshake: they agree on the master     *)
(* secret, on the transcript, on whether a session was resumed and on the    *)
(* Finished messages that bind the next handshake to this one, and each      *)
(* reads with the keys of this session that the other writes with.           *)
Agreement ==
    /\ TypeOK
    /\ (\A e \in Endpoint : Established(e)) /\ ssl["client"].done = ssl["server"].done =>
        LET c == ssl["client"]
            s == ssl["server"]
        IN  /\ c.session.master = s.session.master /\ Keys(c) = Keys(s)
            /\ c.hit = s.hit /\ c.handshake_hash = s.handshake_hash
            /\ c.previous_client_finished = s.previous_client_finished
            /\ c.previous_server_finished = s.previous_server_finished
            /\ c.wkey = <<"client">> \o Keys(c) /\ s.rkey = c.wkey
            /\ s.wkey = <<"server">> \o Keys(s) /\ c.rkey = s.wkey

(* The server insists on a certificate only where the client has one. *)
Compatible == Verifies("fail") => cfg.clientCert /\ ~Anonymous

(* Data may be on its way when a handshake begins that is not the first. *)
DataMeetsRenegotiation ==
    /\ \E e \in Endpoint : ssl[e].data > 0
    /\ \E e \in Endpoint : ssl[e].total_renegotiations > 0

(* ssl3_connect releases the transcript of a resumed session only when the  *)
(* connection is not DTLS, and refuses to end the handshake with one.        *)
ResumedDtls == cfg.dtls /\ ssl["client"].hit

(* Endpoints that can agree do, whatever the order of their renegotiations,  *)
(* HelloRequests and data: nobody fails unless a record was removed, a call  *)
(* other than SSL_read drove a renegotiation while data was on its way       *)
(* (ssl3_read_bytes), or a DTLS client is at the end of a resumption.        *)
NoSpuriousFailure ==
    Compatible /\ omitted = 0 =>
        \/ \A e \in Endpoint : ~Failed(e)
        \/ cfg.calls # {"SSL_read"} /\ DataMeetsRenegotiation
        \/ ResumedDtls /\ ~Failed("server")

(* A server that requires a certificate has one whenever a handshake is      *)
(* complete, resumed or not, and no certificate is taken from a peer that    *)
(* has not signed; a client has the certificate of its server.               *)
PeerAuthenticated ==
    /\ Established("server") =>
        /\ Verifies("fail") => ssl["server"].session.peer
        /\ ssl["server"].session.peer => ssl["server"].session.proved
    /\ Established("client") /\ ~Anonymous => ssl["client"].session.peer

(* No plaintext record of a handshake can be removed: the handshake does not *)
(* complete on both sides.                                                   *)
OmissionDetected == omitted > 0 => ~\A e \in Endpoint : Established(e)

(* A handshake ends, and so does every renegotiation, unless a record was    *)
(* removed: nobody waits for a message that the other has not sent.          *)
Settled(e) == Established(e) \/ Failed(e)
Termination == []<>((\A e \in Endpoint : Settled(e)) \/ omitted > 0)
=============================================================================
