------------------------ MODULE Tls12HandshakeProofs ------------------------
(* Proof that the handshake of TLS 1.2 and earlier, and of DTLS,             *)
(* authenticates the peer: PeerAuthenticated, for every set of configurations*)
(* that satisfies ConfigAssumption and for every value of the bounds.        *)
(*                                                                           *)
(* AuthInv is the inductive invariant.  For each endpoint it says, state by  *)
(* state, what the endpoint knows of its peer; for the records on their way  *)
(* in both directions, and for the messages that a state keeps for the next  *)
(* one, that a ticket in them is one the server may rely on; and for DTLS,   *)
(* how far the cookie exchange has got, because a HelloVerifyRequest takes a *)
(* client back to a state in which it offers a session.                      *)
(*                                                                           *)
(* The proof has three layers: what each handler does to its SSL object (the *)
(* Sheet lemmas), that the result keeps what the endpoint knows (ClientGoes, *)
(* ServerGoes), and that the step it is part of keeps AuthInv, queues        *)
(* included.                                                                 *)
EXTENDS Tls12Handshake, TLAPS

-----------------------------------------------------------------------------
(* The invariant. *)

Fields ==
    {"who", "state", "next_state", "n", "done", "session", "hit", "cr", "sr", "cipher",
     "handshake_transcript", "frozen", "handshake_hash", "cert_verify", "reuse_message", "ccs_ok",
     "change_cipher_spec", "key_block", "rkey", "wkey", "peer_finished", "previous_client_finished",
     "previous_server_finished", "ticket_expected", "status_expected", "cert_request", "send_cookie",
     "renegotiate", "new_session", "total_renegotiations", "bbio", "wbuf", "flush", "data"}

SessionFields == {"id", "tick", "master", "peer", "proved"}

(* t is the SSL object s with other values of the fields of X. *)
Changes(s, t, X) == DOMAIN t = Fields /\ \A x \in Fields \ X : t[x] = s[x]

(* The state, or the one that follows the flush. *)
Position(s) == IF s.state = "FLUSH" THEN s.next_state ELSE s.state

(* What is on its way to an endpoint, the other's buffering BIO included. *)
Queue(e) == net[e] \o ssl[Peer(e)].wbuf

IsSeq(q) == q \in Seq(ToSet(q))

Is(r, mt) == r.type = "handshake" /\ r.msg.mt = mt

-----------------------------------------------------------------------------
(* Authentication. *)

(* A session that the server may resume. *)
SessionOK(c, session) ==
    /\ session.peer => session.proved
    /\ "fail" \in c.verify => session.peer

TicketOK(c, t) == c.known \/ t.n > 0 => SessionOK(c, t)

MessageOK(c, m) ==
    /\ m.mt = "ClientHello" => (m.body.tick # Null => TicketOK(c, m.body.tick[1]))
    /\ m.mt = "NewSessionTicket" => TicketOK(c, m.body)
    /\ c.dtls => m.mt # "HelloRequest"

RecordOK(c, r) == r.type = "handshake" => MessageOK(c, r.msg)

Records(c, q) == IsSeq(q) /\ \A i \in 1 .. Len(q) : RecordOK(c, q[i])

(* Before the client's certificate, between it and its signature, and where  *)
(* the server may rely on it.                                                *)
ServerAsks == {"SW_CERT", "SW_CERT_STATUS", "SW_KEY_EXCH", "SW_CERT_REQ", "SW_SRVR_DONE", "SR_CERT"}
ServerUnsure == {"SR_KEY_EXCH", "SR_CERT_VRFY"}
ServerSure ==
    {"SR_FINISHED", "SW_SESSION_TICKET", "SW_CHANGE", "SW_FINISHED", "ST_OK", "Established",
     "RENEGOTIATE", "SW_HELLO_REQ"}

ServerAuth(c, s) ==
    LET p == Position(s)
        insists == "fail" \in c.verify
    IN  /\ p \in ServerAsks \/ (p = "SW_SRVR_HELLO" /\ ~s.hit) => ~s.session.peer
        /\ insists /\ p \in {"SW_SRVR_DONE", "SR_CERT"} => s.cert_request = 1
        /\ insists /\ p \in ServerUnsure => s.session.peer
        /\ p \in ServerSure \/ (p = "SW_SRVR_HELLO" /\ s.hit) => SessionOK(c, s.session)
        /\ c.dtls => p \notin {"RENEGOTIATE", "SW_HELLO_REQ"}
        /\ s.state = "FLUSH" => s.next_state \in {"SR_CLNT_HELLO", "SR_CERT", "SR_FINISHED", "ST_OK"}
        /\ s.reuse_message # Null =>
            s.state \in {"SR_FINISHED", "Failed"} /\ MessageOK(c, s.reuse_message[1])

(* The client has the certificate of a session that it offers, ... *)
ClientOffers == {"BEFORE", "RENEGOTIATE", "CW_CLNT_HELLO", "CR_SRVR_HELLO"}
ClientSure ==
    {"CR_CERT_REQ", "CR_SRVR_DONE", "CW_CERT", "CW_KEY_EXCH", "CW_CERT_VRFY", "CW_CHANGE", "CW_FINISHED",
     "CR_SESSION_TICKET", "CR_FINISHED", "ST_OK", "Established", "RENEGOTIATE"}

(* A HelloVerifyRequest is kept for the state that reads it. *)
Verifying(s) ==
    s.state = "CR_HELLO_VERIFY" /\ s.reuse_message # Null

(* Where a message may have been kept. *)
ClientKeeps ==
    {"CR_HELLO_VERIFY", "CR_CERT", "CR_CERT_STATUS", "CR_KEY_EXCH", "CR_CERT_REQ", "CR_SRVR_DONE",
     "CR_FINISHED", "Failed"}

ClientAuth(c, s) ==
    LET p == Position(s)
    IN  /\ c.kex # "anon" =>
            /\ p \in ClientOffers \/ Verifying(s) => (s.session.id # Null => s.session.peer)
            /\ p \in ClientSure => s.session.peer
        /\ s.session.tick # Null => s.session.id # Null /\ TicketOK(c, s.session.tick[1])
        /\ s.reuse_message # Null => s.state \in ClientKeeps /\ MessageOK(c, s.reuse_message[1])
        /\ s.state = "CR_HELLO_VERIFY" => c.dtls \/ s.reuse_message # Null
        /\ Verifying(s) => s.reuse_message[1].mt = "HelloVerifyRequest"
        /\ c.dtls => p # "RENEGOTIATE"
        /\ s.state = "FLUSH" => s.next_state \in {"CR_SRVR_HELLO", "ST_OK", "CR_SESSION_TICKET", "CR_FINISHED"}

-----------------------------------------------------------------------------
(* The cookie exchange of DTLS. *)

FirstHello(r) == Is(r, "ClientHello") /\ ~r.msg.body.cookie
VerifyRequest(r) == Is(r, "HelloVerifyRequest")

NoFirstHello(q) == \A i \in 1 .. Len(q) : ~FirstHello(q[i])
NoVerifyRequest(q) == \A i \in 1 .. Len(q) : ~VerifyRequest(q[i])

ServerWaits(s) == Position(s) \in {"BEFORE", "SR_CLNT_HELLO"}

CookiePhase(C, S, qs, qc) ==
    \/ /\ C.state \in {"BEFORE", "CW_CLNT_HELLO"} /\ ~C.send_cookie
       /\ qs = << >> /\ qc = << >> /\ ServerWaits(S)
    \/ /\ C.state = "CR_SRVR_HELLO" /\ ~C.send_cookie
       /\ Len(qs) = 1 /\ FirstHello(qs[1]) /\ qc = << >> /\ ServerWaits(S)
    \/ /\ C.state = "CR_SRVR_HELLO" /\ ~C.send_cookie
       /\ qs = << >> /\ qc = << >> /\ Position(S) = "SW_HELLO_VERIFY"
    \/ /\ C.state = "CR_SRVR_HELLO" /\ ~C.send_cookie
       /\ qs = << >> /\ Len(qc) = 1 /\ VerifyRequest(qc[1]) /\ ServerWaits(S)
    \/ /\ (C.state = "CW_CLNT_HELLO" /\ C.send_cookie) \/ Verifying(C)
       /\ qs = << >> /\ qc = << >> /\ ServerWaits(S)
    \/ /\ NoFirstHello(qs) /\ NoVerifyRequest(qc) /\ Position(S) # "SW_HELLO_VERIFY"
       /\ C.state \notin {"BEFORE", "CW_CLNT_HELLO"} /\ ~Verifying(C)

(* ... whoever fails. *)
CookieSafe(C, qc) ==
    /\ Position(C) \notin {"BEFORE", "CW_CLNT_HELLO", "CR_SRVR_HELLO"} => NoVerifyRequest(qc)
    /\ \A i \in 2 .. Len(qc) : ~VerifyRequest(qc[i])

Cookies(c, C, S, qs, qc) ==
    c.dtls /\ C.state # "Failed" =>
        /\ S.state # "Failed" => CookiePhase(C, S, qs, qc)
        /\ CookieSafe(C, qc)

-----------------------------------------------------------------------------
IsSsl(s, who) == DOMAIN s = Fields /\ s.who = who /\ DOMAIN s.session = SessionFields

Auth(c, C, S, qs, qc, sessions) ==
    /\ IsSsl(C, "client") /\ ClientAuth(c, C)
    /\ IsSsl(S, "server") /\ ServerAuth(c, S)
    /\ Records(c, qs) /\ Records(c, qc)
    /\ \A session \in sessions : DOMAIN session = SessionFields /\ SessionOK(c, session)
    /\ Cookies(c, C, S, qs, qc)

Shape ==
    /\ DOMAIN ssl = Endpoint /\ DOMAIN net = Endpoint
    /\ \A e \in Endpoint : IsSeq(net[e]) /\ IsSeq(ssl[e].wbuf)

AuthInv ==
    /\ cfg \in Configs /\ Shape
    /\ Auth(cfg, ssl["client"], ssl["server"], Queue("server"), Queue("client"), cache)

-----------------------------------------------------------------------------
(* What each handler does to the SSL object. *)

(* The endpoint gives up. *)
Fails(s, t) ==
    /\ Changes(s, t, {"state", "wbuf", "flush"}) /\ t.state = "Failed"
    /\ t.wbuf = << >> \/ t.wbuf = Append(s.wbuf, WireRecord(s, "alert", NoMessage))

(* It writes one handshake message, which its transcript records. *)
Sent(s, t, m) == t.wbuf = Append(s.wbuf, WireRecord(s, "handshake", m))

(* What has been recorded of a message, in the hash and in the transcript. *)
Hashed(hash, m) == IF hash = Null THEN Null ELSE Some(Append(hash[1], Digest(m)))
Kept(s, m) == IF s.frozen THEN s.handshake_transcript ELSE Hashed(s.handshake_transcript, m)

LEMMA AbortSheet == ASSUME NEW s, DOMAIN s = Fields PROVE Fails(s, Abort(s))
    BY DEF Fails, Changes, Abort, Write, Fields

LEMMA DieSheet == ASSUME NEW s, DOMAIN s = Fields PROVE Fails(s, Die(s))
    BY DEF Fails, Changes, Die, Fields

LEMMA RecordSheet ==
    ASSUME NEW s, NEW m, DOMAIN s = Fields
    PROVE  LET t == tls1_transcript_record(s, m)
           IN  /\ Changes(s, t, {"handshake_hash", "handshake_transcript"})
               /\ t.handshake_hash = Hashed(s.handshake_hash, m)
               /\ t.handshake_transcript = Kept(s, m)
    BY DEF Changes, tls1_transcript_record, Fields, Hashed, Kept, Null

LEMMA SendSheet ==
    ASSUME NEW s, NEW m, DOMAIN s = Fields
    PROVE  LET t == Send(s, m)
           IN  /\ Changes(s, t, {"wbuf", "handshake_hash", "handshake_transcript"})
               /\ Sent(s, t, m) /\ t.handshake_hash = Hashed(s.handshake_hash, m)
               /\ t.handshake_transcript = Kept(s, m)
<1> DEFINE u == Write(s, "handshake", m)
           t == tls1_transcript_record(u, m)
<1>1. Changes(s, u, {"wbuf"}) /\ u.wbuf = Append(s.wbuf, WireRecord(s, "handshake", m))
    BY DEF Write, Changes, Fields
<1>2. t = Send(s, m)
    BY DEF Send
<1> HIDE DEF u
<1>3. /\ DOMAIN u = Fields /\ u.handshake_hash = s.handshake_hash
      /\ u.handshake_transcript = s.handshake_transcript /\ u.frozen = s.frozen
    BY <1>1 DEF Changes, Fields
<1>4. /\ Changes(u, t, {"handshake_hash", "handshake_transcript"})
      /\ t.handshake_hash = Hashed(u.handshake_hash, m) /\ t.handshake_transcript = Kept(u, m)
    BY <1>3, RecordSheet
<1> HIDE DEF t
<1>5. Changes(s, t, {"wbuf", "handshake_hash", "handshake_transcript"})
    BY <1>1, <1>4 DEF Changes
<1>6. t.wbuf = u.wbuf
    BY <1>4 DEF Changes, Fields
<1>7. Sent(s, t, m) /\ t.handshake_hash = Hashed(s.handshake_hash, m) /\ t.handshake_transcript = Kept(s, m)
    BY <1>1, <1>3, <1>4, <1>6 DEF Sent, Kept
<1> QED BY <1>2, <1>5, <1>7

LEMMA FlushSheet ==
    ASSUME NEW s, DOMAIN s = Fields
    PROVE  LET t == FlushBuffer(s)
           IN  /\ Changes(s, t, {"state", "ccs_ok", "flush"})
               /\ t.state = s.next_state /\ t.ccs_ok = (s.ccs_ok \/ s.next_state \in AllowsCcs)
    BY DEF Changes, Fields, FlushBuffer, Goto

(* The client. *)

LEMMA ConnectSheet ==
    ASSUME NEW s, DOMAIN s = Fields
    PROVE  LET t == Connect(s)
           IN  \/ Fails(s, t)
               \/ /\ Changes(s, t, {"handshake_transcript", "frozen", "state", "n", "bbio", "renegotiate",
                                    "send_cookie", "hit"})
                  /\ s.handshake_transcript = Null
                  /\ t.handshake_transcript = Some(<< >>) /\ ~t.frozen /\ t.state = "CW_CLNT_HELLO"
                  /\ t.n = s.n + 1 /\ ~t.bbio /\ t.send_cookie = (s.send_cookie /\ ~cfg.dtls)
                  /\ t.hit = (s.hit /\ ~cfg.dtls) /\ t.renegotiate \in {1, s.renegotiate}
<1>1. CASE s.handshake_transcript # Null
    BY <1>1, DieSheet DEF Connect
<1>2. CASE s.handshake_transcript = Null
    BY <1>2 DEF Connect, Changes, Fields, tls1_transcript_reset
<1> QED BY <1>1, <1>2

LEMMA ClientHelloSheet ==
    ASSUME NEW s, DOMAIN s = Fields
    PROVE  LET t == ssl3_send_client_hello(s)
           IN  /\ Changes(s, t, {"handshake_hash", "handshake_transcript", "frozen", "cr", "session",
                                 "state", "next_state", "bbio", "ccs_ok", "wbuf"})
               /\ t.session = IF s.session.id = Null /\ s.session.tick = Null THEN NoSession ELSE s.session
               /\ t.cr = s.n /\ t.bbio /\ (t.ccs_ok => s.ccs_ok)
               /\ Sent(s, t, ClientHello(t))
               /\ t.handshake_hash = Hashed(s.handshake_hash, ClientHello(t))
               /\ cfg.dtls => t.handshake_transcript = Some(<<Digest(ClientHello(t))>>) /\ ~t.frozen
               /\ ~cfg.dtls => t.handshake_transcript = Kept(s, ClientHello(t)) /\ t.frozen = s.frozen
               /\ Position(t) = "CR_SRVR_HELLO" /\ t.state = IF s.send_cookie THEN "FLUSH" ELSE "CR_SRVR_HELLO"
<1> DEFINE t == ssl3_send_client_hello(s)
           r == IF cfg.dtls THEN tls1_transcript_reset(s) ELSE s
           v == [r EXCEPT !.cr = s.n, !.session = IF @.id = Null /\ @.tick = Null THEN NoSession ELSE @]
<1>1. t = IF s.send_cookie THEN Flush([Send(v, ClientHello(v)) EXCEPT !.bbio = TRUE], "CR_SRVR_HELLO")
          ELSE Goto([Send(v, ClientHello(v)) EXCEPT !.bbio = TRUE], "CR_SRVR_HELLO")
    BY DEF ssl3_send_client_hello
<1>2. /\ Changes(s, v, {"handshake_transcript", "frozen", "cr", "session"}) /\ v.cr = s.n
      /\ v.session = IF s.session.id = Null /\ s.session.tick = Null THEN NoSession ELSE s.session
      /\ cfg.dtls => v.handshake_transcript = Some(<< >>) /\ ~v.frozen
      /\ ~cfg.dtls => v.handshake_transcript = s.handshake_transcript /\ v.frozen = s.frozen
    BY DEF Changes, Fields, tls1_transcript_reset
<1> HIDE DEF v, t
<1>3. /\ Changes(v, t, {"handshake_hash", "handshake_transcript", "state", "next_state", "bbio", "ccs_ok", "wbuf"})
      /\ t.wbuf = Append(v.wbuf, WireRecord(v, "handshake", ClientHello(v)))
      /\ t.handshake_hash = Hashed(v.handshake_hash, ClientHello(v))
      /\ t.handshake_transcript = Kept(v, ClientHello(v))
      /\ t.bbio /\ (t.ccs_ok => v.ccs_ok)
      /\ Position(t) = "CR_SRVR_HELLO" /\ t.state = IF s.send_cookie THEN "FLUSH" ELSE "CR_SRVR_HELLO"
    BY <1>1, <1>2 DEF Changes, Fields, Send, Write, tls1_transcript_record, Goto, Flush, Hashed, Kept, Null,
        Position, AllowsCcs
<1>4. /\ t.cr = v.cr /\ t.session = v.session /\ t.send_cookie = v.send_cookie /\ t.new_session = v.new_session
      /\ t.renegotiate = v.renegotiate /\ t.previous_client_finished = v.previous_client_finished
      /\ t.frozen = v.frozen
      /\ v.wbuf = s.wbuf /\ v.wkey = s.wkey /\ v.handshake_hash = s.handshake_hash /\ v.ccs_ok = s.ccs_ok
    BY <1>2, <1>3 DEF Changes, Fields
<1>5. ClientHello(t) = ClientHello(v)
    BY <1>4 DEF ClientHello, Offered
<1>6. Changes(s, t, {"handshake_hash", "handshake_transcript", "frozen", "cr", "session",
                     "state", "next_state", "bbio", "ccs_ok", "wbuf"})
    BY <1>2, <1>3 DEF Changes
<1>7. cfg.dtls => t.handshake_transcript = Some(<<Digest(ClientHello(t))>>)
    BY <1>2, <1>3, <1>5 DEF Kept, Hashed, Null, Some
<1>8. ~cfg.dtls => t.handshake_transcript = Kept(s, ClientHello(t))
    BY <1>2, <1>3, <1>5 DEF Kept
<1> HIDE DEF t
<1> QED BY <1>2, <1>3, <1>4, <1>5, <1>6, <1>7, <1>8 DEF t, Sent, WireRecord

LEMMA ServerHelloSheet ==
    ASSUME NEW s, NEW m, DOMAIN s = Fields
    PROVE  LET t == ssl3_get_server_hello(s, m)
           IN  \/ Fails(s, t)
               \/ /\ m.mt = "HelloVerifyRequest" /\ ~s.send_cookie
                  /\ Changes(s, t, {"state", "ccs_ok", "reuse_message"})
                  /\ t.state = "CR_HELLO_VERIFY" /\ (t.ccs_ok => s.ccs_ok) /\ t.reuse_message = Some(m)
               \/ /\ m.mt = "ServerHello" /\ tlsext_ri_client_process(s, m) /\ s.handshake_transcript # Null
                  /\ Changes(s, t, {"sr", "cipher", "hit", "session", "ccs_ok", "handshake_hash", "ticket_expected",
                                    "status_expected", "handshake_transcript", "state"})
                  /\ t.sr = m.body.sr /\ t.cipher /\ t.hit = Resumes(s, m)
                  /\ t.session = IF t.hit THEN s.session ELSE ClientMiss(s.session, m.body.id)
                  /\ t.handshake_hash = s.handshake_transcript
                  /\ ~t.hit /\ t.ccs_ok => s.ccs_ok
                  /\ t.hit => t.state \in {"CR_SESSION_TICKET", "CR_FINISHED"}
                  /\ t.state = "CR_SESSION_TICKET" => ~cfg.dtls
                  /\ ~t.hit => t.state = IF cfg.dtls THEN "CR_HELLO_VERIFY" ELSE "CR_CERT"
<1> DEFINE t == ssl3_get_server_hello(s, m)
<1>1. CASE m.mt = "HelloVerifyRequest" /\ ~s.send_cookie
    BY <1>1 DEF ssl3_get_server_hello, Changes, Goto, Reuse, Fields, AllowsCcs
<1>2. CASE ~(m.mt = "HelloVerifyRequest" /\ ~s.send_cookie) /\ (m.mt # "ServerHello" \/ ~tlsext_ri_client_process(s, m))
    <2>1. t = Abort(s) BY <1>2 DEF ssl3_get_server_hello
    <2> QED BY <2>1, AbortSheet
<1>3. CASE m.mt = "ServerHello" /\ tlsext_ri_client_process(s, m) /\ s.handshake_transcript = Null
    <2>1. t = Die(s) BY <1>3 DEF ssl3_get_server_hello
    <2> QED BY <2>1, DieSheet
<1>4. CASE m.mt = "ServerHello" /\ tlsext_ri_client_process(s, m) /\ s.handshake_transcript # Null
    <2> DEFINE u == [s EXCEPT
                        !.sr = m.body.sr, !.cipher = TRUE, !.hit = Resumes(s, m),
                        !.session = IF Resumes(s, m) THEN @ ELSE ClientMiss(@, m.body.id),
                        !.ccs_ok = @ \/ (Resumes(s, m) /\ ~cfg.dtls),
                        !.handshake_hash = s.handshake_transcript,
                        !.ticket_expected = @ \/ m.body.ticket,
                        !.status_expected = @ \/ m.body.status]
               v == IF cfg.sigalgs THEN u ELSE tls1_transcript_free(u)
    <2>1. t = AfterServerHello(v)
        BY <1>4 DEF ssl3_get_server_hello
    <2>2. /\ Changes(s, v, {"sr", "cipher", "hit", "session", "ccs_ok", "handshake_hash", "ticket_expected",
                            "status_expected", "handshake_transcript"})
          /\ v.sr = m.body.sr /\ v.cipher /\ v.hit = Resumes(s, m)
          /\ v.session = IF Resumes(s, m) THEN s.session ELSE ClientMiss(s.session, m.body.id)
          /\ v.handshake_hash = s.handshake_transcript
          /\ ~Resumes(s, m) /\ v.ccs_ok => s.ccs_ok
        BY DEF Changes, Fields, tls1_transcript_free
    <2> HIDE DEF v, t
    <2>3. /\ Changes(v, t, {"handshake_transcript", "state", "ccs_ok"})
          /\ v.hit => t.state \in {"CR_SESSION_TICKET", "CR_FINISHED"}
          /\ t.state = "CR_SESSION_TICKET" => ~cfg.dtls
          /\ ~v.hit => t.state = IF cfg.dtls THEN "CR_HELLO_VERIFY" ELSE "CR_CERT"
          /\ ~v.hit /\ t.ccs_ok => v.ccs_ok
        BY <2>1, <2>2 DEF Changes, Fields, AfterServerHello, Goto, tls1_transcript_free, AllowsCcs
    <2>4. /\ t.sr = v.sr /\ t.cipher = v.cipher /\ t.hit = v.hit /\ t.session = v.session
          /\ t.handshake_hash = v.handshake_hash
        BY <2>3 DEF Changes, Fields
    <2>5. Changes(s, t, {"sr", "cipher", "hit", "session", "ccs_ok", "handshake_hash", "ticket_expected",
                         "status_expected", "handshake_transcript", "state"})
        BY <2>2, <2>3 DEF Changes
    <2> QED BY <1>4, <2>2, <2>3, <2>4, <2>5 DEF t
<1> QED BY <1>1, <1>2, <1>3, <1>4

LEMMA HelloVerifySheet ==
    ASSUME NEW s, NEW m, DOMAIN s = Fields
    PROVE  LET t == ssl3_get_dtls_hello_verify(s, m)
           IN  /\ m.mt = "HelloVerifyRequest" =>
                    /\ Changes(s, t, {"state", "ccs_ok", "send_cookie"})
                    /\ t.send_cookie /\ (t.ccs_ok => s.ccs_ok) /\ t.state = "CW_CLNT_HELLO"
               /\ m.mt # "HelloVerifyRequest" =>
                    /\ Changes(s, t, {"state", "ccs_ok", "send_cookie", "reuse_message"})
                    /\ ~t.send_cookie /\ (t.ccs_ok => s.ccs_ok) /\ t.state = "CR_CERT"
                    /\ t.reuse_message = Some(m)
    BY DEF ssl3_get_dtls_hello_verify, Changes, Goto, Reuse, Fields, AllowsCcs

LEMMA ServerCertificateSheet ==
    ASSUME NEW s, NEW m, DOMAIN s = Fields, DOMAIN s.session = SessionFields
    PROVE  LET t == ssl3_get_server_certificate(s, m)
           IN  \/ Fails(s, t)
               \/ /\ Changes(s, t, {"state", "ccs_ok", "reuse_message"}) /\ t.reuse_message = Some(m)
                  /\ m.mt = "ServerKeyExchange"
                  /\ t.state \in {"CR_CERT_STATUS", "CR_KEY_EXCH"} /\ (t.ccs_ok => s.ccs_ok)
               \/ /\ Changes(s, t, {"state", "ccs_ok", "session"})
                  /\ m.mt = "Certificate"
                  /\ t.session = [s.session EXCEPT !.peer = TRUE]
                  /\ t.state \in {"CR_CERT_STATUS", "CR_KEY_EXCH"} /\ (t.ccs_ok => s.ccs_ok)
<1>1. CASE m.mt = "ServerKeyExchange"
    BY <1>1 DEF ssl3_get_server_certificate, Changes, Goto, Reuse, Fields, AllowsCcs
<1>2. CASE m.mt = "Certificate"
    BY <1>2 DEF ssl3_get_server_certificate, Changes, Goto, Reuse, Fields, AllowsCcs
<1>3. CASE m.mt \notin {"ServerKeyExchange", "Certificate"}
    BY <1>3, AbortSheet DEF ssl3_get_server_certificate
<1> QED BY <1>1, <1>2, <1>3

LEMMA SkipServerCertificateSheet ==
    ASSUME NEW s, DOMAIN s = Fields
    PROVE  LET t == SkipServerCertificate(s)
           IN  Changes(s, t, {"state", "ccs_ok"}) /\ t.state = "CR_KEY_EXCH" /\ (t.ccs_ok => s.ccs_ok)
    BY DEF SkipServerCertificate, Changes, Goto, Fields, AllowsCcs

LEMMA CertStatusSheet ==
    ASSUME NEW s, NEW m, DOMAIN s = Fields
    PROVE  LET t == ssl3_get_cert_status(s, m)
           IN  \/ Fails(s, t)
               \/ /\ Changes(s, t, {"state", "ccs_ok", "reuse_message"}) /\ t.state = "CR_KEY_EXCH" /\ (t.ccs_ok => s.ccs_ok)
                  /\ \/ m.mt = "ServerKeyExchange" /\ t.reuse_message = Some(m)
                     \/ m.mt = "CertificateStatus" /\ t.reuse_message = s.reuse_message
<1>1. CASE m.mt = "ServerKeyExchange"
    BY <1>1 DEF ssl3_get_cert_status, Changes, Goto, Reuse, Fields, AllowsCcs
<1>2. CASE m.mt = "CertificateStatus"
    BY <1>2 DEF ssl3_get_cert_status, Changes, Goto, Reuse, Fields, AllowsCcs
<1>3. CASE m.mt \notin {"ServerKeyExchange", "CertificateStatus"}
    BY <1>3, AbortSheet DEF ssl3_get_cert_status
<1> QED BY <1>1, <1>2, <1>3

LEMMA ServerKeyExchangeSheet ==
    ASSUME NEW s, NEW m, DOMAIN s = Fields
    PROVE  LET t == ssl3_get_server_key_exchange(s, m)
           IN  \/ Fails(s, t)
               \/ /\ Changes(s, t, {"state", "ccs_ok", "reuse_message"}) /\ t.state = "CR_CERT_REQ"
                  /\ t.ccs_ok => s.ccs_ok
                  /\ t.reuse_message \in {Some(m), s.reuse_message}
                  /\ Anonymous \/ s.session.peer
                  /\ t.reuse_message = IF Ephemeral THEN s.reuse_message ELSE Some(m)
                  /\ (m.mt = "ServerKeyExchange") = Ephemeral
<1>1. CASE ssl3_get_server_key_exchange(s, m) = Abort(s)
    BY <1>1, AbortSheet
<1>2. CASE ~(\/ (m.mt = "ServerKeyExchange") # Ephemeral
             \/ m.mt = "ServerKeyExchange" /\ ~KeyExchangeSigned(s, m)
             \/ ~ssl3_check_cert_and_algorithm(s))
    BY <1>2 DEF ssl3_get_server_key_exchange, Changes, Goto, Reuse, Fields, AllowsCcs, ssl3_check_cert_and_algorithm
<1> QED BY <1>1, <1>2 DEF ssl3_get_server_key_exchange

LEMMA CertificateRequestSheet ==
    ASSUME NEW s, NEW m, DOMAIN s = Fields
    PROVE  LET t == ssl3_get_certificate_request(s, m)
           IN  \/ Fails(s, t)
               \/ /\ m.mt = "ServerDone" /\ t.reuse_message = Some(m) /\ t.handshake_transcript = Null
                  /\ Changes(s, t, {"state", "ccs_ok", "reuse_message", "handshake_transcript", "cert_request"})
                  /\ t.state = "CR_SRVR_DONE" /\ (t.ccs_ok => s.ccs_ok) /\ t.cert_request = 0
               \/ /\ m.mt = "CertificateRequest" /\ ~Anonymous
                  /\ Changes(s, t, {"state", "ccs_ok", "cert_request"})
                  /\ t.state = "CR_SRVR_DONE" /\ (t.ccs_ok => s.ccs_ok) /\ t.cert_request = 1
<1>1. CASE m.mt = "ServerDone"
    BY <1>1 DEF ssl3_get_certificate_request, Changes, Goto, Reuse, Fields, AllowsCcs, tls1_transcript_free
<1>2. CASE m.mt = "CertificateRequest" /\ ~Anonymous
    BY <1>2 DEF ssl3_get_certificate_request, Changes, Goto, Fields, AllowsCcs
<1>3. CASE m.mt # "ServerDone" /\ (m.mt # "CertificateRequest" \/ Anonymous)
    BY <1>3, AbortSheet DEF ssl3_get_certificate_request
<1> QED BY <1>1, <1>2, <1>3

LEMMA ServerDoneSheet ==
    ASSUME NEW s, NEW m, DOMAIN s = Fields
    PROVE  LET t == ssl3_get_server_done(s, m)
           IN  \/ Fails(s, t)
               \/ /\ Changes(s, t, {"state", "ccs_ok"}) /\ t.state \in {"CW_CERT", "CW_KEY_EXCH"}
                  /\ (t.ccs_ok => s.ccs_ok) /\ m.mt = "ServerDone"
<1>1. CASE m.mt = "ServerDone"
    BY <1>1 DEF ssl3_get_server_done, Changes, Goto, Fields, AllowsCcs
<1>2. CASE m.mt # "ServerDone"
    BY <1>2, AbortSheet DEF ssl3_get_server_done
<1> QED BY <1>1, <1>2

LEMMA ClientCertificateSheet ==
    ASSUME NEW s, DOMAIN s = Fields
    PROVE  LET t == ssl3_send_client_certificate(s)
           IN  /\ Changes(s, t, {"state", "ccs_ok", "wbuf", "handshake_hash", "handshake_transcript", "cert_request"})
               /\ t.state = "CW_KEY_EXCH" /\ (t.ccs_ok => s.ccs_ok) /\ t.cert_request \in {2, s.cert_request}
               /\ \E chain \in BOOLEAN :
                    /\ Sent(s, t, Certificate(chain))
                    /\ t.handshake_hash = Hashed(s.handshake_hash, Certificate(chain))
<1>1. CASE cfg.clientCert
    BY <1>1 DEF ssl3_send_client_certificate, Changes, Goto, Fields, AllowsCcs, Send, Write, tls1_transcript_record,
        Sent, Hashed, WireRecord
<1>2. CASE ~cfg.clientCert
    BY <1>2 DEF ssl3_send_client_certificate, Changes, Goto, Fields, AllowsCcs, Send, Write, tls1_transcript_record,
        Sent, Hashed, WireRecord, tls1_transcript_free
<1> QED BY <1>1, <1>2

LEMMA ClientKeyExchangeSheet ==
    ASSUME NEW s, DOMAIN s = Fields
    PROVE  LET t == ssl3_send_client_key_exchange(s)
               m == Message("ClientKeyExchange", [pre |-> s.n])
           IN  /\ Changes(s, t, {"state", "ccs_ok", "wbuf", "handshake_hash", "handshake_transcript", "session",
                                 "change_cipher_spec"})
               /\ t.state = IF s.cert_request = 1 THEN "CW_CERT_VRFY" ELSE "CW_CHANGE"
               /\ t.ccs_ok => s.ccs_ok
               /\ s.cert_request # 1 => ~t.change_cipher_spec
               /\ s.cert_request = 1 => t.change_cipher_spec = s.change_cipher_spec
               /\ t.session = [s.session EXCEPT !.master = <<s.n, s.cr, s.sr>>]
               /\ Sent(s, t, m) /\ t.handshake_hash = Hashed(s.handshake_hash, m)
<1>1. CASE s.cert_request = 1
    BY <1>1, ZenonT(60) DEF ssl3_send_client_key_exchange, Changes, Goto, Fields, AllowsCcs, Send, Write, tls1_transcript_record,
        Sent, Hashed, WireRecord, tls12_derive_master_secret
<1>2. CASE s.cert_request # 1
    BY <1>2, ZenonT(60) DEF ssl3_send_client_key_exchange, Changes, Goto, Fields, AllowsCcs, Send, Write, tls1_transcript_record,
        Sent, Hashed, WireRecord, tls12_derive_master_secret
<1> QED BY <1>1, <1>2

LEMMA ClientVerifySheet ==
    ASSUME NEW s, DOMAIN s = Fields
    PROVE  LET t == ssl3_send_client_verify(s)
           IN  \/ Fails(s, t)
               \/ /\ Changes(s, t, {"state", "ccs_ok", "wbuf", "handshake_hash", "handshake_transcript",
                                    "change_cipher_spec"})
                  /\ t.state = "CW_CHANGE" /\ (t.ccs_ok => s.ccs_ok) /\ ~t.change_cipher_spec
                  /\ t.handshake_transcript = Null
                  /\ \E signed :
                        LET m == Message("CertificateVerify", [signed |-> signed])
                        IN  Sent(s, t, m) /\ t.handshake_hash = Hashed(s.handshake_hash, m)
<1> DEFINE signed == IF cfg.sigalgs THEN s.handshake_transcript ELSE s.handshake_hash
<1>1. CASE signed = Null
    BY <1>1, DieSheet DEF ssl3_send_client_verify
<1>2. CASE signed # Null
    <2> DEFINE u == Goto([Send(tls1_transcript_free(s), Message("CertificateVerify", [signed |-> signed])) EXCEPT
                            !.change_cipher_spec = FALSE], "CW_CHANGE")
    <2>1. ssl3_send_client_verify(s) = u
        BY <1>2 DEF ssl3_send_client_verify
    <2> HIDE DEF signed
    <2>2. /\ Changes(s, u, {"state", "ccs_ok", "wbuf", "handshake_hash", "handshake_transcript", "change_cipher_spec"})
          /\ u.state = "CW_CHANGE" /\ (u.ccs_ok => s.ccs_ok) /\ ~u.change_cipher_spec
          /\ u.handshake_transcript = Null
        BY DEF Changes, Goto, Fields, AllowsCcs, Send, Write, tls1_transcript_record, tls1_transcript_free, Null
    <2>3. LET m == Message("CertificateVerify", [signed |-> signed])
          IN  Sent(s, u, m) /\ u.handshake_hash = Hashed(s.handshake_hash, m)
        BY DEF Goto, Fields, Send, Write, tls1_transcript_record, tls1_transcript_free, Sent, Hashed, WireRecord
    <2> HIDE DEF u
    <2> QED BY <2>1, <2>2, <2>3
<1> QED BY <1>1, <1>2

LEMMA ChangeCipherSpecSheet ==
    ASSUME NEW s, NEW state, DOMAIN s = Fields
    PROVE  LET t == SendChangeCipherSpec(s, state)
           IN  /\ Changes(s, t, {"state", "wbuf", "key_block", "wkey"})
               /\ t.state = state /\ t.wbuf = Append(s.wbuf, WireRecord(s, "ccs", NoMessage))
               /\ t.key_block = IF s.key_block = Null THEN Keys(s) ELSE s.key_block
               /\ t.wkey = <<s.who>> \o t.key_block
    BY DEF SendChangeCipherSpec, Changes, Fields, tls1_change_write_cipher_state, tls1_setup_key_block, Keys, Write

LEMMA SendFinishedSheet ==
    ASSUME NEW s, DOMAIN s = Fields, s.who \in Endpoint
    PROVE  LET t == SendFinished(s)
               m == VerifyData(s, s.who)
           IN  /\ Changes(s, t, {"wbuf", "handshake_hash", "handshake_transcript", "previous_client_finished",
                                 "previous_server_finished"})
               /\ Sent(s, t, m) /\ t.handshake_hash = Hashed(s.handshake_hash, m)
               /\ s.handshake_transcript = Null => t.handshake_transcript = Null
               /\ s.who = "client" => /\ t.previous_client_finished = Some(m)
                                      /\ t.previous_server_finished = s.previous_server_finished
               /\ s.who = "server" => /\ t.previous_server_finished = Some(m)
                                      /\ t.previous_client_finished = s.previous_client_finished
<1> DEFINE m == VerifyData(s, s.who)
           u == Remember(s, s.who, m)
           t == SendFinished(s)
<1>1. t = Send(u, m)
    BY DEF SendFinished
<1> HIDE DEF m
<1>2. /\ Changes(s, u, {"previous_client_finished", "previous_server_finished"})
      /\ s.who = "client" => /\ u.previous_client_finished = Some(m)
                             /\ u.previous_server_finished = s.previous_server_finished
      /\ s.who = "server" => /\ u.previous_server_finished = Some(m)
                             /\ u.previous_client_finished = s.previous_client_finished
    <2>1. CASE s.who = "client"
        BY <2>1 DEF Remember, Changes, Fields
    <2>2. CASE s.who = "server"
        BY <2>2 DEF Remember, Changes, Fields
    <2> QED BY <2>1, <2>2 DEF Endpoint
<1> HIDE DEF u, t
<1>3. /\ DOMAIN u = Fields /\ u.handshake_hash = s.handshake_hash /\ u.wbuf = s.wbuf /\ u.wkey = s.wkey
      /\ u.handshake_transcript = s.handshake_transcript
    BY <1>2 DEF Changes, Fields
<1>4. /\ Changes(u, t, {"wbuf", "handshake_hash", "handshake_transcript"})
      /\ Sent(u, t, m) /\ t.handshake_hash = Hashed(u.handshake_hash, m) /\ t.handshake_transcript = Kept(u, m)
    BY <1>1, <1>3, SendSheet
<1>5. /\ t.previous_client_finished = u.previous_client_finished
      /\ t.previous_server_finished = u.previous_server_finished
    BY <1>4 DEF Changes, Fields
<1>6. Changes(s, t, {"wbuf", "handshake_hash", "handshake_transcript", "previous_client_finished",
                     "previous_server_finished"})
    BY <1>2, <1>4 DEF Changes
<1>7. Sent(s, t, m) /\ t.handshake_hash = Hashed(s.handshake_hash, m)
    BY <1>3, <1>4 DEF Sent, WireRecord
<1>8. s.handshake_transcript = Null => t.handshake_transcript = Null
    BY <1>3, <1>4 DEF Kept, Hashed
<1>9. /\ s.who = "client" => /\ t.previous_client_finished = Some(m)
                             /\ t.previous_server_finished = s.previous_server_finished
      /\ s.who = "server" => /\ t.previous_server_finished = Some(m)
                             /\ t.previous_client_finished = s.previous_client_finished
    BY <1>2, <1>5
<1> QED BY <1>6, <1>7, <1>8, <1>9 DEF t, m

LEMMA ClientFinishedSheet ==
    ASSUME NEW s, DOMAIN s = Fields, s.who = "client"
    PROVE  LET t == ssl3_send_client_finished(s)
               m == VerifyData(s, "client")
           IN  /\ Changes(s, t, {"wbuf", "handshake_hash", "handshake_transcript", "previous_client_finished", "ccs_ok",
                                 "state", "next_state"})
               /\ Sent(s, t, m) /\ t.handshake_hash = Hashed(s.handshake_hash, m)
               /\ t.previous_client_finished = Some(m)
               /\ t.state = "FLUSH"
               /\ t.next_state = IF s.hit THEN "ST_OK" ELSE IF s.ticket_expected THEN "CR_SESSION_TICKET" ELSE "CR_FINISHED"
<1> DEFINE u == SendFinished(s)
           t == ssl3_send_client_finished(s)
<1>1. s.who \in Endpoint BY DEF Endpoint
<1> HIDE DEF u
<1>2. /\ Changes(u, t, {"ccs_ok", "state", "next_state"}) /\ t.state = "FLUSH"
      /\ t.next_state = IF s.hit THEN "ST_OK" ELSE IF s.ticket_expected THEN "CR_SESSION_TICKET" ELSE "CR_FINISHED"
    <2>1. DOMAIN u = Fields BY <1>1, SendFinishedSheet DEF u, Changes
    <2>2. t = Flush([u EXCEPT !.ccs_ok = @ \/ ~cfg.dtls],
                    IF s.hit THEN "ST_OK" ELSE IF s.ticket_expected THEN "CR_SESSION_TICKET" ELSE "CR_FINISHED")
        BY DEF ssl3_send_client_finished, u
    <2> QED BY <2>1, <2>2 DEF Changes, Fields, Flush
<1> HIDE DEF t
<1>3. /\ t.wbuf = u.wbuf /\ t.handshake_hash = u.handshake_hash
      /\ t.previous_client_finished = u.previous_client_finished
      /\ t.previous_server_finished = u.previous_server_finished
    BY <1>2 DEF Changes, Fields
<1>4. /\ Changes(s, u, {"wbuf", "handshake_hash", "handshake_transcript", "previous_client_finished",
                        "previous_server_finished"})
      /\ Sent(s, u, VerifyData(s, "client")) /\ u.handshake_hash = Hashed(s.handshake_hash, VerifyData(s, "client"))
      /\ u.previous_client_finished = Some(VerifyData(s, "client"))
      /\ u.previous_server_finished = s.previous_server_finished
    BY <1>1, SendFinishedSheet DEF u
<1>5. Changes(s, t, {"wbuf", "handshake_hash", "handshake_transcript", "previous_client_finished", "ccs_ok",
                     "state", "next_state"})
    BY <1>2, <1>3, <1>4 DEF Changes
<1> QED BY <1>2, <1>3, <1>4, <1>5 DEF t, Sent

LEMMA NewSessionTicketSheet ==
    ASSUME NEW s, NEW m, DOMAIN s = Fields, DOMAIN s.session = SessionFields
    PROVE  LET t == ssl3_get_new_session_ticket(s, m)
           IN  \/ Fails(s, t)
               \/ /\ m.mt = "Finished" /\ t.reuse_message = Some(m) /\ t.state = "CR_FINISHED"
                  /\ Changes(s, t, {"state", "ccs_ok", "reuse_message"})
               \/ /\ m.mt = "NewSessionTicket" /\ t.state = "CR_FINISHED"
                  /\ Changes(s, t, {"state", "ccs_ok", "session"})
                  /\ DOMAIN t.session = SessionFields
                  /\ t.session.tick = Some(m.body) /\ t.session.id = <<"tk", m.body.n>>
                  /\ t.session.master = s.session.master /\ t.session.peer = s.session.peer
                  /\ t.session.proved = s.session.proved
<1>1. CASE m.mt = "Finished"
    BY <1>1 DEF ssl3_get_new_session_ticket, Changes, Goto, Reuse, Fields
<1>2. CASE m.mt = "NewSessionTicket"
    BY <1>2 DEF ssl3_get_new_session_ticket, Changes, Goto, Reuse, Fields, SessionFields
<1>3. CASE m.mt \notin {"Finished", "NewSessionTicket"}
    BY <1>3, AbortSheet DEF ssl3_get_new_session_ticket
<1> QED BY <1>1, <1>2, <1>3

LEMMA GetFinishedSheet ==
    ASSUME NEW s, NEW m, NEW state, DOMAIN s = Fields, s.who \in Endpoint
    PROVE  LET t == GetFinished(s, m, state)
           IN  \/ Fails(s, t)
               \/ /\ FinishedIsRight(s, m)
                  /\ Changes(s, t, {"change_cipher_spec", "state",
                                    IF s.who = "client" THEN "previous_server_finished" ELSE "previous_client_finished"})
                  /\ s.who = "client" => t.previous_server_finished = Some(m)
                  /\ s.who = "server" => t.previous_client_finished = Some(m)
                  /\ ~t.change_cipher_spec /\ t.state = state
<1>1. CASE ~FinishedIsRight(s, m)
    BY <1>1, AbortSheet DEF GetFinished
<1>2. CASE FinishedIsRight(s, m)
    <2>1. CASE s.who = "client"
        BY <1>2, <2>1 DEF GetFinished, Remember, Changes, Fields, Peer
    <2>2. CASE s.who = "server"
        BY <1>2, <2>2 DEF GetFinished, Remember, Changes, Fields, Peer
    <2> QED BY <2>1, <2>2 DEF Endpoint
<1> QED BY <1>1, <1>2

LEMMA ConnectedSheet ==
    ASSUME NEW s, DOMAIN s = Fields
    PROVE  LET t == Connected(s)
           IN  \/ Fails(s, t)
               \/ /\ Changes(s, t, {"state", "key_block", "bbio", "wbuf", "renegotiate", "new_session", "done"})
                  /\ s.handshake_transcript = Null
                  /\ t.state = "Established" /\ t.key_block = Null /\ ~t.bbio /\ t.wbuf = << >>
                  /\ t.renegotiate = 0 /\ ~t.new_session /\ t.done = s.done + 1
<1>1. CASE s.handshake_transcript # Null
    BY <1>1, DieSheet DEF Connected
<1>2. CASE s.handshake_transcript = Null
    BY <1>2 DEF Connected, Changes, Fields
<1> QED BY <1>1, <1>2

(* The server. *)

LEMMA AcceptSheet ==
    ASSUME NEW s, DOMAIN s = Fields
    PROVE  LET t == Accept(s)
           IN  \/ Fails(s, t)
               \/ /\ s.state = "RENEGOTIATE" /\ Changes(s, t, {"renegotiate", "state"})
                  /\ t.renegotiate = 1 /\ t.state = "SW_HELLO_REQ"
               \/ /\ s.state # "RENEGOTIATE" /\ Changes(s, t, {"handshake_transcript", "frozen", "state", "n", "bbio"})
                  /\ s.handshake_transcript = Null
                  /\ t.handshake_transcript = Some(<< >>) /\ ~t.frozen /\ t.state = "SR_CLNT_HELLO"
                  /\ t.n = s.n + 1 /\ t.bbio
<1>1. CASE s.state = "RENEGOTIATE"
    BY <1>1 DEF Accept, Changes, Fields
<1>2. CASE s.state # "RENEGOTIATE" /\ s.handshake_transcript # Null
    BY <1>2, DieSheet DEF Accept
<1>3. CASE s.state # "RENEGOTIATE" /\ s.handshake_transcript = Null
    BY <1>3 DEF Accept, Changes, Fields, tls1_transcript_reset
<1> QED BY <1>1, <1>2, <1>3

LEMMA HelloRequestSheet ==
    ASSUME NEW s, DOMAIN s = Fields
    PROVE  LET t == ssl3_send_hello_request(s)
           IN  /\ Changes(s, t, {"wbuf", "state", "next_state"})
               /\ t.state = "FLUSH" /\ t.next_state = "ST_OK"
               /\ Sent(s, t, Message("HelloRequest", [none |-> TRUE]))
    BY DEF ssl3_send_hello_request, Changes, Fields, Flush, Write, Sent

LEMMA ChooseSessionSheet ==
    ASSUME NEW s, NEW m, DOMAIN s = Fields
    PROVE  LET t == ChooseSession(s, m)
           IN  /\ Changes(s, t, {"ticket_expected", "hit", "session"}) /\ t.hit \in BOOLEAN
               /\ \/ ~t.hit /\ t.session = [NoSession EXCEPT !.id = IF t.ticket_expected THEN Null ELSE <<"id", s.n>>]
                  \/ t.hit /\ PreviousSessions(m) # {} /\ t.session = (CHOOSE session \in PreviousSessions(m) : TRUE)
<1>1. CASE s.new_session /\ cfg.noResume
    BY <1>1 DEF ChooseSession, Changes, Fields, NewServerSession
<1>2. CASE ~(s.new_session /\ cfg.noResume) /\ PreviousSessions(m) = {}
    BY <1>2 DEF ChooseSession, Changes, Fields, NewServerSession
<1>3. CASE ~(s.new_session /\ cfg.noResume) /\ PreviousSessions(m) # {}
    BY <1>3 DEF ChooseSession, Changes, Fields, NewServerSession
<1> QED BY <1>1, <1>2, <1>3

LEMMA GetClientHelloSheet ==
    ASSUME NEW s, NEW m, DOMAIN s = Fields
    PROVE  LET t == ssl3_get_client_hello(s, m)
           IN  \/ Fails(s, t)
               \/ /\ m.mt = "ClientHello" /\ cfg.dtls /\ ~m.body.cookie
                  /\ Changes(s, t, {"state", "ccs_ok"}) /\ t.state = "SW_HELLO_VERIFY" /\ (t.ccs_ok => s.ccs_ok)
               \/ /\ m.mt = "ClientHello" /\ tlsext_ri_server_process(s, m)
                  /\ Changes(s, t, {"cr", "sr", "cipher", "ticket_expected", "hit", "session", "handshake_hash",
                                    "status_expected", "renegotiate", "handshake_transcript", "state", "ccs_ok"})
                  /\ t.state = "SW_SRVR_HELLO" /\ (t.ccs_ok => s.ccs_ok)
                  /\ t.cr = m.body.cr /\ t.sr = s.n /\ t.cipher /\ t.handshake_hash = s.handshake_transcript
                  /\ \/ ~t.hit /\ t.session = [NoSession EXCEPT !.id = IF t.ticket_expected THEN Null ELSE <<"id", s.n>>]
                     \/ t.hit /\ PreviousSessions(m) # {} /\ t.session = (CHOOSE session \in PreviousSessions(m) : TRUE)
                  /\ t.renegotiate \in {2, s.renegotiate} /\ t.hit \in BOOLEAN
<1> DEFINE t == ssl3_get_client_hello(s, m)
<1>1. CASE m.mt # "ClientHello"
    BY <1>1, AbortSheet DEF ssl3_get_client_hello
<1>2. CASE m.mt = "ClientHello" /\ cfg.dtls /\ cfg.cookies /\ ~m.body.cookie
    BY <1>2 DEF ssl3_get_client_hello, Changes, Fields, Goto, AllowsCcs
<1>3. CASE m.mt = "ClientHello" /\ ~(cfg.dtls /\ cfg.cookies /\ ~m.body.cookie) /\ ~tlsext_ri_server_process(s, m)
    BY <1>3, AbortSheet DEF ssl3_get_client_hello
<1>4. CASE m.mt = "ClientHello" /\ ~(cfg.dtls /\ cfg.cookies /\ ~m.body.cookie) /\ tlsext_ri_server_process(s, m)
    <2> DEFINE r == [s EXCEPT !.cr = m.body.cr]
               u == ChooseSession(r, m)
               v == [u EXCEPT !.sr = s.n, !.cipher = TRUE, !.handshake_hash = s.handshake_transcript,
                              !.status_expected = cfg.status /\ ~Anonymous,
                              !.renegotiate = IF cfg.dtls THEN @ ELSE 2]
    <2>1. t = Goto(IF cfg.sigalgs /\ Verifies("peer") THEN v ELSE tls1_transcript_free(v), "SW_SRVR_HELLO")
        BY <1>4 DEF ssl3_get_client_hello
    <2>2. Changes(s, r, {"cr"}) /\ r.cr = m.body.cr /\ DOMAIN r = Fields
        BY DEF Changes, Fields
    <2> HIDE DEF r
    <2>3. /\ Changes(r, u, {"ticket_expected", "hit", "session"}) /\ u.hit \in BOOLEAN
          /\ \/ ~u.hit /\ u.session = [NoSession EXCEPT !.id = IF u.ticket_expected THEN Null ELSE <<"id", r.n>>]
             \/ u.hit /\ PreviousSessions(m) # {} /\ u.session = (CHOOSE session \in PreviousSessions(m) : TRUE)
        BY <2>2, ChooseSessionSheet DEF Changes
    <2> HIDE DEF u
    <2>4. /\ Changes(u, v, {"sr", "cipher", "handshake_hash", "status_expected", "renegotiate"})
          /\ v.sr = s.n /\ v.cipher /\ v.handshake_hash = s.handshake_transcript /\ v.renegotiate \in {2, u.renegotiate}
        BY <2>3 DEF Changes, Fields
    <2> HIDE DEF v, t
    <2>5. /\ Changes(v, t, {"handshake_transcript", "state", "ccs_ok"}) /\ t.state = "SW_SRVR_HELLO"
          /\ t.ccs_ok => v.ccs_ok
        BY <2>1, <2>4 DEF Changes, Fields, Goto, tls1_transcript_free, AllowsCcs
    <2>6. /\ t.cr = m.body.cr /\ t.sr = s.n /\ t.cipher /\ t.handshake_hash = s.handshake_transcript
          /\ t.hit = u.hit /\ t.session = u.session /\ t.ticket_expected = u.ticket_expected
          /\ v.ccs_ok = s.ccs_ok /\ r.n = s.n /\ u.renegotiate = s.renegotiate /\ t.renegotiate = v.renegotiate
        BY <2>2, <2>3, <2>4, <2>5 DEF Changes, Fields
    <2>7. Changes(s, t, {"cr", "sr", "cipher", "ticket_expected", "hit", "session", "handshake_hash",
                         "status_expected", "renegotiate", "handshake_transcript", "state", "ccs_ok"})
        BY <2>2, <2>3, <2>4, <2>5 DEF Changes
    <2> QED BY <1>4, <2>3, <2>4, <2>5, <2>6, <2>7 DEF t
<1> QED BY <1>1, <1>2, <1>3, <1>4

LEMMA VerifyRequestSheet ==
    ASSUME NEW s, DOMAIN s = Fields
    PROVE  LET t == ssl3_send_dtls_hello_verify_request(s)
           IN  /\ Changes(s, t, {"wbuf", "handshake_hash", "handshake_transcript", "frozen", "state", "next_state"})
               /\ Sent(s, t, Message("HelloVerifyRequest", [none |-> TRUE]))
               /\ t.handshake_transcript = Some(<< >>) /\ ~t.frozen
               /\ t.state = "FLUSH" /\ t.next_state = "SR_CLNT_HELLO"
    BY DEF ssl3_send_dtls_hello_verify_request, Changes, Fields, Flush, tls1_transcript_reset, Send, Write,
        tls1_transcript_record, Sent, WireRecord

LEMMA SendServerHelloSheet ==
    ASSUME NEW s, DOMAIN s = Fields
    PROVE  LET t == ssl3_send_server_hello(s)
           IN  /\ Changes(s, t, {"wbuf", "handshake_hash", "handshake_transcript", "renegotiate", "state", "ccs_ok"})
               /\ Sent(s, t, ServerHello(s)) /\ t.handshake_hash = Hashed(s.handshake_hash, ServerHello(s))
               /\ t.renegotiate \in {2, s.renegotiate} /\ (t.ccs_ok => s.ccs_ok)
               /\ ~s.hit => t.state = "SW_CERT"
               /\ s.hit => t.state = IF s.ticket_expected THEN "SW_SESSION_TICKET" ELSE "SW_CHANGE"
               /\ s.handshake_transcript = Null => t.handshake_transcript = Null
<1> DEFINE m == ServerHello(s)
           state == IF ~s.hit THEN "SW_CERT" ELSE IF s.ticket_expected THEN "SW_SESSION_TICKET" ELSE "SW_CHANGE"
<1>1. ssl3_send_server_hello(s) = Goto([Send(s, m) EXCEPT !.renegotiate = IF cfg.dtls THEN 2 ELSE @], state)
    BY DEF ssl3_send_server_hello
<1>2. state \notin AllowsCcs
    BY DEF AllowsCcs
<1> HIDE DEF m, state
<1> DEFINE u == Send(s, m)
           t == Goto([u EXCEPT !.renegotiate = IF cfg.dtls THEN 2 ELSE @], state)
<1>3. /\ Changes(s, u, {"wbuf", "handshake_hash", "handshake_transcript"})
      /\ Sent(s, u, m) /\ u.handshake_hash = Hashed(s.handshake_hash, m)
      /\ s.handshake_transcript = Null => u.handshake_transcript = Null
    BY DEF Changes, Fields, Send, Write, tls1_transcript_record, Sent, WireRecord, Hashed, Null
<1> HIDE DEF u
<1>4. /\ Changes(u, t, {"renegotiate", "state", "ccs_ok"}) /\ t.state = state
      /\ t.renegotiate \in {2, u.renegotiate} /\ (t.ccs_ok => u.ccs_ok)
    BY <1>2, <1>3 DEF Changes, Fields, Goto
<1>5. ssl3_send_server_hello(s) = t
    BY <1>1 DEF u
<1> HIDE DEF t
<1>6. /\ t.wbuf = u.wbuf /\ t.handshake_hash = u.handshake_hash /\ t.handshake_transcript = u.handshake_transcript
      /\ u.renegotiate = s.renegotiate /\ u.ccs_ok = s.ccs_ok
    BY <1>3, <1>4 DEF Changes, Fields
<1>7. Changes(s, t, {"wbuf", "handshake_hash", "handshake_transcript", "renegotiate", "state", "ccs_ok"})
    BY <1>3, <1>4 DEF Changes
<1>8. /\ Sent(s, t, m) /\ t.handshake_hash = Hashed(s.handshake_hash, m)
      /\ s.handshake_transcript = Null => t.handshake_transcript = Null
    BY <1>3, <1>6 DEF Sent
<1> QED BY <1>4, <1>5, <1>6, <1>7, <1>8 DEF m, state

(* A handshake message that the server sends, or does not. *)
SendsOr(s, t, m) ==
    \/ /\ Changes(s, t, {"state", "ccs_ok", "handshake_transcript", "wbuf", "handshake_hash", "cert_request"})
       /\ Sent(s, t, m) /\ t.handshake_hash = Hashed(s.handshake_hash, m)
    \/ Changes(s, t, {"state", "ccs_ok", "handshake_transcript", "cert_request"})

LEMMA SendCertificateSheet ==
    ASSUME NEW s, DOMAIN s = Fields
    PROVE  LET t == ssl3_send_server_certificate(s)
           IN  /\ SendsOr(s, t, Certificate(TRUE)) /\ (t.ccs_ok => s.ccs_ok) /\ t.cert_request = s.cert_request
               /\ t.state \in {"SW_KEY_EXCH", "SW_CERT_STATUS"}
<1>1. CASE Anonymous
    BY <1>1 DEF ssl3_send_server_certificate, Changes, Fields, Goto, AllowsCcs, SendsOr
<1>2. CASE ~Anonymous
    BY <1>2 DEF ssl3_send_server_certificate, Changes, Fields, Goto, AllowsCcs, SendsOr, Send, Write,
        tls1_transcript_record, Sent, WireRecord, Hashed, Null
<1> QED BY <1>1, <1>2

LEMMA SendCertStatusSheet ==
    ASSUME NEW s, DOMAIN s = Fields
    PROVE  LET t == ssl3_send_cert_status(s)
           IN  /\ SendsOr(s, t, Message("CertificateStatus", [none |-> TRUE])) /\ (t.ccs_ok => s.ccs_ok)
               /\ t.cert_request = s.cert_request
               /\ t.state = "SW_KEY_EXCH"
    BY DEF ssl3_send_cert_status, Changes, Fields, Goto, AllowsCcs, SendsOr, Send, Write,
        tls1_transcript_record, Sent, WireRecord, Hashed, Null

LEMMA SendKeyExchangeSheet ==
    ASSUME NEW s, DOMAIN s = Fields
    PROVE  LET t == ssl3_send_server_key_exchange(s)
           IN  /\ \E m : m.mt = "ServerKeyExchange" /\ SendsOr(s, t, m)
               /\ t.ccs_ok => s.ccs_ok
               /\ t.cert_request = s.cert_request
               /\ t.state = "SW_CERT_REQ"
<1> DEFINE signed == IF Anonymous THEN << >> ELSE <<s.cr, s.sr>>
           m == Message("ServerKeyExchange", [signed |-> signed])
<1>1. CASE ~Ephemeral
    <2>1. LET t == ssl3_send_server_key_exchange(s)
          IN  /\ Changes(s, t, {"state", "ccs_ok", "handshake_transcript", "cert_request"})
              /\ (t.ccs_ok => s.ccs_ok) /\ t.cert_request = s.cert_request /\ t.state = "SW_CERT_REQ"
        BY <1>1 DEF ssl3_send_server_key_exchange, Changes, Fields, Goto, AllowsCcs
    <2>2. m.mt = "ServerKeyExchange"
        BY DEF Message
    <2> QED BY <2>1, <2>2 DEF SendsOr
<1>2. CASE Ephemeral
    <2>1. ssl3_send_server_key_exchange(s) = Goto(Send(s, m), "SW_CERT_REQ")
        BY <1>2 DEF ssl3_send_server_key_exchange
    <2>4. m.mt = "ServerKeyExchange"
        BY DEF Message
    <2> HIDE DEF m
    <2>2. LET t == Goto(Send(s, m), "SW_CERT_REQ")
          IN  /\ Changes(s, t, {"state", "ccs_ok", "handshake_transcript", "wbuf", "handshake_hash", "cert_request"})
              /\ Sent(s, t, m) /\ t.handshake_hash = Hashed(s.handshake_hash, m)
              /\ (t.ccs_ok => s.ccs_ok) /\ t.cert_request = s.cert_request /\ t.state = "SW_CERT_REQ"
        BY DEF Changes, Fields, Goto, AllowsCcs, Send, Write, tls1_transcript_record, Sent, WireRecord, Hashed, Null
    <2>3. LET t == ssl3_send_server_key_exchange(s)
          IN  SendsOr(s, t, m) /\ (t.ccs_ok => s.ccs_ok) /\ t.cert_request = s.cert_request /\ t.state = "SW_CERT_REQ"
        BY <2>1, <2>2 DEF SendsOr
    <2> QED BY <2>3, <2>4
<1> QED BY <1>1, <1>2

LEMMA SendCertificateRequestSheet ==
    ASSUME NEW s, DOMAIN s = Fields
    PROVE  LET t == ssl3_send_certificate_request(s)
           IN  /\ SendsOr(s, t, Message("CertificateRequest", [none |-> TRUE])) /\ (t.ccs_ok => s.ccs_ok)
               /\ t.state = "SW_SRVR_DONE"
               /\ t.cert_request = IF NoRequest(s) THEN 0 ELSE 1
<1>1. CASE NoRequest(s)
    BY <1>1 DEF ssl3_send_certificate_request, Changes, Fields, Goto, AllowsCcs, SendsOr, tls1_transcript_free
<1>2. CASE ~NoRequest(s)
    BY <1>2 DEF ssl3_send_certificate_request, Changes, Fields, Goto, AllowsCcs, SendsOr, Send, Write,
        tls1_transcript_record, Sent, WireRecord, Hashed, Null
<1> QED BY <1>1, <1>2

LEMMA SendServerDoneSheet ==
    ASSUME NEW s, DOMAIN s = Fields
    PROVE  LET t == ssl3_send_server_done(s)
               m == Message("ServerDone", [none |-> TRUE])
           IN  /\ Changes(s, t, {"state", "next_state", "handshake_transcript", "wbuf", "handshake_hash"})
               /\ Sent(s, t, m) /\ t.handshake_hash = Hashed(s.handshake_hash, m)
               /\ t.state = "FLUSH" /\ t.next_state = "SR_CERT"
    BY DEF ssl3_send_server_done, Changes, Fields, Flush, SendsOr, Send, Write,
        tls1_transcript_record, Sent, WireRecord, Hashed, Null

LEMMA SkipClientCertificateSheet ==
    ASSUME NEW s, DOMAIN s = Fields
    PROVE  LET t == SkipClientCertificate(s)
           IN  Changes(s, t, {"state", "ccs_ok"}) /\ t.state = "SR_KEY_EXCH" /\ (t.ccs_ok => s.ccs_ok)
    BY DEF SkipClientCertificate, Changes, Goto, Fields, AllowsCcs

LEMMA GetClientCertificateSheet ==
    ASSUME NEW s, NEW m, DOMAIN s = Fields, DOMAIN s.session = SessionFields
    PROVE  LET t == ssl3_get_client_certificate(s, m)
           IN  \/ Fails(s, t)
               \/ /\ m.mt = "Certificate" /\ (~m.body.chain => ~Verifies("fail"))
                  /\ Changes(s, t, {"state", "ccs_ok", "session", "handshake_transcript"}) /\ t.state = "SR_KEY_EXCH"
                  /\ t.ccs_ok => s.ccs_ok
                  /\ t.session = IF m.body.chain THEN [s.session EXCEPT !.peer = TRUE] ELSE s.session
<1>1. CASE m.mt # "Certificate" \/ (~m.body.chain /\ Verifies("fail"))
    BY <1>1, AbortSheet DEF ssl3_get_client_certificate
<1>2. CASE m.mt = "Certificate" /\ ~(~m.body.chain /\ Verifies("fail"))
    BY <1>2 DEF ssl3_get_client_certificate, Changes, Goto, Fields, AllowsCcs, tls1_transcript_free
<1> QED BY <1>1, <1>2

LEMMA GetClientKeyExchangeSheet ==
    ASSUME NEW s, NEW m, DOMAIN s = Fields, DOMAIN s.session = SessionFields
    PROVE  LET t == ssl3_get_client_key_exchange(s, m)
           IN  \/ Fails(s, t)
               \/ /\ m.mt = "ClientKeyExchange"
                  /\ Changes(s, t, {"state", "ccs_ok", "session", "handshake_transcript", "frozen", "cert_verify"})
                  /\ t.state = "SR_CERT_VRFY"
                  /\ t.session = [s.session EXCEPT !.master = <<m.body.pre, s.cr, s.sr>>]
<1>1. CASE m.mt # "ClientKeyExchange"
    BY <1>1, AbortSheet DEF ssl3_get_client_key_exchange
<1>2. CASE m.mt = "ClientKeyExchange"
    BY <1>2 DEF ssl3_get_client_key_exchange, Changes, Goto, Fields, tls1_transcript_free, tls1_transcript_freeze,
        tls12_derive_master_secret
<1> QED BY <1>1, <1>2

LEMMA GetCertVerifySheet ==
    ASSUME NEW s, NEW m, DOMAIN s = Fields, DOMAIN s.session = SessionFields
    PROVE  LET t == ssl3_get_cert_verify(s, m)
           IN  \/ Fails(s, t)
               \/ /\ m.mt # "CertificateVerify" /\ ~s.session.peer
                  /\ Changes(s, t, {"state", "ccs_ok", "handshake_transcript", "reuse_message"})
                  /\ t.state = "SR_FINISHED" /\ t.reuse_message = Some(m)
               \/ /\ m.mt = "CertificateVerify" /\ s.session.peer /\ ~s.change_cipher_spec
                  /\ Changes(s, t, {"state", "ccs_ok", "handshake_transcript", "session"})
                  /\ t.state = "SR_FINISHED" /\ t.session = [s.session EXCEPT !.proved = TRUE]
<1>1. CASE m.mt # "CertificateVerify" /\ s.session.peer
    BY <1>1, AbortSheet DEF ssl3_get_cert_verify
<1>2. CASE m.mt # "CertificateVerify" /\ ~s.session.peer
    BY <1>2 DEF ssl3_get_cert_verify, Changes, Goto, Fields, tls1_transcript_free, Reuse
<1>3. CASE m.mt = "CertificateVerify" /\ (~s.session.peer \/ s.change_cipher_spec \/ ~SignatureIsRight(s, m))
    BY <1>3, AbortSheet DEF ssl3_get_cert_verify
<1>4. CASE m.mt = "CertificateVerify" /\ ~(~s.session.peer \/ s.change_cipher_spec \/ ~SignatureIsRight(s, m))
    BY <1>4 DEF ssl3_get_cert_verify, Changes, Goto, Fields, tls1_transcript_free
<1> QED BY <1>1, <1>2, <1>3, <1>4

LEMMA SendNewSessionTicketSheet ==
    ASSUME NEW s, DOMAIN s = Fields
    PROVE  LET t == ssl3_send_newsession_ticket(s)
               m == Message("NewSessionTicket", Ticket(s.n, s.session))
           IN  /\ Changes(s, t, {"state", "ccs_ok", "wbuf", "handshake_hash", "handshake_transcript"})
               /\ Sent(s, t, m) /\ t.handshake_hash = Hashed(s.handshake_hash, m)
               /\ t.state = "SW_CHANGE" /\ (t.ccs_ok => s.ccs_ok)
<1> DEFINE m == Message("NewSessionTicket", Ticket(s.n, s.session))
<1>1. ssl3_send_newsession_ticket(s) = Goto(Send(s, m), "SW_CHANGE")
    BY DEF ssl3_send_newsession_ticket
<1> HIDE DEF m
<1> DEFINE u == Send(s, m)
           t == ssl3_send_newsession_ticket(s)
<1>2. /\ Changes(s, u, {"wbuf", "handshake_hash", "handshake_transcript"})
      /\ Sent(s, u, m) /\ u.handshake_hash = Hashed(s.handshake_hash, m)
    BY SendSheet
<1> HIDE DEF u
<1>3. /\ Changes(u, t, {"state", "ccs_ok"}) /\ t.state = "SW_CHANGE" /\ (t.ccs_ok => u.ccs_ok)
    <2>1. DOMAIN u = Fields /\ t = Goto(u, "SW_CHANGE")
        BY <1>1, <1>2 DEF Changes, u
    <2> QED BY <2>1 DEF Goto, AllowsCcs, Changes, Fields
<1> HIDE DEF t
<1>4. t.wbuf = u.wbuf /\ t.handshake_hash = u.handshake_hash /\ u.ccs_ok = s.ccs_ok
    BY <1>2, <1>3 DEF Changes, Fields
<1>5. Changes(s, t, {"state", "ccs_ok", "wbuf", "handshake_hash", "handshake_transcript"})
    BY <1>2, <1>3 DEF Changes
<1> QED BY <1>2, <1>3, <1>4, <1>5 DEF Sent, m, t

LEMMA ServerFinishedSheet ==
    ASSUME NEW s, DOMAIN s = Fields, s.who = "server"
    PROVE  LET t == ssl3_send_server_finished(s)
               m == VerifyData(s, "server")
           IN  /\ Changes(s, t, {"wbuf", "handshake_hash", "handshake_transcript", "previous_server_finished",
                                 "state", "next_state"})
               /\ Sent(s, t, m) /\ t.handshake_hash = Hashed(s.handshake_hash, m)
               /\ t.previous_server_finished = Some(m)
               /\ t.state = "FLUSH" /\ t.next_state = IF s.hit THEN "SR_FINISHED" ELSE "ST_OK"
<1> DEFINE u == SendFinished(s)
           t == ssl3_send_server_finished(s)
<1>1. s.who \in Endpoint BY DEF Endpoint
<1> HIDE DEF u
<1>2. /\ Changes(u, t, {"handshake_transcript", "state", "next_state"}) /\ t.state = "FLUSH"
      /\ t.next_state = IF s.hit THEN "SR_FINISHED" ELSE "ST_OK"
    <2>1. DOMAIN u = Fields BY <1>1, SendFinishedSheet DEF u, Changes
    <2>2. t = IF s.hit THEN Flush(tls1_transcript_free(u), "SR_FINISHED") ELSE Flush(u, "ST_OK")
        BY DEF ssl3_send_server_finished, u
    <2> DEFINE v == tls1_transcript_free(u)
    <2>3. Changes(u, v, {"handshake_transcript"}) /\ DOMAIN v = Fields
        BY <2>1 DEF Changes, Fields, tls1_transcript_free
    <2> HIDE DEF t, v
    <2>4. ASSUME NEW x, NEW y, DOMAIN x = Fields
          PROVE  LET z == Flush(x, y)
                 IN  Changes(x, z, {"state", "next_state"}) /\ z.state = "FLUSH" /\ z.next_state = y
        BY <2>4 DEF Flush, Changes, Fields
    <2>5. CASE s.hit
        <3>1. t = Flush(v, "SR_FINISHED")
            BY <2>2, <2>5 DEF v
        <3>2. Changes(v, t, {"state", "next_state"}) /\ t.state = "FLUSH" /\ t.next_state = "SR_FINISHED"
            BY <2>3, <2>4, <3>1
        <3> QED BY <2>3, <2>5, <3>2 DEF Changes
    <2>6. CASE ~s.hit
        <3>1. t = Flush(u, "ST_OK")
            BY <2>2, <2>6
        <3>2. Changes(u, t, {"state", "next_state"}) /\ t.state = "FLUSH" /\ t.next_state = "ST_OK"
            BY <2>1, <2>4, <3>1
        <3> QED BY <2>6, <3>2 DEF Changes
    <2> QED BY <2>5, <2>6
<1> HIDE DEF t
<1>3. /\ t.wbuf = u.wbuf /\ t.handshake_hash = u.handshake_hash
      /\ t.previous_client_finished = u.previous_client_finished
      /\ t.previous_server_finished = u.previous_server_finished
    BY <1>2 DEF Changes, Fields
<1>4. /\ Changes(s, u, {"wbuf", "handshake_hash", "handshake_transcript", "previous_client_finished",
                        "previous_server_finished"})
      /\ Sent(s, u, VerifyData(s, "server")) /\ u.handshake_hash = Hashed(s.handshake_hash, VerifyData(s, "server"))
      /\ u.previous_server_finished = Some(VerifyData(s, "server"))
      /\ u.previous_client_finished = s.previous_client_finished
    BY <1>1, SendFinishedSheet DEF u
<1>5. Changes(s, t, {"wbuf", "handshake_hash", "handshake_transcript", "previous_server_finished",
                     "state", "next_state"})
    BY <1>2, <1>3, <1>4 DEF Changes
<1> QED BY <1>2, <1>3, <1>4, <1>5 DEF t, Sent

LEMMA AcceptedSheet ==
    ASSUME NEW s, DOMAIN s = Fields
    PROVE  LET t == Accepted(s)
           IN  \/ Fails(s, t) /\ s.handshake_transcript # Null
               \/ /\ Changes(s, t, {"state", "key_block", "bbio", "wbuf", "renegotiate", "new_session", "done"})
                  /\ s.handshake_transcript = Null
                  /\ t.state = "Established" /\ t.key_block = Null /\ ~t.bbio /\ t.wbuf = << >>
                  /\ \/ s.renegotiate = 2 /\ t.renegotiate = 0 /\ ~t.new_session /\ t.done = s.done + 1
                     \/ /\ s.renegotiate # 2 /\ t.renegotiate = s.renegotiate /\ t.new_session = s.new_session
                        /\ t.done = s.done
<1>1. CASE s.handshake_transcript # Null
    BY <1>1, DieSheet DEF Accepted
<1>2. CASE s.handshake_transcript = Null
    BY <1>2 DEF Accepted, Changes, Fields
<1> QED BY <1>1, <1>2

(* Either side. *)

LEMMA ReadCcsSheet ==
    ASSUME NEW s, DOMAIN s = Fields
    PROVE  LET t == ReadCcs(s)
           IN  \/ t.state = "Failed" /\ Changes(s, t, {"state", "wbuf", "flush", "ccs_ok", "change_cipher_spec"})
                  /\ (t.wbuf = << >> \/ t.wbuf = Append(s.wbuf, WireRecord(s, "alert", NoMessage)))
               \/ t = s /\ cfg.dtls /\ ~s.ccs_ok
               \/ /\ Changes(s, t, {"ccs_ok", "change_cipher_spec", "key_block", "rkey", "peer_finished"})
                  /\ s.ccs_ok /\ ~s.change_cipher_spec /\ s.cipher
                  /\ ~t.ccs_ok /\ t.change_cipher_spec
                  /\ t.key_block = IF s.key_block = Null THEN Keys(s) ELSE s.key_block
                  /\ t.rkey = <<Peer(s.who)>> \o t.key_block
                  /\ t.peer_finished = Some(VerifyData(s, Peer(s.who)))
                  /\ s.key_block # Null \/ s.session.master # Null
<1>1. CASE s.change_cipher_spec \/ ~s.cipher
    BY <1>1, AbortSheet DEF ReadCcs, Fails, Changes
<1>2. CASE ~(s.change_cipher_spec \/ ~s.cipher) /\ ~s.ccs_ok
    BY <1>2, AbortSheet DEF ReadCcs, Fails, Changes
<1>3. CASE ~(s.change_cipher_spec \/ ~s.cipher) /\ s.ccs_ok
    <2> DEFINE u == [s EXCEPT !.ccs_ok = FALSE, !.change_cipher_spec = TRUE]
    <2>1. Changes(s, u, {"ccs_ok", "change_cipher_spec"}) /\ ~u.ccs_ok /\ u.change_cipher_spec
        BY DEF Changes, Fields
    <2>2. /\ u.key_block = s.key_block /\ Keys(u) = Keys(s) /\ u.session = s.session /\ u.who = s.who
          /\ VerifyData(u, Peer(u.who)) = VerifyData(s, Peer(s.who)) /\ u.wbuf = s.wbuf /\ u.wkey = s.wkey
        BY <2>1 DEF Changes, Fields, Keys, VerifyData
    <2>3. ReadCcs(s) = IF u.key_block = Null /\ u.session.master = Null THEN Die(u)
                       ELSE tls12_derive_peer_finished(tls1_change_read_cipher_state(tls1_setup_key_block(u)))
        BY <1>3 DEF ReadCcs
    <2> HIDE DEF u
    <2>4. CASE u.key_block = Null /\ u.session.master = Null
        <3>1. Fails(u, ReadCcs(s)) BY <2>1, <2>3, <2>4, DieSheet DEF Changes
        <3> QED BY <2>1, <2>2, <3>1 DEF Fails, Changes, WireRecord
    <2>5. CASE ~(u.key_block = Null /\ u.session.master = Null)
        <3> DEFINE t == tls12_derive_peer_finished(tls1_change_read_cipher_state(tls1_setup_key_block(u)))
        <3>1. /\ Changes(u, t, {"key_block", "rkey", "peer_finished"})
              /\ t.key_block = IF u.key_block = Null THEN Keys(u) ELSE u.key_block
              /\ t.rkey = <<Peer(u.who)>> \o t.key_block
              /\ t.peer_finished = Some(VerifyData(u, Peer(u.who)))
            BY <2>1 DEF Changes, Fields, tls12_derive_peer_finished, tls1_change_read_cipher_state,
                tls1_setup_key_block, VerifyData
        <3> HIDE DEF t
        <3>2. Changes(s, t, {"ccs_ok", "change_cipher_spec", "key_block", "rkey", "peer_finished"})
            BY <2>1, <3>1 DEF Changes
        <3>3. ~t.ccs_ok /\ t.change_cipher_spec
            BY <2>1, <3>1 DEF Changes, Fields
        <3>4. ReadCcs(s) = t BY <2>3, <2>5 DEF t
        <3> QED BY <1>3, <2>2, <2>5, <3>1, <3>2, <3>3, <3>4
    <2> QED BY <2>4, <2>5
<1> QED BY <1>1, <1>2, <1>3

LEMMA UnexpectedSheet ==
    ASSUME NEW s, NEW m, DOMAIN s = Fields
    PROVE  LET t == Unexpected(s, m)
           IN  \/ Fails(s, t)
               \/ /\ s.who = "client" /\ m.mt = "HelloRequest"
                  /\ Changes(s, t, {"state", "total_renegotiations"}) /\ t.state = "RENEGOTIATE"
               \/ /\ s.who = "server" /\ m.mt = "ClientHello"
                  /\ Changes(s, t, {"state", "renegotiate", "new_session"}) /\ t.state = "ACCEPT" /\ t.renegotiate = 1
<1>1. CASE s.who = "client" /\ m.mt = "HelloRequest"
    BY <1>1 DEF Unexpected, Changes, Fields
<1>2. CASE s.who = "server" /\ m.mt = "ClientHello"
    BY <1>2 DEF Unexpected, Changes, Fields
<1>3. CASE ~(s.who = "client" /\ m.mt = "HelloRequest") /\ ~(s.who = "server" /\ m.mt = "ClientHello")
    BY <1>3, AbortSheet DEF Unexpected
<1> QED BY <1>1, <1>2, <1>3

-----------------------------------------------------------------------------
(* Sequences. *)

LEMMA SeqEmpty == IsSeq(<< >>)
    BY DEF IsSeq

LEMMA SeqAppend ==
    ASSUME NEW q, NEW r, IsSeq(q)
    PROVE  /\ IsSeq(Append(q, r)) /\ Len(Append(q, r)) = Len(q) + 1
           /\ \A i \in 1 .. Len(q) : Append(q, r)[i] = q[i]
           /\ Append(q, r)[Len(q) + 1] = r
<1> DEFINE T == ToSet(q) \union {r}
           a == Append(q, r)
<1>1. q \in Seq(T) /\ r \in T
    BY DEF IsSeq
<1>2. a \in Seq(T) /\ Len(a) = Len(q) + 1 /\ (\A i \in 1 .. Len(q) : a[i] = q[i]) /\ a[Len(q) + 1] = r
    BY <1>1
<1> HIDE DEF a
<1>3. a \in Seq(ToSet(a))
    BY <1>2 DEF ToSet
<1> QED BY <1>2, <1>3 DEF IsSeq, a

LEMMA SeqTail ==
    ASSUME NEW q, IsSeq(q), q # << >>
    PROVE  /\ IsSeq(Tail(q)) /\ Len(Tail(q)) = Len(q) - 1 /\ Len(q) \in Nat \ {0}
           /\ \A i \in 1 .. Len(Tail(q)) : Tail(q)[i] = q[i + 1]
           /\ Head(q) = q[1]
<1> DEFINE a == Tail(q)
<1>1. q \in Seq(ToSet(q))
    BY DEF IsSeq
<1>2. /\ a \in Seq(ToSet(q)) /\ Len(a) = Len(q) - 1 /\ (\A i \in 1 .. Len(a) : a[i] = q[i + 1])
      /\ Len(q) \in Nat \ {0} /\ Head(q) = q[1]
    BY <1>1
<1> HIDE DEF a
<1>3. a \in Seq(ToSet(a))
    BY <1>2 DEF ToSet
<1> QED BY <1>2, <1>3 DEF IsSeq, a

LEMMA SeqConcat ==
    ASSUME NEW p, NEW q, IsSeq(p), IsSeq(q)
    PROVE  /\ IsSeq(p \o q) /\ Len(p \o q) = Len(p) + Len(q)
           /\ \A i \in 1 .. Len(p) : (p \o q)[i] = p[i]
           /\ \A i \in 1 .. Len(q) : (p \o q)[Len(p) + i] = q[i]
<1> DEFINE T == ToSet(p) \union ToSet(q)
           a == p \o q
<1>1. p \in Seq(T) /\ q \in Seq(T)
    BY DEF IsSeq
<1>2. /\ a \in Seq(T) /\ Len(a) = Len(p) + Len(q) /\ (\A i \in 1 .. Len(p) : a[i] = p[i])
      /\ \A i \in 1 .. Len(q) : a[Len(p) + i] = q[i]
    BY <1>1
<1> HIDE DEF a
<1>3. a \in Seq(ToSet(a))
    BY <1>2 DEF ToSet
<1> QED BY <1>2, <1>3 DEF IsSeq, a

LEMMA ConcatAppend ==
    ASSUME NEW p, NEW q, NEW r, IsSeq(p), IsSeq(q)
    PROVE  p \o Append(q, r) = Append(p \o q, r)
<1> DEFINE T == ToSet(p) \union ToSet(q) \union {r}
<1>1. p \in Seq(T) /\ q \in Seq(T) /\ r \in T
    BY DEF IsSeq
<1> HIDE DEF T
<1> QED BY <1>1

LEMMA ConcatTail ==
    ASSUME NEW p, NEW q, IsSeq(p), IsSeq(q), p # << >>
    PROVE  Tail(p) \o q = Tail(p \o q) /\ p \o q # << >> /\ Head(p \o q) = Head(p)
<1> DEFINE T == ToSet(p) \union ToSet(q)
<1>1. p \in Seq(T) /\ q \in Seq(T)
    BY DEF IsSeq
<1> HIDE DEF T
<1> QED BY <1>1

LEMMA ConcatEmpty ==
    ASSUME NEW p, IsSeq(p)
    PROVE  p \o << >> = p
    BY DEF IsSeq

-----------------------------------------------------------------------------
(* The client keeps what it knows of its server, handler by handler. *)

(* What a step may write. *)
Wrote(s, t) ==
    \/ t.wbuf = s.wbuf
    \/ t.wbuf = << >>
    \/ \E r : t.wbuf = Append(s.wbuf, r) /\ RecordOK(cfg, r) /\ ~FirstHello(r) /\ ~VerifyRequest(r)

(* A step that is not part of the cookie exchange. *)
ClientPlain(s, t) ==
    \/ t.state = "Failed"
    \/ /\ t.state \notin {"BEFORE", "CW_CLNT_HELLO"} /\ ~Verifying(t)
       /\ Position(t) = "CR_SRVR_HELLO" => Position(s) = "CR_SRVR_HELLO"

ClientGoes(s, t) ==
    IsSsl(t, "client") /\ ClientAuth(cfg, t) /\ Wrote(s, t) /\ ClientPlain(s, t)

ClientIs(s, state) == IsSsl(s, "client") /\ ClientAuth(cfg, s) /\ s.state = state

(* s is C with the message m in hand, kept or read. *)
HasRead(C, s, m) ==
    /\ \/ /\ C.reuse_message # Null /\ m = C.reuse_message[1]
          /\ Changes(C, s, {"reuse_message"})
       \/ /\ C.reuse_message = Null /\ m.mt # "HelloRequest"
          /\ Changes(C, s, {"handshake_hash", "handshake_transcript"})
          /\ s.handshake_hash = Hashed(C.handshake_hash, m)
          /\ s.handshake_transcript = Kept(C, m)
    /\ s.reuse_message = Null

LEMMA RecordIsOK ==
    ASSUME NEW s, NEW m, m.mt \notin {"ClientHello", "NewSessionTicket", "HelloRequest", "HelloVerifyRequest"}
    PROVE  LET r == WireRecord(s, "handshake", m)
           IN  RecordOK(cfg, r) /\ ~FirstHello(r) /\ ~VerifyRequest(r)
    BY DEF WireRecord, RecordOK, MessageOK, FirstHello, VerifyRequest, Is

LEMMA OtherRecordIsOK ==
    ASSUME NEW s, NEW m, NEW type, type # "handshake"
    PROVE  LET r == WireRecord(s, type, m)
           IN  RecordOK(cfg, r) /\ ~FirstHello(r) /\ ~VerifyRequest(r)
    BY DEF WireRecord, RecordOK, FirstHello, VerifyRequest, Is

LEMMA SentWrites ==
    ASSUME NEW s, NEW t, NEW m, Sent(s, t, m),
           m.mt \notin {"ClientHello", "NewSessionTicket", "HelloRequest", "HelloVerifyRequest"}
    PROVE  Wrote(s, t)
    BY RecordIsOK DEF Wrote, Sent

LEMMA OtherWrites ==
    ASSUME NEW s, NEW t, NEW m, NEW type, t.wbuf = Append(s.wbuf, WireRecord(s, type, m)), type # "handshake"
    PROVE  Wrote(s, t)
    BY OtherRecordIsOK DEF Wrote

LEMMA CcsWrites ==
    ASSUME NEW s, NEW state, DOMAIN s = Fields
    PROVE  Wrote(s, SendChangeCipherSpec(s, state))
<1>1. SendChangeCipherSpec(s, state).wbuf = Append(s.wbuf, WireRecord(s, "ccs", NoMessage))
    BY ChangeCipherSpecSheet
<1> QED BY <1>1, OtherRecordIsOK DEF Wrote

LEMMA FailsWrites == ASSUME NEW s, NEW t, Fails(s, t) PROVE Wrote(s, t)
    BY OtherRecordIsOK DEF Fails, Wrote

LEMMA ClientFails ==
    ASSUME NEW C, NEW t, IsSsl(C, "client"), ClientAuth(cfg, C), C.reuse_message = Null \/ C.state \in ClientKeeps,
           NEW s, Changes(C, s, {"reuse_message", "handshake_hash", "handshake_transcript"}),
           s.reuse_message \in {Null, C.reuse_message}, Fails(s, t)
    PROVE  ClientGoes(C, t)
<1>1. /\ t.session = C.session /\ t.who = C.who /\ DOMAIN t = Fields /\ t.state = "Failed"
      /\ t.reuse_message \in {Null, C.reuse_message} /\ s.wbuf = C.wbuf
    BY DEF Fails, Changes, Fields
<1>2. IsSsl(t, "client") /\ ClientPlain(C, t)
    BY <1>1 DEF IsSsl, ClientPlain
<1>3. ClientAuth(cfg, t)
    BY <1>1 DEF ClientAuth, Position, Verifying, ClientOffers, ClientSure, ClientKeeps
<1>4. Wrote(C, t)
    BY <1>1, FailsWrites DEF Wrote
<1> QED BY <1>2, <1>3, <1>4 DEF ClientGoes

LEMMA HasReadIs ==
    ASSUME NEW C, NEW s, NEW m, IsSsl(C, "client"), ClientAuth(cfg, C), HasRead(C, s, m)
    PROVE  /\ Changes(C, s, {"reuse_message", "handshake_hash", "handshake_transcript"})
           /\ s.reuse_message = Null /\ DOMAIN s = Fields /\ s.session = C.session /\ s.state = C.state
           /\ s.wbuf = C.wbuf /\ s.who = C.who /\ s.send_cookie = C.send_cookie /\ s.next_state = C.next_state
    BY DEF HasRead, Changes, Fields

(* A step that goes on with the handshake. *)
LEMMA ClientMoves ==
    ASSUME NEW C, NEW t, IsSsl(t, "client"), Wrote(C, t),
           t.session.tick # Null => t.session.id # Null /\ TicketOK(cfg, t.session.tick[1]),
           t.reuse_message = Null \/ (t.state \in ClientKeeps \ {"CR_HELLO_VERIFY"} /\ MessageOK(cfg, t.reuse_message[1])),
           Position(t) \notin ClientOffers, t.state \notin {"BEFORE", "CW_CLNT_HELLO"},
           t.state = "FLUSH" => t.next_state \in {"CR_SRVR_HELLO", "ST_OK", "CR_SESSION_TICKET", "CR_FINISHED"},
           t.state = "CR_HELLO_VERIFY" => cfg.dtls,
           cfg.kex # "anon" /\ Position(t) \in ClientSure => t.session.peer
    PROVE  ClientGoes(C, t)
<1>1. ~Verifying(t)
    BY DEF Verifying, ClientKeeps
<1>2. Position(t) \notin {"RENEGOTIATE", "CR_SRVR_HELLO"}
    BY DEF ClientOffers
<1>3. t.reuse_message # Null => t.state \in ClientKeeps
    OBVIOUS
<1>4. t.state = "CR_HELLO_VERIFY" => cfg.dtls \/ t.reuse_message # Null
    OBVIOUS
<1>5. ClientAuth(cfg, t)
    BY <1>1, <1>2, <1>3, <1>4 DEF ClientAuth
<1>6. ClientPlain(C, t)
    BY <1>1, <1>2 DEF ClientPlain
<1> QED BY <1>5, <1>6 DEF ClientGoes

LEMMA ClientServerCertificate ==
    ASSUME NEW C, NEW s, NEW m, ClientIs(C, "CR_CERT"), HasRead(C, s, m), MessageOK(cfg, m), cfg.kex # "anon"
    PROVE  ClientGoes(C, ssl3_get_server_certificate(s, m))
<1> DEFINE t == ssl3_get_server_certificate(s, m)
<1>1. /\ Changes(C, s, {"reuse_message", "handshake_hash", "handshake_transcript"})
      /\ s.reuse_message = Null /\ DOMAIN s = Fields /\ s.session = C.session /\ s.wbuf = C.wbuf /\ s.who = C.who
      /\ DOMAIN s.session = SessionFields /\ IsSsl(C, "client") /\ ClientAuth(cfg, C) /\ C.state = "CR_CERT"
    BY HasReadIs DEF ClientIs, IsSsl
<1>2. CASE Fails(s, t)
    BY <1>1, <1>2, ClientFails DEF ClientKeeps
<1>3. CASE /\ Changes(s, t, {"state", "ccs_ok", "reuse_message"}) /\ t.reuse_message = Some(m)
           /\ t.state \in {"CR_CERT_STATUS", "CR_KEY_EXCH"}
    <2> HIDE DEF t
    <2>1. t.session = s.session /\ t.who = s.who /\ t.wbuf = s.wbuf /\ DOMAIN t = Fields
        BY <1>3 DEF Changes, Fields
    <2>2. t.session.tick # Null => t.session.id # Null /\ TicketOK(cfg, t.session.tick[1])
        BY <1>1, <2>1 DEF ClientAuth
    <2>3. Position(t) \notin ClientOffers \union ClientSure /\ t.state \in ClientKeeps
        BY <1>3 DEF Position, ClientOffers, ClientSure, ClientKeeps
    <2>4. IsSsl(t, "client") /\ Wrote(C, t) /\ t.reuse_message[1] = m
        BY <1>1, <1>3, <2>1 DEF IsSsl, Wrote, Some
    <2> QED BY <1>3, <2>2, <2>3, <2>4, ClientMoves DEF t
<1>4. CASE /\ Changes(s, t, {"state", "ccs_ok", "session"}) /\ t.session = [s.session EXCEPT !.peer = TRUE]
           /\ t.state \in {"CR_CERT_STATUS", "CR_KEY_EXCH"}
    <2> HIDE DEF t
    <2>1. /\ t.reuse_message = s.reuse_message /\ t.who = s.who /\ t.wbuf = s.wbuf /\ DOMAIN t = Fields
        BY <1>4 DEF Changes, Fields
    <2>2. DOMAIN t.session = SessionFields /\ t.session.tick = s.session.tick /\ t.session.id = s.session.id /\ t.session.peer
        BY <1>1, <1>4 DEF SessionFields
    <2>3. t.session.tick # Null => t.session.id # Null /\ TicketOK(cfg, t.session.tick[1])
        BY <1>1, <2>2 DEF ClientAuth
    <2>4. Position(t) \notin ClientOffers \union ClientSure
        BY <1>4 DEF Position, ClientOffers, ClientSure
    <2>5. IsSsl(t, "client") /\ Wrote(C, t) /\ t.reuse_message = Null
        BY <1>1, <2>1, <2>2 DEF IsSsl, Wrote
    <2> QED BY <1>4, <2>3, <2>4, <2>5, ClientMoves DEF t
<1> QED BY <1>1, <1>2, <1>3, <1>4, ServerCertificateSheet

LEMMA ClientContinues ==
    ASSUME NEW C, NEW t, IsSsl(C, "client"), ClientAuth(cfg, C),
           DOMAIN t = Fields, t.who = C.who, DOMAIN t.session = SessionFields, Wrote(C, t),
           t.session.tick = C.session.tick, t.session.id = C.session.id,
           t.reuse_message = Null \/ (t.state \in ClientKeeps \ {"CR_HELLO_VERIFY"} /\ MessageOK(cfg, t.reuse_message[1])),
           Position(t) \notin ClientOffers, t.state \notin {"BEFORE", "CW_CLNT_HELLO", "CR_HELLO_VERIFY"},
           t.state = "FLUSH" => t.next_state \in {"CR_SRVR_HELLO", "ST_OK", "CR_SESSION_TICKET", "CR_FINISHED"},
           cfg.kex # "anon" /\ Position(t) \in ClientSure => t.session.peer
    PROVE  ClientGoes(C, t)
<1>1. IsSsl(t, "client") /\ (t.session.tick # Null => t.session.id # Null /\ TicketOK(cfg, t.session.tick[1]))
    BY DEF IsSsl, ClientAuth
<1> QED BY <1>1, ClientMoves

LEMMA ClientIsSure ==
    ASSUME NEW C, NEW state, ClientIs(C, state), state \in ClientSure, state # "FLUSH"
    PROVE  cfg.kex # "anon" => C.session.peer
    BY DEF ClientIs, ClientAuth, Position

LEMMA ClientCertStatus ==
    ASSUME NEW C, NEW s, NEW m, ClientIs(C, "CR_CERT_STATUS"), HasRead(C, s, m), MessageOK(cfg, m)
    PROVE  ClientGoes(C, ssl3_get_cert_status(s, m))
<1> DEFINE t == ssl3_get_cert_status(s, m)
<1>1. /\ Changes(C, s, {"reuse_message", "handshake_hash", "handshake_transcript"})
      /\ s.reuse_message = Null /\ DOMAIN s = Fields /\ s.session = C.session /\ s.wbuf = C.wbuf /\ s.who = C.who
      /\ DOMAIN s.session = SessionFields /\ IsSsl(C, "client") /\ ClientAuth(cfg, C) /\ C.state = "CR_CERT_STATUS"
    BY HasReadIs DEF ClientIs, IsSsl
<1>2. CASE Fails(s, t)
    BY <1>1, <1>2, ClientFails DEF ClientKeeps
<1>3. CASE /\ Changes(s, t, {"state", "ccs_ok", "reuse_message"}) /\ t.state = "CR_KEY_EXCH"
           /\ t.reuse_message \in {Some(m), s.reuse_message}
    <2> HIDE DEF t
    <2>1. /\ t.who = s.who /\ t.wbuf = s.wbuf /\ DOMAIN t = Fields
          /\ t.session = s.session /\ DOMAIN t.session = SessionFields
        BY <1>1, <1>3 DEF Changes, Fields
    <2>2. /\ Position(t) \notin ClientOffers /\ t.state \notin {"BEFORE", "CW_CLNT_HELLO", "CR_HELLO_VERIFY", "FLUSH"}
          /\ cfg.kex # "anon" /\ Position(t) \in ClientSure => t.session.peer
        BY <1>1, <1>3, <2>1 DEF Position, ClientOffers, ClientSure
    <2>3. /\ t.reuse_message = Null \/ (t.state \in ClientKeeps \ {"CR_HELLO_VERIFY"} /\ MessageOK(cfg, t.reuse_message[1]))
          /\ Wrote(C, t)
        BY <1>1, <1>3, <2>1 DEF Wrote, ClientKeeps, Some
    <2> QED BY <1>1, <2>1, <2>2, <2>3, ClientContinues DEF t
<1> QED BY <1>1, <1>2, <1>3, CertStatusSheet

LEMMA ClientServerKeyExchange ==
    ASSUME NEW C, NEW s, NEW m, ClientIs(C, "CR_KEY_EXCH"), HasRead(C, s, m), MessageOK(cfg, m)
    PROVE  ClientGoes(C, ssl3_get_server_key_exchange(s, m))
<1> DEFINE t == ssl3_get_server_key_exchange(s, m)
<1>1. /\ Changes(C, s, {"reuse_message", "handshake_hash", "handshake_transcript"})
      /\ s.reuse_message = Null /\ DOMAIN s = Fields /\ s.session = C.session /\ s.wbuf = C.wbuf /\ s.who = C.who
      /\ DOMAIN s.session = SessionFields /\ IsSsl(C, "client") /\ ClientAuth(cfg, C) /\ C.state = "CR_KEY_EXCH"
    BY HasReadIs DEF ClientIs, IsSsl
<1>2. CASE Fails(s, t)
    BY <1>1, <1>2, ClientFails DEF ClientKeeps
<1>3. CASE /\ Changes(s, t, {"state", "ccs_ok", "reuse_message"}) /\ t.state = "CR_CERT_REQ"
           /\ t.reuse_message \in {Some(m), s.reuse_message} /\ (Anonymous \/ s.session.peer)
    <2> HIDE DEF t
    <2>1. /\ t.who = s.who /\ t.wbuf = s.wbuf /\ DOMAIN t = Fields
          /\ t.session = s.session /\ DOMAIN t.session = SessionFields /\ (cfg.kex # "anon" => t.session.peer)
        BY <1>1, <1>3 DEF Changes, Fields, Anonymous
    <2>2. /\ Position(t) \notin ClientOffers /\ t.state \notin {"BEFORE", "CW_CLNT_HELLO", "CR_HELLO_VERIFY", "FLUSH"}
          /\ cfg.kex # "anon" /\ Position(t) \in ClientSure => t.session.peer
        BY <1>1, <1>3, <2>1 DEF Position, ClientOffers, ClientSure
    <2>3. /\ t.reuse_message = Null \/ (t.state \in ClientKeeps \ {"CR_HELLO_VERIFY"} /\ MessageOK(cfg, t.reuse_message[1]))
          /\ Wrote(C, t)
        BY <1>1, <1>3, <2>1 DEF Wrote, ClientKeeps, Some
    <2> QED BY <1>1, <2>1, <2>2, <2>3, ClientContinues DEF t
<1> QED BY <1>1, <1>2, <1>3, ServerKeyExchangeSheet

LEMMA ClientCertificateRequest ==
    ASSUME NEW C, NEW s, NEW m, ClientIs(C, "CR_CERT_REQ"), HasRead(C, s, m), MessageOK(cfg, m)
    PROVE  ClientGoes(C, ssl3_get_certificate_request(s, m))
<1> DEFINE t == ssl3_get_certificate_request(s, m)
<1>1. /\ Changes(C, s, {"reuse_message", "handshake_hash", "handshake_transcript"})
      /\ s.reuse_message = Null /\ DOMAIN s = Fields /\ s.session = C.session /\ s.wbuf = C.wbuf /\ s.who = C.who
      /\ DOMAIN s.session = SessionFields /\ IsSsl(C, "client") /\ ClientAuth(cfg, C) /\ C.state = "CR_CERT_REQ"
    BY HasReadIs DEF ClientIs, IsSsl
<1>2. CASE Fails(s, t)
    BY <1>1, <1>2, ClientFails DEF ClientKeeps
<1>3. cfg.kex # "anon" => C.session.peer
    BY ClientIsSure DEF ClientSure
<1>4. CASE /\ Changes(s, t, {"state", "ccs_ok", "reuse_message", "handshake_transcript", "cert_request"})
           /\ t.state = "CR_SRVR_DONE" /\ t.reuse_message = Some(m)
    <2> HIDE DEF t
    <2>1. /\ t.who = s.who /\ t.wbuf = s.wbuf /\ DOMAIN t = Fields
          /\ t.session = s.session /\ DOMAIN t.session = SessionFields
        BY <1>1, <1>4 DEF Changes, Fields
    <2>2. /\ Position(t) \notin ClientOffers /\ t.state \notin {"BEFORE", "CW_CLNT_HELLO", "CR_HELLO_VERIFY", "FLUSH"}
          /\ cfg.kex # "anon" /\ Position(t) \in ClientSure => t.session.peer
        BY <1>1, <1>4, <1>3, <2>1 DEF Position, ClientOffers, ClientSure
    <2>3. /\ t.reuse_message = Null \/ (t.state \in ClientKeeps \ {"CR_HELLO_VERIFY"} /\ MessageOK(cfg, t.reuse_message[1]))
          /\ Wrote(C, t)
        BY <1>1, <1>4, <2>1 DEF Wrote, ClientKeeps, Some
    <2> QED BY <1>1, <2>1, <2>2, <2>3, ClientContinues DEF t
<1>5. CASE /\ Changes(s, t, {"state", "ccs_ok", "cert_request"}) /\ t.state = "CR_SRVR_DONE"
    <2> HIDE DEF t
    <2>1. /\ t.who = s.who /\ t.wbuf = s.wbuf /\ DOMAIN t = Fields
          /\ t.session = s.session /\ DOMAIN t.session = SessionFields /\ t.reuse_message = Null
        BY <1>1, <1>5 DEF Changes, Fields
    <2>2. /\ Position(t) \notin ClientOffers /\ t.state \notin {"BEFORE", "CW_CLNT_HELLO", "CR_HELLO_VERIFY", "FLUSH"}
          /\ cfg.kex # "anon" /\ Position(t) \in ClientSure => t.session.peer
        BY <1>1, <1>5, <1>3, <2>1 DEF Position, ClientOffers, ClientSure
    <2>3. /\ t.reuse_message = Null \/ (t.state \in ClientKeeps \ {"CR_HELLO_VERIFY"} /\ MessageOK(cfg, t.reuse_message[1]))
          /\ Wrote(C, t)
        BY <1>1, <1>5, <2>1 DEF Wrote, ClientKeeps, Some
    <2> QED BY <1>1, <2>1, <2>2, <2>3, ClientContinues DEF t
<1> QED BY <1>1, <1>2, <1>4, <1>5, CertificateRequestSheet

LEMMA ClientServerDone ==
    ASSUME NEW C, NEW s, NEW m, ClientIs(C, "CR_SRVR_DONE"), HasRead(C, s, m), MessageOK(cfg, m)
    PROVE  ClientGoes(C, ssl3_get_server_done(s, m))
<1> DEFINE t == ssl3_get_server_done(s, m)
<1>1. /\ Changes(C, s, {"reuse_message", "handshake_hash", "handshake_transcript"})
      /\ s.reuse_message = Null /\ DOMAIN s = Fields /\ s.session = C.session /\ s.wbuf = C.wbuf /\ s.who = C.who
      /\ DOMAIN s.session = SessionFields /\ IsSsl(C, "client") /\ ClientAuth(cfg, C) /\ C.state = "CR_SRVR_DONE"
    BY HasReadIs DEF ClientIs, IsSsl
<1>2. CASE Fails(s, t)
    BY <1>1, <1>2, ClientFails DEF ClientKeeps
<1>3. cfg.kex # "anon" => C.session.peer
    BY ClientIsSure DEF ClientSure
<1>4. CASE Changes(s, t, {"state", "ccs_ok"}) /\ t.state \in {"CW_CERT", "CW_KEY_EXCH"}
    <2> HIDE DEF t
    <2>1. /\ t.who = s.who /\ t.wbuf = s.wbuf /\ DOMAIN t = Fields
          /\ t.session = s.session /\ DOMAIN t.session = SessionFields /\ t.reuse_message = Null
        BY <1>1, <1>4 DEF Changes, Fields
    <2>2. /\ Position(t) \notin ClientOffers /\ t.state \notin {"BEFORE", "CW_CLNT_HELLO", "CR_HELLO_VERIFY", "FLUSH"}
          /\ cfg.kex # "anon" /\ Position(t) \in ClientSure => t.session.peer
        BY <1>1, <1>4, <1>3, <2>1 DEF Position, ClientOffers, ClientSure
    <2>3. /\ t.reuse_message = Null \/ (t.state \in ClientKeeps \ {"CR_HELLO_VERIFY"} /\ MessageOK(cfg, t.reuse_message[1]))
          /\ Wrote(C, t)
        BY <1>1, <1>4, <2>1 DEF Wrote, ClientKeeps, Some
    <2> QED BY <1>1, <2>1, <2>2, <2>3, ClientContinues DEF t
<1> QED BY <1>1, <1>2, <1>4, ServerDoneSheet

LEMMA ClientSendsCertificate ==
    ASSUME NEW C, ClientIs(C, "CW_CERT")
    PROVE  ClientGoes(C, ssl3_send_client_certificate(C))
<1> DEFINE t == ssl3_send_client_certificate(C)
<1>1. /\ DOMAIN C = Fields /\ DOMAIN C.session = SessionFields /\ IsSsl(C, "client") /\ ClientAuth(cfg, C)
      /\ C.state = "CW_CERT" /\ C.who = "client" /\ C.reuse_message = Null
    BY DEF ClientIs, IsSsl, ClientAuth, ClientKeeps
<1>2. cfg.kex # "anon" => C.session.peer
    BY ClientIsSure DEF ClientSure
<1>4. /\ Changes(C, t, {"state", "ccs_ok", "wbuf", "handshake_hash", "handshake_transcript", "cert_request"})
      /\ t.state = "CW_KEY_EXCH"
    BY <1>1, ClientCertificateSheet
<1>5. Wrote(C, t)
    BY <1>1, ClientCertificateSheet, SentWrites DEF Message, Certificate
<1> HIDE DEF t
<1>6. t.who = C.who /\ DOMAIN t = Fields /\ t.reuse_message = Null
    BY <1>1, <1>4 DEF Changes, Fields
<1>7. /\ DOMAIN t.session = SessionFields /\ t.session.tick = C.session.tick /\ t.session.id = C.session.id
      /\ t.session.peer = C.session.peer
    BY <1>1, <1>4 DEF Changes, Fields, SessionFields
<1>8. /\ Position(t) \notin ClientOffers /\ t.state \notin {"BEFORE", "CW_CLNT_HELLO", "CR_HELLO_VERIFY"}
      /\ t.state = "FLUSH" => t.next_state \in {"CR_SRVR_HELLO", "ST_OK", "CR_SESSION_TICKET", "CR_FINISHED"}
    BY <1>4 DEF Position, ClientOffers
<1>9. ClientGoes(C, t)
    BY <1>1, <1>2, <1>5, <1>6, <1>7, <1>8, ClientContinues
<1> QED BY <1>9 DEF t

LEMMA ClientSendsKeyExchange ==
    ASSUME NEW C, ClientIs(C, "CW_KEY_EXCH")
    PROVE  ClientGoes(C, ssl3_send_client_key_exchange(C))
<1> DEFINE t == ssl3_send_client_key_exchange(C)
<1>1. /\ DOMAIN C = Fields /\ DOMAIN C.session = SessionFields /\ IsSsl(C, "client") /\ ClientAuth(cfg, C)
      /\ C.state = "CW_KEY_EXCH" /\ C.who = "client" /\ C.reuse_message = Null
    BY DEF ClientIs, IsSsl, ClientAuth, ClientKeeps
<1>2. cfg.kex # "anon" => C.session.peer
    BY ClientIsSure DEF ClientSure
<1>4. /\ Changes(C, t, {"state", "ccs_ok", "wbuf", "handshake_hash", "handshake_transcript", "session",
                       "change_cipher_spec"})
      /\ t.session = [C.session EXCEPT !.master = <<C.n, C.cr, C.sr>>]
      /\ t.state \in {"CW_CERT_VRFY", "CW_CHANGE"}
    BY <1>1, ClientKeyExchangeSheet
<1>5. Wrote(C, t)
    BY <1>1, ClientKeyExchangeSheet, SentWrites DEF Message
<1> HIDE DEF t
<1>6. t.who = C.who /\ DOMAIN t = Fields /\ t.reuse_message = Null
    BY <1>1, <1>4 DEF Changes, Fields
<1>7. /\ DOMAIN t.session = SessionFields /\ t.session.tick = C.session.tick /\ t.session.id = C.session.id
      /\ t.session.peer = C.session.peer
    BY <1>1, <1>4 DEF Changes, Fields, SessionFields
<1>8. /\ Position(t) \notin ClientOffers /\ t.state \notin {"BEFORE", "CW_CLNT_HELLO", "CR_HELLO_VERIFY"}
      /\ t.state = "FLUSH" => t.next_state \in {"CR_SRVR_HELLO", "ST_OK", "CR_SESSION_TICKET", "CR_FINISHED"}
    BY <1>4 DEF Position, ClientOffers
<1>9. ClientGoes(C, t)
    BY <1>1, <1>2, <1>5, <1>6, <1>7, <1>8, ClientContinues
<1> QED BY <1>9 DEF t

LEMMA ClientSendsVerify ==
    ASSUME NEW C, ClientIs(C, "CW_CERT_VRFY")
    PROVE  ClientGoes(C, ssl3_send_client_verify(C))
<1> DEFINE t == ssl3_send_client_verify(C)
<1>1. /\ DOMAIN C = Fields /\ DOMAIN C.session = SessionFields /\ IsSsl(C, "client") /\ ClientAuth(cfg, C)
      /\ C.state = "CW_CERT_VRFY" /\ C.who = "client" /\ C.reuse_message = Null
    BY DEF ClientIs, IsSsl, ClientAuth, ClientKeeps
<1>2. cfg.kex # "anon" => C.session.peer
    BY ClientIsSure DEF ClientSure
<1>3. SUFFICES ASSUME ~Fails(C, t) PROVE ClientGoes(C, t)
    BY <1>1, ClientFails DEF Changes
<1>4. /\ Changes(C, t, {"state", "ccs_ok", "wbuf", "handshake_hash", "handshake_transcript", "change_cipher_spec"})
      /\ t.state = "CW_CHANGE"
    BY <1>1, <1>3, ClientVerifySheet
<1>5. Wrote(C, t)
    BY <1>1, <1>3, ClientVerifySheet, SentWrites DEF Message
<1> HIDE DEF t
<1>6. t.who = C.who /\ DOMAIN t = Fields /\ t.reuse_message = Null
    BY <1>1, <1>4 DEF Changes, Fields
<1>7. /\ DOMAIN t.session = SessionFields /\ t.session.tick = C.session.tick /\ t.session.id = C.session.id
      /\ t.session.peer = C.session.peer
    BY <1>1, <1>4 DEF Changes, Fields, SessionFields
<1>8. /\ Position(t) \notin ClientOffers /\ t.state \notin {"BEFORE", "CW_CLNT_HELLO", "CR_HELLO_VERIFY"}
      /\ t.state = "FLUSH" => t.next_state \in {"CR_SRVR_HELLO", "ST_OK", "CR_SESSION_TICKET", "CR_FINISHED"}
    BY <1>4 DEF Position, ClientOffers
<1>9. ClientGoes(C, t)
    BY <1>1, <1>2, <1>5, <1>6, <1>7, <1>8, ClientContinues
<1> QED BY <1>9 DEF t

LEMMA ClientSendsCcs ==
    ASSUME NEW C, ClientIs(C, "CW_CHANGE")
    PROVE  ClientGoes(C, ssl3_send_client_change_cipher_spec(C))
<1> DEFINE t == ssl3_send_client_change_cipher_spec(C)
<1>1. /\ DOMAIN C = Fields /\ DOMAIN C.session = SessionFields /\ IsSsl(C, "client") /\ ClientAuth(cfg, C)
      /\ C.state = "CW_CHANGE" /\ C.who = "client" /\ C.reuse_message = Null
    BY DEF ClientIs, IsSsl, ClientAuth, ClientKeeps
<1>2. cfg.kex # "anon" => C.session.peer
    BY ClientIsSure DEF ClientSure
<1>4. /\ Changes(C, t, {"state", "wbuf", "key_block", "wkey"})
      /\ t.state = "CW_FINISHED"
    <2>1. t = SendChangeCipherSpec(C, "CW_FINISHED")
        BY DEF ssl3_send_client_change_cipher_spec
    <2> HIDE DEF t
    <2> QED BY <1>1, <2>1, ChangeCipherSpecSheet, ZenonT(60)
<1>5. Wrote(C, t)
    BY <1>1, ChangeCipherSpecSheet, CcsWrites DEF ssl3_send_client_change_cipher_spec
<1> HIDE DEF t
<1>6. t.who = C.who /\ DOMAIN t = Fields /\ t.reuse_message = Null
    BY <1>1, <1>4 DEF Changes, Fields
<1>7. /\ DOMAIN t.session = SessionFields /\ t.session.tick = C.session.tick /\ t.session.id = C.session.id
      /\ t.session.peer = C.session.peer
    BY <1>1, <1>4 DEF Changes, Fields, SessionFields
<1>8. /\ Position(t) \notin ClientOffers /\ t.state \notin {"BEFORE", "CW_CLNT_HELLO", "CR_HELLO_VERIFY"}
      /\ t.state = "FLUSH" => t.next_state \in {"CR_SRVR_HELLO", "ST_OK", "CR_SESSION_TICKET", "CR_FINISHED"}
    BY <1>4 DEF Position, ClientOffers
<1>9. ClientGoes(C, t)
    BY <1>1, <1>2, <1>5, <1>6, <1>7, <1>8, ClientContinues
<1> QED BY <1>9 DEF t

LEMMA ClientSendsFinished ==
    ASSUME NEW C, ClientIs(C, "CW_FINISHED")
    PROVE  ClientGoes(C, ssl3_send_client_finished(C))
<1> DEFINE t == ssl3_send_client_finished(C)
<1>1. /\ DOMAIN C = Fields /\ DOMAIN C.session = SessionFields /\ IsSsl(C, "client") /\ ClientAuth(cfg, C)
      /\ C.state = "CW_FINISHED" /\ C.who = "client" /\ C.reuse_message = Null
    BY DEF ClientIs, IsSsl, ClientAuth, ClientKeeps
<1>2. cfg.kex # "anon" => C.session.peer
    BY ClientIsSure DEF ClientSure
<1>4. /\ Changes(C, t, {"wbuf", "handshake_hash", "handshake_transcript", "previous_client_finished", "ccs_ok",
                       "state", "next_state"})
      /\ t.state = "FLUSH" /\ t.next_state \in {"ST_OK", "CR_SESSION_TICKET", "CR_FINISHED"}
    BY <1>1, ClientFinishedSheet
<1>5. Wrote(C, t)
    BY <1>1, ClientFinishedSheet, SentWrites DEF VerifyData, Message
<1> HIDE DEF t
<1>6. t.who = C.who /\ DOMAIN t = Fields /\ t.reuse_message = Null
    BY <1>1, <1>4 DEF Changes, Fields
<1>7. /\ DOMAIN t.session = SessionFields /\ t.session.tick = C.session.tick /\ t.session.id = C.session.id
      /\ t.session.peer = C.session.peer
    BY <1>1, <1>4 DEF Changes, Fields, SessionFields
<1>8. /\ Position(t) \notin ClientOffers /\ t.state \notin {"BEFORE", "CW_CLNT_HELLO", "CR_HELLO_VERIFY"}
      /\ t.state = "FLUSH" => t.next_state \in {"CR_SRVR_HELLO", "ST_OK", "CR_SESSION_TICKET", "CR_FINISHED"}
    BY <1>4 DEF Position, ClientOffers
<1>9. ClientGoes(C, t)
    BY <1>1, <1>2, <1>5, <1>6, <1>7, <1>8, ClientContinues
<1> QED BY <1>9 DEF t

LEMMA ClientConnected ==
    ASSUME NEW C, ClientIs(C, "ST_OK")
    PROVE  ClientGoes(C, Connected(C))
<1> DEFINE t == Connected(C)
<1>1. /\ DOMAIN C = Fields /\ DOMAIN C.session = SessionFields /\ IsSsl(C, "client") /\ ClientAuth(cfg, C)
      /\ C.state = "ST_OK" /\ C.who = "client" /\ C.reuse_message = Null
    BY DEF ClientIs, IsSsl, ClientAuth, ClientKeeps
<1>2. cfg.kex # "anon" => C.session.peer
    BY ClientIsSure DEF ClientSure
<1>3. SUFFICES ASSUME ~Fails(C, t) PROVE ClientGoes(C, t)
    BY <1>1, ClientFails DEF Changes
<1>4. /\ Changes(C, t, {"state", "key_block", "bbio", "wbuf", "renegotiate", "new_session", "done"})
      /\ t.state = "Established"
    BY <1>1, <1>3, ConnectedSheet
<1>5. Wrote(C, t)
    BY <1>1, <1>3, ConnectedSheet DEF Wrote
<1> HIDE DEF t
<1>6. t.who = C.who /\ DOMAIN t = Fields /\ t.reuse_message = Null
    BY <1>1, <1>4 DEF Changes, Fields
<1>7. /\ DOMAIN t.session = SessionFields /\ t.session.tick = C.session.tick /\ t.session.id = C.session.id
      /\ t.session.peer = C.session.peer
    BY <1>1, <1>4 DEF Changes, Fields, SessionFields
<1>8. /\ Position(t) \notin ClientOffers /\ t.state \notin {"BEFORE", "CW_CLNT_HELLO", "CR_HELLO_VERIFY"}
      /\ t.state = "FLUSH" => t.next_state \in {"CR_SRVR_HELLO", "ST_OK", "CR_SESSION_TICKET", "CR_FINISHED"}
    BY <1>4 DEF Position, ClientOffers
<1>9. ClientGoes(C, t)
    BY <1>1, <1>2, <1>5, <1>6, <1>7, <1>8, ClientContinues
<1> QED BY <1>9 DEF t

LEMMA ClientNewSessionTicket ==
    ASSUME NEW C, NEW s, NEW m, ClientIs(C, "CR_SESSION_TICKET"), HasRead(C, s, m), MessageOK(cfg, m)
    PROVE  ClientGoes(C, ssl3_get_new_session_ticket(s, m))
<1> DEFINE t == ssl3_get_new_session_ticket(s, m)
<1>1. /\ Changes(C, s, {"reuse_message", "handshake_hash", "handshake_transcript"})
      /\ s.reuse_message = Null /\ DOMAIN s = Fields /\ s.session = C.session /\ s.wbuf = C.wbuf /\ s.who = C.who
      /\ DOMAIN s.session = SessionFields /\ IsSsl(C, "client") /\ ClientAuth(cfg, C) /\ C.state = "CR_SESSION_TICKET"
      /\ C.reuse_message = Null
    BY HasReadIs DEF ClientIs, IsSsl, ClientAuth, ClientKeeps
<1>2. CASE Fails(s, t)
    BY <1>1, <1>2, ClientFails DEF ClientKeeps
<1>3. cfg.kex # "anon" => C.session.peer
    BY ClientIsSure DEF ClientSure
<1>4. CASE /\ Changes(s, t, {"state", "ccs_ok", "reuse_message"}) /\ t.state = "CR_FINISHED"
           /\ t.reuse_message = Some(m)
    <2> HIDE DEF t
    <2>1. /\ t.who = s.who /\ t.wbuf = s.wbuf /\ DOMAIN t = Fields
          /\ t.session = s.session /\ DOMAIN t.session = SessionFields
        BY <1>1, <1>4 DEF Changes, Fields
    <2>2. Position(t) \notin ClientOffers /\ t.state \notin {"BEFORE", "CW_CLNT_HELLO", "CR_HELLO_VERIFY", "FLUSH"}
        BY <1>4 DEF Position, ClientOffers
    <2>3. t.state \in ClientKeeps \ {"CR_HELLO_VERIFY"} /\ MessageOK(cfg, t.reuse_message[1]) /\ Wrote(C, t)
        BY <1>1, <1>4, <2>1 DEF Wrote, ClientKeeps, Some
    <2> QED BY <1>1, <1>3, <2>1, <2>2, <2>3, ClientContinues DEF t
<1>5. CASE /\ Changes(s, t, {"state", "ccs_ok", "session"}) /\ t.state = "CR_FINISHED" /\ m.mt = "NewSessionTicket"
           /\ DOMAIN t.session = SessionFields /\ t.session.peer = s.session.peer
           /\ t.session.tick = Some(m.body) /\ t.session.id = <<"tk", m.body.n>>
    <2> HIDE DEF t
    <2>1. t.who = s.who /\ t.wbuf = s.wbuf /\ DOMAIN t = Fields /\ t.reuse_message = Null
        BY <1>1, <1>5 DEF Changes, Fields
    <2>2. /\ DOMAIN t.session = SessionFields /\ t.session.peer = s.session.peer
          /\ t.session.tick = Some(m.body) /\ t.session.id = <<"tk", m.body.n>>
        BY <1>1, <1>5 DEF SessionFields
    <2>3. t.session.id # Null /\ TicketOK(cfg, t.session.tick[1])
        BY <1>5, <2>2 DEF MessageOK, Some, Null
    <2>4. Position(t) \notin ClientOffers /\ t.state \notin {"BEFORE", "CW_CLNT_HELLO", "CR_HELLO_VERIFY", "FLUSH"}
        BY <1>5 DEF Position, ClientOffers
    <2>5. IsSsl(t, "client") /\ Wrote(C, t)
        BY <1>1, <2>1, <2>2 DEF IsSsl, Wrote
    <2> QED BY <1>1, <1>3, <2>1, <2>2, <2>3, <2>4, <2>5, ClientMoves DEF t
<1> QED BY <1>1, <1>2, <1>4, <1>5, NewSessionTicketSheet

LEMMA ClientServerFinished ==
    ASSUME NEW C, NEW s, NEW m, ClientIs(C, "CR_FINISHED"), HasRead(C, s, m), MessageOK(cfg, m)
    PROVE  ClientGoes(C, ssl3_get_server_finished(s, m))
<1> DEFINE state == IF s.hit THEN "CW_CHANGE" ELSE "ST_OK"
           t == GetFinished(s, m, state)
<1>1. /\ Changes(C, s, {"reuse_message", "handshake_hash", "handshake_transcript"})
      /\ s.reuse_message = Null /\ DOMAIN s = Fields /\ s.session = C.session /\ s.wbuf = C.wbuf /\ s.who = C.who
      /\ DOMAIN s.session = SessionFields /\ IsSsl(C, "client") /\ ClientAuth(cfg, C) /\ C.state = "CR_FINISHED"
      /\ s.who \in Endpoint /\ s.who = "client"
    BY HasReadIs DEF ClientIs, IsSsl, Endpoint
<1>2. CASE Fails(s, t)
    BY <1>1, <1>2, ClientFails DEF ClientKeeps, ssl3_get_server_finished
<1>3. cfg.kex # "anon" => C.session.peer
    BY ClientIsSure DEF ClientSure
<1>4. CASE ~Fails(s, t)
    <2>1. Changes(s, t, {"change_cipher_spec", "state", "previous_server_finished"}) /\ t.state \in {"CW_CHANGE", "ST_OK"}
        BY <1>1, <1>4, GetFinishedSheet
    <2> HIDE DEF t
    <2>2. /\ t.who = s.who /\ t.wbuf = s.wbuf /\ DOMAIN t = Fields /\ t.reuse_message = Null
          /\ t.session = s.session /\ DOMAIN t.session = SessionFields
        BY <1>1, <2>1 DEF Changes, Fields
    <2>3. Position(t) \notin ClientOffers /\ t.state \notin {"BEFORE", "CW_CLNT_HELLO", "CR_HELLO_VERIFY", "FLUSH"}
        BY <2>1 DEF Position, ClientOffers
    <2>4. Wrote(C, t)
        BY <1>1, <2>2 DEF Wrote
    <2> QED BY <1>1, <1>3, <2>2, <2>3, <2>4, ClientContinues DEF t, ssl3_get_server_finished
<1> QED BY <1>2, <1>4

LEMMA ClientSkipsCertificate ==
    ASSUME NEW C, ClientIs(C, "CR_CERT")
    PROVE  ClientGoes(C, SkipServerCertificate(C))
<1> DEFINE t == SkipServerCertificate(C)
<1>1. /\ DOMAIN C = Fields /\ DOMAIN C.session = SessionFields /\ IsSsl(C, "client") /\ ClientAuth(cfg, C)
    BY DEF ClientIs, IsSsl
<1>2. Changes(C, t, {"state", "ccs_ok"}) /\ t.state = "CR_KEY_EXCH"
    BY <1>1, SkipServerCertificateSheet
<1> HIDE DEF t
<1>3. /\ t.who = C.who /\ DOMAIN t = Fields /\ t.reuse_message = C.reuse_message /\ t.session = C.session
      /\ t.wbuf = C.wbuf
    BY <1>2 DEF Changes, Fields
<1>4. /\ Position(t) \notin ClientOffers \union ClientSure
      /\ t.state \notin {"BEFORE", "CW_CLNT_HELLO", "CR_HELLO_VERIFY", "FLUSH"} /\ t.state \in ClientKeeps
    BY <1>2 DEF Position, ClientOffers, ClientSure, ClientKeeps
<1>5. t.reuse_message # Null => MessageOK(cfg, t.reuse_message[1])
    BY <1>1, <1>3 DEF ClientAuth
<1>6. Wrote(C, t)
    BY <1>3 DEF Wrote
<1> QED BY <1>1, <1>3, <1>4, <1>5, <1>6, ClientContinues DEF t

(* The hello of the server, when it is not kept for the state that verifies. *)
LEMMA ClientServerHello ==
    ASSUME NEW C, NEW s, NEW m, ClientIs(C, "CR_SRVR_HELLO"), HasRead(C, s, m),
           ~(m.mt = "HelloVerifyRequest" /\ ~s.send_cookie)
    PROVE  ClientGoes(C, ssl3_get_server_hello(s, m))
<1> DEFINE t == ssl3_get_server_hello(s, m)
<1>1. /\ Changes(C, s, {"reuse_message", "handshake_hash", "handshake_transcript"})
      /\ s.reuse_message = Null /\ DOMAIN s = Fields /\ s.session = C.session /\ s.wbuf = C.wbuf /\ s.who = C.who
      /\ DOMAIN s.session = SessionFields /\ IsSsl(C, "client") /\ ClientAuth(cfg, C) /\ C.state = "CR_SRVR_HELLO"
      /\ C.reuse_message = Null
    BY HasReadIs DEF ClientIs, IsSsl, ClientAuth, ClientKeeps
<1>2. CASE Fails(s, t)
    BY <1>1, <1>2, ClientFails
<1>3. CASE ~Fails(s, t)
    <2>1. /\ Changes(s, t, {"sr", "cipher", "hit", "session", "ccs_ok", "handshake_hash", "ticket_expected",
                            "status_expected", "handshake_transcript", "state"})
          /\ t.hit = Resumes(s, m)
          /\ t.session = IF t.hit THEN s.session ELSE ClientMiss(s.session, m.body.id)
          /\ t.hit => t.state \in {"CR_SESSION_TICKET", "CR_FINISHED"}
          /\ ~t.hit => t.state = IF cfg.dtls THEN "CR_HELLO_VERIFY" ELSE "CR_CERT"
        BY <1>1, <1>3, ServerHelloSheet
    <2> HIDE DEF t
    <2>2. t.who = s.who /\ t.wbuf = s.wbuf /\ DOMAIN t = Fields /\ t.reuse_message = Null
        BY <1>1, <2>1 DEF Changes, Fields
    <2>3. cfg.kex # "anon" => (s.session.id # Null => s.session.peer)
        BY <1>1 DEF ClientAuth, Position, ClientOffers
    <2>4. s.session.tick # Null => s.session.id # Null /\ TicketOK(cfg, s.session.tick[1])
        BY <1>1 DEF ClientAuth
    <2>5. CASE t.hit
        <3>1. s.session.id # Null
            BY <2>1, <2>5 DEF Resumes
        <3>2. /\ Position(t) \notin ClientOffers /\ t.state \notin {"BEFORE", "CW_CLNT_HELLO", "CR_HELLO_VERIFY", "FLUSH"}
            BY <2>1, <2>5 DEF Position, ClientOffers
        <3>3. IsSsl(t, "client") /\ Wrote(C, t) /\ t.session = s.session
            BY <1>1, <2>1, <2>2, <2>5 DEF IsSsl, Wrote
        <3> QED BY <2>2, <2>3, <2>4, <3>1, <3>2, <3>3, ClientMoves DEF t
    <2>6. CASE ~t.hit
        <3>1. DOMAIN t.session = SessionFields /\ t.session.tick = Null
            BY <1>1, <2>1, <2>4, <2>6 DEF ClientMiss, NoSession, SessionFields
        <3>2. /\ Position(t) \notin ClientOffers \union ClientSure /\ t.state \notin {"BEFORE", "CW_CLNT_HELLO", "FLUSH"}
              /\ t.state = "CR_HELLO_VERIFY" => cfg.dtls
            BY <2>1, <2>6 DEF Position, ClientOffers, ClientSure
        <3>3. IsSsl(t, "client") /\ Wrote(C, t)
            BY <1>1, <2>2, <3>1 DEF IsSsl, Wrote
        <3> QED BY <2>2, <3>1, <3>2, <3>3, ClientMoves DEF t
    <2> QED BY <2>5, <2>6
<1> QED BY <1>2, <1>3

LEMMA ClientHelloVerify ==
    ASSUME NEW C, NEW s, NEW m, ClientIs(C, "CR_HELLO_VERIFY"), HasRead(C, s, m), MessageOK(cfg, m),
           m.mt # "HelloVerifyRequest"
    PROVE  ClientGoes(C, ssl3_get_dtls_hello_verify(s, m))
<1> DEFINE t == ssl3_get_dtls_hello_verify(s, m)
<1>1. /\ s.reuse_message = Null /\ DOMAIN s = Fields /\ s.session = C.session /\ s.wbuf = C.wbuf /\ s.who = C.who
      /\ DOMAIN s.session = SessionFields /\ IsSsl(C, "client") /\ ClientAuth(cfg, C)
    BY HasReadIs DEF ClientIs, IsSsl
<1>2. /\ Changes(s, t, {"state", "ccs_ok", "send_cookie", "reuse_message"}) /\ t.state = "CR_CERT"
      /\ t.reuse_message = Some(m)
    BY <1>1, HelloVerifySheet
<1> HIDE DEF t
<1>3. t.who = C.who /\ DOMAIN t = Fields /\ t.session = C.session /\ t.wbuf = C.wbuf
    BY <1>1, <1>2 DEF Changes, Fields
<1>4. /\ Position(t) \notin ClientOffers \union ClientSure
      /\ t.state \notin {"BEFORE", "CW_CLNT_HELLO", "CR_HELLO_VERIFY", "FLUSH"} /\ t.state \in ClientKeeps
    BY <1>2 DEF Position, ClientOffers, ClientSure, ClientKeeps
<1>5. MessageOK(cfg, t.reuse_message[1]) /\ Wrote(C, t)
    BY <1>2, <1>3 DEF Wrote, Some
<1> QED BY <1>1, <1>3, <1>4, <1>5, ClientContinues DEF t

LEMMA ClientFlushes ==
    ASSUME NEW C, ClientIs(C, "FLUSH")
    PROVE  ClientGoes(C, FlushBuffer(C)) /\ FlushBuffer(C).state # "Failed"
<1> DEFINE t == FlushBuffer(C)
<1>1. /\ DOMAIN C = Fields /\ IsSsl(C, "client") /\ ClientAuth(cfg, C) /\ C.state = "FLUSH" /\ C.reuse_message = Null
      /\ C.next_state \in {"CR_SRVR_HELLO", "ST_OK", "CR_SESSION_TICKET", "CR_FINISHED"}
    BY DEF ClientIs, IsSsl, ClientAuth, ClientKeeps
<1>2. Changes(C, t, {"state", "ccs_ok", "flush"}) /\ t.state = C.next_state
    BY <1>1, FlushSheet
<1> HIDE DEF t
<1>3. t.who = C.who /\ DOMAIN t = Fields /\ t.reuse_message = Null /\ t.session = C.session /\ t.wbuf = C.wbuf
    BY <1>1, <1>2 DEF Changes, Fields
<1>4. Position(t) = Position(C) /\ ~Verifying(t) /\ ~Verifying(C)
    BY <1>1, <1>2, <1>3 DEF Position, Verifying
<1>5. ClientAuth(cfg, t)
    BY <1>1, <1>2, <1>3, <1>4 DEF ClientAuth
<1>6. IsSsl(t, "client") /\ Wrote(C, t) /\ ClientPlain(C, t)
    BY <1>1, <1>2, <1>3, <1>4 DEF IsSsl, Wrote, ClientPlain
<1> QED BY <1>1, <1>2, <1>5, <1>6 DEF ClientGoes, t

(* A step that leaves the handshake where it is. *)
LEMMA ClientStays ==
    ASSUME NEW C, NEW t, IsSsl(C, "client"), ClientAuth(cfg, C), DOMAIN t = Fields, Wrote(C, t),
           t.who = C.who, t.session = C.session, t.reuse_message = C.reuse_message, C.reuse_message = Null,
           t.state = C.state, t.next_state = C.next_state, C.state \in ReadStates
    PROVE  ClientGoes(C, t)
<1>1. Position(t) = Position(C) /\ ~Verifying(t) /\ ~Verifying(C)
    BY DEF Position, Verifying
<1>2. IsSsl(t, "client") /\ ClientAuth(cfg, t)
    BY <1>1 DEF IsSsl, ClientAuth
<1>3. ClientPlain(C, t)
    BY <1>1 DEF ClientPlain, ReadStates
<1> QED BY <1>2, <1>3 DEF ClientGoes

LEMMA ClientRenegotiates ==
    ASSUME NEW C, NEW t, ClientIs(C, "Established"), ~cfg.dtls, t.state = "RENEGOTIATE",
           Changes(C, t, {"state", "renegotiate", "new_session", "total_renegotiations"})
    PROVE  ClientGoes(C, t)
<1>1. /\ t.who = C.who /\ DOMAIN t = Fields /\ t.reuse_message = C.reuse_message /\ t.session = C.session
      /\ t.wbuf = C.wbuf
    BY DEF Changes, Fields
<1>2. C.reuse_message = Null /\ (cfg.kex # "anon" => C.session.peer)
    BY ClientIsSure DEF ClientIs, ClientAuth, ClientKeeps, ClientSure
<1>3. IsSsl(t, "client") /\ Wrote(C, t)
    BY <1>1 DEF ClientIs, IsSsl, Wrote
<1>4. ClientAuth(cfg, t)
    BY <1>1, <1>2 DEF ClientIs, ClientAuth, Position, Verifying
<1>5. ClientPlain(C, t)
    BY <1>1, <1>2 DEF ClientPlain, Position, Verifying
<1> QED BY <1>3, <1>4, <1>5 DEF ClientGoes

(* The steps that begin a handshake. *)
LEMMA ClientConnects ==
    ASSUME NEW C, NEW state, state \in {"BEFORE", "RENEGOTIATE"}, ClientIs(C, state)
    PROVE  LET t == Connect(C)
           IN  /\ IsSsl(t, "client") /\ ClientAuth(cfg, t) /\ Wrote(C, t)
               /\ t.state = "Failed" \/ (t.state = "CW_CLNT_HELLO" /\ t.wbuf = C.wbuf /\ (cfg.dtls => ~t.send_cookie))
<1> DEFINE t == Connect(C)
<1>1. /\ DOMAIN C = Fields /\ IsSsl(C, "client") /\ ClientAuth(cfg, C) /\ C.reuse_message = Null
      /\ cfg.kex # "anon" => (C.session.id # Null => C.session.peer)
    BY DEF ClientIs, IsSsl, ClientAuth, ClientKeeps, ClientOffers, Position
<1>2. CASE Fails(C, t)
    <2>1. ClientGoes(C, t) /\ t.state = "Failed"
        BY <1>1, <1>2, ClientFails DEF Changes, Fails
    <2> QED BY <2>1 DEF ClientGoes
<1>3. CASE ~Fails(C, t)
    <2>1. /\ Changes(C, t, {"handshake_transcript", "frozen", "state", "n", "bbio", "renegotiate", "send_cookie", "hit"})
          /\ t.state = "CW_CLNT_HELLO" /\ (cfg.dtls => ~t.send_cookie)
        BY <1>1, <1>3, ConnectSheet
    <2> HIDE DEF t
    <2>2. /\ t.who = C.who /\ DOMAIN t = Fields /\ t.reuse_message = C.reuse_message /\ t.session = C.session
          /\ t.wbuf = C.wbuf
        BY <2>1 DEF Changes, Fields
    <2>3. ClientAuth(cfg, t)
        BY <1>1, <2>1, <2>2 DEF ClientAuth, Position, Verifying, ClientSure
    <2>4. IsSsl(t, "client") /\ Wrote(C, t)
        BY <1>1, <2>2 DEF IsSsl, Wrote
    <2> QED BY <2>1, <2>2, <2>3, <2>4 DEF t
<1> QED BY <1>2, <1>3

LEMMA ClientSendsHello ==
    ASSUME NEW C, ClientIs(C, "CW_CLNT_HELLO")
    PROVE  LET t == ssl3_send_client_hello(C)
           IN  /\ IsSsl(t, "client") /\ ClientAuth(cfg, t)
               /\ Position(t) = "CR_SRVR_HELLO" /\ t.state = (IF C.send_cookie THEN "FLUSH" ELSE "CR_SRVR_HELLO")
               /\ t.send_cookie = C.send_cookie /\ t.reuse_message = Null
               /\ \E r : /\ t.wbuf = Append(C.wbuf, r) /\ RecordOK(cfg, r) /\ Is(r, "ClientHello") /\ ~VerifyRequest(r)
                         /\ r.msg.body.cookie = C.send_cookie
<1> DEFINE t == ssl3_send_client_hello(C)
           m == ClientHello(t)
           r == WireRecord(C, "handshake", m)
<1>1. /\ DOMAIN C = Fields /\ IsSsl(C, "client") /\ ClientAuth(cfg, C) /\ C.reuse_message = Null
      /\ cfg.kex # "anon" => (C.session.id # Null => C.session.peer)
      /\ C.session.tick # Null => C.session.id # Null /\ TicketOK(cfg, C.session.tick[1])
    BY DEF ClientIs, IsSsl, ClientAuth, ClientKeeps, ClientOffers, Position
<1>2. /\ Changes(C, t, {"handshake_hash", "handshake_transcript", "frozen", "cr", "session",
                        "state", "next_state", "bbio", "ccs_ok", "wbuf"})
      /\ t.session = IF C.session.id = Null /\ C.session.tick = Null THEN NoSession ELSE C.session
      /\ Sent(C, t, m)
      /\ Position(t) = "CR_SRVR_HELLO" /\ t.state = IF C.send_cookie THEN "FLUSH" ELSE "CR_SRVR_HELLO"
    BY <1>1, ClientHelloSheet
<1> HIDE DEF t
<1>3. t.who = C.who /\ DOMAIN t = Fields /\ t.reuse_message = Null /\ t.send_cookie = C.send_cookie
    BY <1>1, <1>2 DEF Changes, Fields
<1>4. /\ DOMAIN t.session = SessionFields
      /\ cfg.kex # "anon" => (t.session.id # Null => t.session.peer)
      /\ t.session.tick # Null => t.session.id # Null /\ TicketOK(cfg, t.session.tick[1])
    BY <1>1, <1>2 DEF IsSsl, NoSession, SessionFields
<1>5. t.state = "FLUSH" => t.next_state = "CR_SRVR_HELLO"
    BY <1>2 DEF Position
<1>6. IsSsl(t, "client") /\ ClientAuth(cfg, t)
    BY <1>1, <1>2, <1>3, <1>4, <1>5 DEF IsSsl, ClientAuth, Verifying, ClientSure
<1>7. m.mt = "ClientHello" /\ m.body.cookie = t.send_cookie /\ m.body.tick \in {Null, t.session.tick}
    BY DEF ClientHello, Message, Offered
<1> HIDE DEF m
<1>8. r.type = "handshake" /\ r.msg = m
    BY DEF WireRecord
<1>9. MessageOK(cfg, m)
    BY <1>4, <1>7 DEF MessageOK
<1>10. RecordOK(cfg, r) /\ Is(r, "ClientHello") /\ ~VerifyRequest(r) /\ r.msg.body.cookie = C.send_cookie
    BY <1>3, <1>7, <1>8, <1>9 DEF RecordOK, Is, VerifyRequest
<1>11. t.wbuf = Append(C.wbuf, r)
    BY <1>2 DEF Sent
<1> QED BY <1>2, <1>3, <1>6, <1>10, <1>11 DEF t
-----------------------------------------------------------------------------
(* The server keeps what it knows of its client, handler by handler. *)

ServerGoes(s, t) ==
    /\ IsSsl(t, "server") /\ ServerAuth(cfg, t) /\ Wrote(s, t)
    /\ t.state = "Failed" \/ Position(t) # "SW_HELLO_VERIFY"

ServerIs(s, state) == IsSsl(s, "server") /\ ServerAuth(cfg, s) /\ s.state = state

LEMMA ServerFails ==
    ASSUME NEW S, NEW t, IsSsl(S, "server"), ServerAuth(cfg, S),
           NEW s, Changes(S, s, {"reuse_message", "handshake_hash", "handshake_transcript"}),
           s.reuse_message \in {Null, S.reuse_message}, Fails(s, t)
    PROVE  ServerGoes(S, t)
<1>1. /\ t.session = S.session /\ t.who = S.who /\ DOMAIN t = Fields /\ t.state = "Failed"
      /\ t.reuse_message \in {Null, S.reuse_message} /\ s.wbuf = S.wbuf
    BY DEF Fails, Changes, Fields
<1>2. IsSsl(t, "server")
    BY <1>1 DEF IsSsl
<1>3. ServerAuth(cfg, t)
    BY <1>1 DEF ServerAuth, Position, ServerAsks, ServerUnsure, ServerSure
<1>4. Wrote(S, t)
    BY <1>1, FailsWrites DEF Wrote
<1> QED BY <1>1, <1>2, <1>3, <1>4 DEF ServerGoes

(* The session of a server that may rely on it does not change. *)
LEMMA ServerContinues ==
    ASSUME NEW S, NEW t, IsSsl(S, "server"), ServerAuth(cfg, S), SessionOK(cfg, S.session),
           DOMAIN t = Fields, t.who = S.who, DOMAIN t.session = SessionFields, Wrote(S, t),
           t.session.peer = S.session.peer, t.session.proved = S.session.proved,
           t.reuse_message = Null, Position(t) \in {"SR_FINISHED", "SW_SESSION_TICKET", "SW_CHANGE", "SW_FINISHED", "ST_OK", "Established"},
           t.state = "FLUSH" => t.next_state \in {"SR_CLNT_HELLO", "SR_CERT", "SR_FINISHED", "ST_OK"}
    PROVE  ServerGoes(S, t)
<1>1. IsSsl(t, "server") /\ SessionOK(cfg, t.session)
    BY DEF IsSsl, SessionOK
<1>2. Position(t) \notin ServerAsks \union ServerUnsure \union {"RENEGOTIATE", "SW_HELLO_REQ", "SW_SRVR_HELLO", "SW_HELLO_VERIFY"}
    BY DEF ServerAsks, ServerUnsure
<1>3. Position(t) \notin {"SW_SRVR_DONE", "SR_CERT"}
    OBVIOUS
<1>4. ServerAuth(cfg, t)
    BY <1>1, <1>2, <1>3 DEF ServerAuth
<1> QED BY <1>1, <1>2, <1>4 DEF ServerGoes

(* Before the certificate of the client. *)
LEMMA ServerAsksOn ==
    ASSUME NEW S, NEW t, IsSsl(S, "server"), ServerAuth(cfg, S), ~S.session.peer,
           DOMAIN t = Fields, t.who = S.who, t.session = S.session, Wrote(S, t), t.reuse_message = Null,
           Position(t) \in ServerAsks,
           Verifies("fail") /\ Position(t) \in {"SW_SRVR_DONE", "SR_CERT"} => t.cert_request = 1,
           t.state = "FLUSH" => t.next_state \in {"SR_CLNT_HELLO", "SR_CERT", "SR_FINISHED", "ST_OK"}
    PROVE  ServerGoes(S, t)
<1>1. Position(t) \notin ServerUnsure \union ServerSure \union {"RENEGOTIATE", "SW_HELLO_REQ", "SW_SRVR_HELLO", "SW_HELLO_VERIFY"}
    BY DEF ServerAsks, ServerUnsure, ServerSure
<1>2. ServerAuth(cfg, t)
    BY <1>1 DEF ServerAuth, Verifies
<1>3. IsSsl(t, "server")
    BY DEF IsSsl
<1> QED BY <1>1, <1>2, <1>3 DEF ServerGoes

LEMMA ServerHasRead ==
    ASSUME NEW S, NEW s, NEW m, IsSsl(S, "server"), HasRead(S, s, m)
    PROVE  /\ Changes(S, s, {"reuse_message", "handshake_hash", "handshake_transcript"})
           /\ s.reuse_message = Null /\ DOMAIN s = Fields /\ s.session = S.session /\ s.state = S.state
           /\ s.wbuf = S.wbuf /\ s.who = S.who /\ s.next_state = S.next_state
    BY DEF HasRead, Changes, Fields

LEMMA ServerSendsCertificate ==
    ASSUME NEW S, ServerIs(S, "SW_CERT")
    PROVE  ServerGoes(S, ssl3_send_server_certificate(S))
<1> DEFINE t == ssl3_send_server_certificate(S)
<1>1. /\ DOMAIN S = Fields /\ IsSsl(S, "server") /\ ServerAuth(cfg, S) /\ S.reuse_message = Null /\ ~S.session.peer
    BY DEF ServerIs, IsSsl, ServerAuth, Position, ServerAsks
<1>2. PICK m : /\ SendsOr(S, t, m) /\ t.state \in {"SW_KEY_EXCH", "SW_CERT_STATUS"}
               /\ m.mt \notin {"ClientHello", "NewSessionTicket", "HelloRequest", "HelloVerifyRequest"}
    BY <1>1, SendCertificateSheet DEF Certificate, Message
<1>3. t.cert_request = S.cert_request
    BY <1>1, SendCertificateSheet
<1> HIDE DEF t
<1>4. t.who = S.who /\ DOMAIN t = Fields /\ t.session = S.session /\ t.reuse_message = Null
    BY <1>1, <1>2 DEF SendsOr, Changes, Fields
<1>5. t.wbuf = S.wbuf \/ Sent(S, t, m)
    BY <1>2 DEF SendsOr, Changes, Fields
<1>6. Wrote(S, t)
    BY <1>2, <1>5, SentWrites DEF Wrote
<1>7. /\ Position(t) \in ServerAsks /\ t.state # "FLUSH"
      /\ Verifies("fail") /\ Position(t) \in {"SW_SRVR_DONE", "SR_CERT"} => t.cert_request = 1
    BY <1>2, <1>3 DEF Position, ServerAsks
<1>8. ServerGoes(S, t)
    BY <1>1, <1>4, <1>6, <1>7, ServerAsksOn
<1> QED BY <1>8 DEF t

LEMMA ServerSendsStatus ==
    ASSUME NEW S, ServerIs(S, "SW_CERT_STATUS")
    PROVE  ServerGoes(S, ssl3_send_cert_status(S))
<1> DEFINE t == ssl3_send_cert_status(S)
<1>1. /\ DOMAIN S = Fields /\ IsSsl(S, "server") /\ ServerAuth(cfg, S) /\ S.reuse_message = Null /\ ~S.session.peer
    BY DEF ServerIs, IsSsl, ServerAuth, Position, ServerAsks
<1>2. PICK m : /\ SendsOr(S, t, m) /\ t.state \in {"SW_KEY_EXCH"}
               /\ m.mt \notin {"ClientHello", "NewSessionTicket", "HelloRequest", "HelloVerifyRequest"}
    BY <1>1, SendCertStatusSheet DEF Message
<1>3. t.cert_request = S.cert_request
    BY <1>1, SendCertStatusSheet
<1> HIDE DEF t
<1>4. t.who = S.who /\ DOMAIN t = Fields /\ t.session = S.session /\ t.reuse_message = Null
    BY <1>1, <1>2 DEF SendsOr, Changes, Fields
<1>5. t.wbuf = S.wbuf \/ Sent(S, t, m)
    BY <1>2 DEF SendsOr, Changes, Fields
<1>6. Wrote(S, t)
    BY <1>2, <1>5, SentWrites DEF Wrote
<1>7. /\ Position(t) \in ServerAsks /\ t.state # "FLUSH"
      /\ Verifies("fail") /\ Position(t) \in {"SW_SRVR_DONE", "SR_CERT"} => t.cert_request = 1
    BY <1>2, <1>3 DEF Position, ServerAsks
<1>8. ServerGoes(S, t)
    BY <1>1, <1>4, <1>6, <1>7, ServerAsksOn
<1> QED BY <1>8 DEF t

LEMMA ServerSendsKeyExchange ==
    ASSUME NEW S, ServerIs(S, "SW_KEY_EXCH")
    PROVE  ServerGoes(S, ssl3_send_server_key_exchange(S))
<1> DEFINE t == ssl3_send_server_key_exchange(S)
<1>1. /\ DOMAIN S = Fields /\ IsSsl(S, "server") /\ ServerAuth(cfg, S) /\ S.reuse_message = Null /\ ~S.session.peer
    BY DEF ServerIs, IsSsl, ServerAuth, Position, ServerAsks
<1>2. PICK m : /\ SendsOr(S, t, m) /\ t.state \in {"SW_CERT_REQ"}
               /\ m.mt \notin {"ClientHello", "NewSessionTicket", "HelloRequest", "HelloVerifyRequest"}
    BY <1>1, SendKeyExchangeSheet DEF Message
<1>3. t.cert_request = S.cert_request
    BY <1>1, SendKeyExchangeSheet
<1> HIDE DEF t
<1>4. t.who = S.who /\ DOMAIN t = Fields /\ t.session = S.session /\ t.reuse_message = Null
    BY <1>1, <1>2 DEF SendsOr, Changes, Fields
<1>5. t.wbuf = S.wbuf \/ Sent(S, t, m)
    BY <1>2 DEF SendsOr, Changes, Fields
<1>6. Wrote(S, t)
    BY <1>2, <1>5, SentWrites DEF Wrote
<1>7. /\ Position(t) \in ServerAsks /\ t.state # "FLUSH"
      /\ Verifies("fail") /\ Position(t) \in {"SW_SRVR_DONE", "SR_CERT"} => t.cert_request = 1
    BY <1>2, <1>3 DEF Position, ServerAsks
<1>8. ServerGoes(S, t)
    BY <1>1, <1>4, <1>6, <1>7, ServerAsksOn
<1> QED BY <1>8 DEF t

LEMMA ServerSendsRequest ==
    ASSUME NEW S, ServerIs(S, "SW_CERT_REQ"), cfg \in Configs
    PROVE  ServerGoes(S, ssl3_send_certificate_request(S))
<1> DEFINE t == ssl3_send_certificate_request(S)
<1>1. /\ DOMAIN S = Fields /\ IsSsl(S, "server") /\ ServerAuth(cfg, S) /\ S.reuse_message = Null /\ ~S.session.peer
    BY DEF ServerIs, IsSsl, ServerAuth, Position, ServerAsks
<1>2. PICK m : /\ SendsOr(S, t, m) /\ t.state \in {"SW_SRVR_DONE"}
               /\ m.mt \notin {"ClientHello", "NewSessionTicket", "HelloRequest", "HelloVerifyRequest"}
    BY <1>1, SendCertificateRequestSheet DEF Message
<1>3. Verifies("fail") => t.cert_request = 1
    BY <1>1, SendCertificateRequestSheet, ConfigAssumption DEF Verifies, NoRequest
<1> HIDE DEF t
<1>4. t.who = S.who /\ DOMAIN t = Fields /\ t.session = S.session /\ t.reuse_message = Null
    BY <1>1, <1>2 DEF SendsOr, Changes, Fields
<1>5. t.wbuf = S.wbuf \/ Sent(S, t, m)
    BY <1>2 DEF SendsOr, Changes, Fields
<1>6. Wrote(S, t)
    BY <1>2, <1>5, SentWrites DEF Wrote
<1>7. /\ Position(t) \in ServerAsks /\ t.state # "FLUSH"
      /\ Verifies("fail") /\ Position(t) \in {"SW_SRVR_DONE", "SR_CERT"} => t.cert_request = 1
    BY <1>2, <1>3 DEF Position, ServerAsks
<1>8. ServerGoes(S, t)
    BY <1>1, <1>4, <1>6, <1>7, ServerAsksOn
<1> QED BY <1>8 DEF t

LEMMA ServerSendsDone ==
    ASSUME NEW S, ServerIs(S, "SW_SRVR_DONE")
    PROVE  ServerGoes(S, ssl3_send_server_done(S))
<1> DEFINE t == ssl3_send_server_done(S)
<1>1. /\ DOMAIN S = Fields /\ IsSsl(S, "server") /\ ServerAuth(cfg, S) /\ S.reuse_message = Null /\ ~S.session.peer
      /\ Verifies("fail") => S.cert_request = 1
    BY DEF ServerIs, IsSsl, ServerAuth, Position, ServerAsks, Verifies
<1>2. /\ Changes(S, t, {"state", "next_state", "handshake_transcript", "wbuf", "handshake_hash"})
      /\ t.state = "FLUSH" /\ t.next_state = "SR_CERT"
    BY <1>1, SendServerDoneSheet
<1>3. Wrote(S, t)
    BY <1>1, SendServerDoneSheet, SentWrites DEF Message
<1> HIDE DEF t
<1>4. /\ t.who = S.who /\ DOMAIN t = Fields /\ t.session = S.session /\ t.reuse_message = Null
      /\ t.cert_request = S.cert_request
    BY <1>1, <1>2 DEF Changes, Fields
<1>5. Position(t) \in ServerAsks
    BY <1>2 DEF Position, ServerAsks
<1>6. ServerGoes(S, t)
    BY <1>1, <1>2, <1>3, <1>4, <1>5, ServerAsksOn
<1> QED BY <1>6 DEF t

LEMMA ServerSkipsCertificate ==
    ASSUME NEW S, ServerIs(S, "SR_CERT"), S.cert_request = 0
    PROVE  ServerGoes(S, SkipClientCertificate(S))
<1> DEFINE t == SkipClientCertificate(S)
<1>1. /\ DOMAIN S = Fields /\ IsSsl(S, "server") /\ S.reuse_message = Null /\ ~("fail" \in cfg.verify)
    BY DEF ServerIs, IsSsl, ServerAuth, Position, ServerAsks
<1>2. Changes(S, t, {"state", "ccs_ok"}) /\ t.state = "SR_KEY_EXCH"
    BY <1>1, SkipClientCertificateSheet
<1> HIDE DEF t
<1>3. t.who = S.who /\ DOMAIN t = Fields /\ t.session = S.session /\ t.reuse_message = Null /\ t.wbuf = S.wbuf
    BY <1>1, <1>2 DEF Changes, Fields
<1>4. Position(t) = "SR_KEY_EXCH"
    BY <1>2 DEF Position
<1>5. ServerAuth(cfg, t)
    BY <1>1, <1>2, <1>3, <1>4 DEF ServerAuth, ServerAsks, ServerUnsure, ServerSure
<1>6. IsSsl(t, "server") /\ Wrote(S, t)
    BY <1>1, <1>3 DEF IsSsl, Wrote
<1> QED BY <1>4, <1>5, <1>6 DEF ServerGoes, t

LEMMA ServerClientCertificate ==
    ASSUME NEW S, NEW s, NEW m, ServerIs(S, "SR_CERT"), HasRead(S, s, m)
    PROVE  ServerGoes(S, ssl3_get_client_certificate(s, m))
<1> DEFINE t == ssl3_get_client_certificate(s, m)
<1>1. /\ Changes(S, s, {"reuse_message", "handshake_hash", "handshake_transcript"})
      /\ s.reuse_message = Null /\ DOMAIN s = Fields /\ s.session = S.session /\ s.wbuf = S.wbuf /\ s.who = S.who
      /\ DOMAIN s.session = SessionFields /\ IsSsl(S, "server") /\ ServerAuth(cfg, S)
    BY ServerHasRead DEF ServerIs, IsSsl
<1>2. CASE Fails(s, t)
    BY <1>1, <1>2, ServerFails
<1>3. CASE ~Fails(s, t)
    <2>1. /\ ~m.body.chain => ~Verifies("fail")
          /\ Changes(s, t, {"state", "ccs_ok", "session", "handshake_transcript"}) /\ t.state = "SR_KEY_EXCH"
          /\ t.session = IF m.body.chain THEN [s.session EXCEPT !.peer = TRUE] ELSE s.session
        BY <1>1, <1>3, GetClientCertificateSheet
    <2> HIDE DEF t
    <2>2. t.who = S.who /\ DOMAIN t = Fields /\ t.reuse_message = Null /\ t.wbuf = S.wbuf
        BY <1>1, <2>1 DEF Changes, Fields
    <2>3. DOMAIN t.session = SessionFields /\ ("fail" \in cfg.verify => t.session.peer)
        BY <1>1, <2>1 DEF SessionFields, Verifies
    <2>4. Position(t) = "SR_KEY_EXCH"
        BY <2>1 DEF Position
    <2>5. ServerAuth(cfg, t)
        BY <2>1, <2>2, <2>3, <2>4 DEF ServerAuth, ServerAsks, ServerUnsure, ServerSure
    <2>6. IsSsl(t, "server") /\ Wrote(S, t)
        BY <1>1, <2>2, <2>3 DEF IsSsl, Wrote
    <2> QED BY <2>4, <2>5, <2>6 DEF ServerGoes, t
<1> QED BY <1>2, <1>3

LEMMA ServerClientKeyExchange ==
    ASSUME NEW S, NEW s, NEW m, ServerIs(S, "SR_KEY_EXCH"), HasRead(S, s, m)
    PROVE  ServerGoes(S, ssl3_get_client_key_exchange(s, m))
<1> DEFINE t == ssl3_get_client_key_exchange(s, m)
<1>1. /\ Changes(S, s, {"reuse_message", "handshake_hash", "handshake_transcript"})
      /\ s.reuse_message = Null /\ DOMAIN s = Fields /\ s.session = S.session /\ s.wbuf = S.wbuf /\ s.who = S.who
      /\ DOMAIN s.session = SessionFields /\ IsSsl(S, "server") /\ ServerAuth(cfg, S)
      /\ "fail" \in cfg.verify => S.session.peer
    BY ServerHasRead DEF ServerIs, IsSsl, ServerAuth, Position, ServerUnsure
<1>2. CASE Fails(s, t)
    BY <1>1, <1>2, ServerFails
<1>3. CASE ~Fails(s, t)
    <2>1. /\ Changes(s, t, {"state", "ccs_ok", "session", "handshake_transcript", "frozen", "cert_verify"})
          /\ t.state = "SR_CERT_VRFY"
          /\ t.session = [s.session EXCEPT !.master = <<m.body.pre, s.cr, s.sr>>]
        BY <1>1, <1>3, GetClientKeyExchangeSheet
    <2> HIDE DEF t
    <2>2. t.who = S.who /\ DOMAIN t = Fields /\ t.reuse_message = Null /\ t.wbuf = S.wbuf
        BY <1>1, <2>1 DEF Changes, Fields
    <2>3. DOMAIN t.session = SessionFields /\ ("fail" \in cfg.verify => t.session.peer)
        BY <1>1, <2>1 DEF SessionFields
    <2>4. Position(t) = "SR_CERT_VRFY"
        BY <2>1 DEF Position
    <2>5. ServerAuth(cfg, t)
        BY <2>1, <2>2, <2>3, <2>4 DEF ServerAuth, ServerAsks, ServerUnsure, ServerSure
    <2>6. IsSsl(t, "server") /\ Wrote(S, t)
        BY <1>1, <2>2, <2>3 DEF IsSsl, Wrote
    <2> QED BY <2>4, <2>5, <2>6 DEF ServerGoes, t
<1> QED BY <1>2, <1>3

LEMMA ServerCertVerify ==
    ASSUME NEW S, NEW s, NEW m, ServerIs(S, "SR_CERT_VRFY"), HasRead(S, s, m), MessageOK(cfg, m)
    PROVE  ServerGoes(S, ssl3_get_cert_verify(s, m))
<1> DEFINE t == ssl3_get_cert_verify(s, m)
<1>1. /\ Changes(S, s, {"reuse_message", "handshake_hash", "handshake_transcript"})
      /\ s.reuse_message = Null /\ DOMAIN s = Fields /\ s.session = S.session /\ s.wbuf = S.wbuf /\ s.who = S.who
      /\ DOMAIN s.session = SessionFields /\ IsSsl(S, "server") /\ ServerAuth(cfg, S)
      /\ "fail" \in cfg.verify => S.session.peer
    BY ServerHasRead DEF ServerIs, IsSsl, ServerAuth, Position, ServerUnsure
<1>2. CASE Fails(s, t)
    BY <1>1, <1>2, ServerFails
<1>3. CASE ~Fails(s, t)
    <2>1. /\ Changes(s, t, {"state", "ccs_ok", "handshake_transcript", "reuse_message", "session"})
          /\ t.state = "SR_FINISHED"
          /\ \/ ~s.session.peer /\ t.reuse_message = Some(m) /\ t.session = s.session
             \/ t.reuse_message = Null /\ t.session = [s.session EXCEPT !.proved = TRUE]
        <3>1. CASE /\ ~s.session.peer
                   /\ Changes(s, t, {"state", "ccs_ok", "handshake_transcript", "reuse_message"})
                   /\ t.state = "SR_FINISHED" /\ t.reuse_message = Some(m)
            BY <3>1 DEF Changes, Fields
        <3>2. CASE /\ Changes(s, t, {"state", "ccs_ok", "handshake_transcript", "session"})
                   /\ t.state = "SR_FINISHED" /\ t.session = [s.session EXCEPT !.proved = TRUE]
            BY <1>1, <3>2 DEF Changes, Fields
        <3> QED BY <1>1, <1>3, <3>1, <3>2, GetCertVerifySheet
    <2> HIDE DEF t
    <2>2. t.who = S.who /\ DOMAIN t = Fields /\ t.wbuf = S.wbuf
        BY <1>1, <2>1 DEF Changes, Fields
    <2>3. DOMAIN t.session = SessionFields /\ SessionOK(cfg, t.session)
        BY <1>1, <2>1 DEF SessionFields, SessionOK
    <2>4. Position(t) = "SR_FINISHED"
        BY <2>1 DEF Position
    <2>5. t.reuse_message # Null => MessageOK(cfg, t.reuse_message[1])
        BY <2>1 DEF Some
    <2>6. ServerAuth(cfg, t)
        BY <2>1, <2>2, <2>3, <2>4, <2>5 DEF ServerAuth, ServerAsks, ServerUnsure, ServerSure
    <2>7. IsSsl(t, "server") /\ Wrote(S, t)
        BY <1>1, <2>2, <2>3 DEF IsSsl, Wrote
    <2> QED BY <2>4, <2>6, <2>7 DEF ServerGoes, t
<1> QED BY <1>2, <1>3

LEMMA ServerClientFinished ==
    ASSUME NEW S, NEW s, NEW m, ServerIs(S, "SR_FINISHED"), HasRead(S, s, m)
    PROVE  ServerGoes(S, ssl3_get_client_finished(s, m))
<1> DEFINE state == IF s.hit THEN "ST_OK" ELSE IF s.ticket_expected THEN "SW_SESSION_TICKET" ELSE "SW_CHANGE"
           t == GetFinished(s, m, state)
<1>1. /\ Changes(S, s, {"reuse_message", "handshake_hash", "handshake_transcript"})
      /\ s.reuse_message = Null /\ DOMAIN s = Fields /\ s.session = S.session /\ s.wbuf = S.wbuf /\ s.who = S.who
      /\ DOMAIN s.session = SessionFields /\ IsSsl(S, "server") /\ ServerAuth(cfg, S)
      /\ SessionOK(cfg, S.session) /\ s.who \in Endpoint /\ s.who = "server"
    BY ServerHasRead DEF ServerIs, IsSsl, ServerAuth, Position, ServerSure, Endpoint
<1>2. CASE Fails(s, t)
    BY <1>1, <1>2, ServerFails DEF ssl3_get_client_finished
<1>3. CASE ~Fails(s, t)
    <2>1. /\ Changes(s, t, {"change_cipher_spec", "state", "previous_client_finished"})
          /\ t.state \in {"SW_SESSION_TICKET", "SW_CHANGE", "ST_OK"}
        BY <1>1, <1>3, GetFinishedSheet
    <2> HIDE DEF t
    <2>2. t.who = S.who /\ DOMAIN t = Fields /\ t.reuse_message = Null /\ t.wbuf = S.wbuf /\ t.session = S.session
        BY <1>1, <2>1 DEF Changes, Fields
    <2>3. Position(t) \in {"SR_FINISHED", "SW_SESSION_TICKET", "SW_CHANGE", "SW_FINISHED", "ST_OK", "Established"}
        BY <2>1 DEF Position
    <2>4. Wrote(S, t)
        BY <2>2 DEF Wrote
    <2> QED BY <1>1, <2>1, <2>2, <2>3, <2>4, ServerContinues DEF t, ssl3_get_client_finished
<1> QED BY <1>2, <1>3

LEMMA ServerSendsTicket ==
    ASSUME NEW S, ServerIs(S, "SW_SESSION_TICKET")
    PROVE  ServerGoes(S, ssl3_send_newsession_ticket(S))
<1> DEFINE t == ssl3_send_newsession_ticket(S)
           m == Message("NewSessionTicket", Ticket(S.n, S.session))
           r == WireRecord(S, "handshake", m)
<1>1. /\ DOMAIN S = Fields /\ IsSsl(S, "server") /\ ServerAuth(cfg, S) /\ S.reuse_message = Null
      /\ SessionOK(cfg, S.session) /\ DOMAIN S.session = SessionFields
    BY DEF ServerIs, IsSsl, ServerAuth, Position, ServerSure
<1>2. /\ Changes(S, t, {"state", "ccs_ok", "wbuf", "handshake_hash", "handshake_transcript"})
      /\ t.state = "SW_CHANGE" /\ Sent(S, t, m)
    BY <1>1, SendNewSessionTicketSheet
<1>3. m.mt = "NewSessionTicket" /\ m.body.peer = S.session.peer /\ m.body.proved = S.session.proved
    BY DEF Message, Ticket
<1> HIDE DEF t, m
<1>4. MessageOK(cfg, m)
    BY <1>1, <1>3 DEF MessageOK, TicketOK, SessionOK
<1>5. r.type = "handshake" /\ r.msg = m
    BY DEF WireRecord
<1>6. RecordOK(cfg, r) /\ ~FirstHello(r) /\ ~VerifyRequest(r)
    BY <1>3, <1>4, <1>5 DEF RecordOK, FirstHello, VerifyRequest, Is
<1>7. Wrote(S, t)
    BY <1>2, <1>6 DEF Wrote, Sent
<1>8. t.who = S.who /\ DOMAIN t = Fields /\ t.reuse_message = Null /\ t.session = S.session
    BY <1>1, <1>2 DEF Changes, Fields
<1>9. Position(t) \in {"SR_FINISHED", "SW_SESSION_TICKET", "SW_CHANGE", "SW_FINISHED", "ST_OK", "Established"}
    BY <1>2 DEF Position
<1> QED BY <1>1, <1>2, <1>7, <1>8, <1>9, ServerContinues DEF t

LEMMA ServerSendsCcs ==
    ASSUME NEW S, ServerIs(S, "SW_CHANGE")
    PROVE  ServerGoes(S, ssl3_send_server_change_cipher_spec(S))
<1> DEFINE t == ssl3_send_server_change_cipher_spec(S)
<1>1. /\ DOMAIN S = Fields /\ IsSsl(S, "server") /\ ServerAuth(cfg, S) /\ S.reuse_message = Null
      /\ SessionOK(cfg, S.session) /\ DOMAIN S.session = SessionFields
    BY DEF ServerIs, IsSsl, ServerAuth, Position, ServerSure
<1>2. Changes(S, t, {"state", "wbuf", "key_block", "wkey"}) /\ t.state = "SW_FINISHED"
    BY <1>1, ChangeCipherSpecSheet DEF ssl3_send_server_change_cipher_spec
<1>3. Wrote(S, t)
    BY <1>1, CcsWrites DEF ssl3_send_server_change_cipher_spec
<1> HIDE DEF t
<1>4. t.who = S.who /\ DOMAIN t = Fields /\ t.reuse_message = Null /\ t.session = S.session
    BY <1>1, <1>2 DEF Changes, Fields
<1>5. Position(t) \in {"SR_FINISHED", "SW_SESSION_TICKET", "SW_CHANGE", "SW_FINISHED", "ST_OK", "Established"}
    BY <1>2 DEF Position
<1> QED BY <1>1, <1>2, <1>3, <1>4, <1>5, ServerContinues DEF t

LEMMA ServerSendsFinished ==
    ASSUME NEW S, ServerIs(S, "SW_FINISHED")
    PROVE  ServerGoes(S, ssl3_send_server_finished(S))
<1> DEFINE t == ssl3_send_server_finished(S)
<1>1. /\ DOMAIN S = Fields /\ IsSsl(S, "server") /\ ServerAuth(cfg, S) /\ S.reuse_message = Null
      /\ SessionOK(cfg, S.session) /\ DOMAIN S.session = SessionFields /\ S.who = "server"
    BY DEF ServerIs, IsSsl, ServerAuth, Position, ServerSure
<1>2. /\ Changes(S, t, {"wbuf", "handshake_hash", "handshake_transcript", "previous_server_finished",
                        "state", "next_state"})
      /\ t.state = "FLUSH" /\ t.next_state \in {"SR_FINISHED", "ST_OK"}
    BY <1>1, ServerFinishedSheet
<1>3. Wrote(S, t)
    BY <1>1, ServerFinishedSheet, SentWrites DEF VerifyData, Message
<1> HIDE DEF t
<1>4. t.who = S.who /\ DOMAIN t = Fields /\ t.reuse_message = Null /\ t.session = S.session
    BY <1>1, <1>2 DEF Changes, Fields
<1>5. Position(t) \in {"SR_FINISHED", "SW_SESSION_TICKET", "SW_CHANGE", "SW_FINISHED", "ST_OK", "Established"}
    BY <1>2 DEF Position
<1> QED BY <1>1, <1>2, <1>3, <1>4, <1>5, ServerContinues DEF t

LEMMA ServerAccepted ==
    ASSUME NEW S, ServerIs(S, "ST_OK")
    PROVE  ServerGoes(S, Accepted(S)) /\ SessionOK(cfg, S.session)
<1> DEFINE t == Accepted(S)
<1>1. /\ DOMAIN S = Fields /\ IsSsl(S, "server") /\ ServerAuth(cfg, S) /\ S.reuse_message = Null
      /\ SessionOK(cfg, S.session) /\ DOMAIN S.session = SessionFields
    BY DEF ServerIs, IsSsl, ServerAuth, Position, ServerSure
<1>2. CASE Fails(S, t)
    BY <1>1, <1>2, ServerFails DEF Changes
<1>3. CASE ~Fails(S, t)
    <2>1. /\ Changes(S, t, {"state", "key_block", "bbio", "wbuf", "renegotiate", "new_session", "done"})
          /\ t.state = "Established" /\ t.wbuf = << >>
        BY <1>1, <1>3, AcceptedSheet
    <2> HIDE DEF t
    <2>2. t.who = S.who /\ DOMAIN t = Fields /\ t.reuse_message = Null /\ t.session = S.session
        BY <1>1, <2>1 DEF Changes, Fields
    <2>3. Position(t) \in {"SR_FINISHED", "SW_SESSION_TICKET", "SW_CHANGE", "SW_FINISHED", "ST_OK", "Established"}
        BY <2>1 DEF Position
    <2>4. Wrote(S, t)
        BY <2>1 DEF Wrote
    <2> QED BY <1>1, <2>1, <2>2, <2>3, <2>4, ServerContinues DEF t
<1> QED BY <1>1, <1>2, <1>3

LEMMA ServerFlushes ==
    ASSUME NEW S, ServerIs(S, "FLUSH")
    PROVE  /\ IsSsl(FlushBuffer(S), "server") /\ ServerAuth(cfg, FlushBuffer(S)) /\ FlushBuffer(S).wbuf = S.wbuf
           /\ Position(FlushBuffer(S)) = Position(S) /\ FlushBuffer(S).state # "Failed"
<1> DEFINE t == FlushBuffer(S)
<1>1. /\ DOMAIN S = Fields /\ IsSsl(S, "server") /\ ServerAuth(cfg, S) /\ S.state = "FLUSH" /\ S.reuse_message = Null
      /\ S.next_state \in {"SR_CLNT_HELLO", "SR_CERT", "SR_FINISHED", "ST_OK"}
    BY DEF ServerIs, IsSsl, ServerAuth
<1>2. Changes(S, t, {"state", "ccs_ok", "flush"}) /\ t.state = S.next_state
    BY <1>1, FlushSheet
<1> HIDE DEF t
<1>3. /\ t.who = S.who /\ DOMAIN t = Fields /\ t.reuse_message = Null /\ t.session = S.session /\ t.wbuf = S.wbuf
      /\ t.hit = S.hit /\ t.cert_request = S.cert_request
    BY <1>1, <1>2 DEF Changes, Fields
<1>4. Position(t) = Position(S) /\ t.state # "FLUSH"
    BY <1>1, <1>2, <1>3 DEF Position
<1>5. ServerAuth(cfg, t)
    BY <1>1, <1>2, <1>3, <1>4 DEF ServerAuth
<1>6. IsSsl(t, "server")
    BY <1>1, <1>3 DEF IsSsl
<1> QED BY <1>1, <1>2, <1>3, <1>4, <1>5, <1>6 DEF t

LEMMA ServerStays ==
    ASSUME NEW S, NEW t, IsSsl(S, "server"), ServerAuth(cfg, S), DOMAIN t = Fields, Wrote(S, t),
           t.who = S.who, t.session = S.session, t.reuse_message = S.reuse_message, t.hit = S.hit,
           t.cert_request = S.cert_request,
           t.state = S.state, t.next_state = S.next_state, S.state \in ReadStates
    PROVE  ServerGoes(S, t)
<1>1. Position(t) = Position(S) /\ Position(t) # "SW_HELLO_VERIFY"
    BY DEF Position, ReadStates
<1>2. IsSsl(t, "server") /\ ServerAuth(cfg, t)
    BY <1>1 DEF IsSsl, ServerAuth
<1> QED BY <1>1, <1>2 DEF ServerGoes

LEMMA ServerRenegotiates ==
    ASSUME NEW S, NEW t, ServerIs(S, "Established"), t.state \in {"RENEGOTIATE", "ACCEPT"},
           t.state = "RENEGOTIATE" => ~cfg.dtls,
           Changes(S, t, {"state", "renegotiate", "new_session", "total_renegotiations"})
    PROVE  ServerGoes(S, t)
<1>1. /\ t.who = S.who /\ DOMAIN t = Fields /\ t.reuse_message = S.reuse_message /\ t.session = S.session
      /\ t.wbuf = S.wbuf
    BY DEF Changes, Fields
<1>2. S.reuse_message = Null /\ SessionOK(cfg, S.session)
    BY DEF ServerIs, ServerAuth, ServerSure, Position
<1>3. IsSsl(t, "server") /\ Wrote(S, t)
    BY <1>1 DEF ServerIs, IsSsl, Wrote
<1>4. Position(t) = t.state
    BY DEF Position
<1>5. ServerAuth(cfg, t)
    BY <1>1, <1>2, <1>4 DEF ServerAuth, ServerAsks, ServerUnsure
<1> QED BY <1>3, <1>4, <1>5 DEF ServerGoes

LEMMA ServerAccepts ==
    ASSUME NEW S, NEW state, state \in {"BEFORE", "ACCEPT", "RENEGOTIATE"}, ServerIs(S, state)
    PROVE  /\ ServerGoes(S, Accept(S))
           /\ state = "BEFORE" /\ Accept(S).state # "Failed" =>
                Position(Accept(S)) = "SR_CLNT_HELLO" /\ Accept(S).wbuf = S.wbuf
<1> DEFINE t == Accept(S)
<1>1. /\ DOMAIN S = Fields /\ IsSsl(S, "server") /\ ServerAuth(cfg, S) /\ S.reuse_message = Null /\ S.state = state
    BY DEF ServerIs, IsSsl, ServerAuth
<1>2. CASE Fails(S, t)
    BY <1>1, <1>2, ServerFails DEF Changes, Fails
<1>3. CASE S.state = "RENEGOTIATE" /\ Changes(S, t, {"renegotiate", "state"}) /\ t.state = "SW_HELLO_REQ"
    <2> HIDE DEF t
    <2>1. /\ t.who = S.who /\ DOMAIN t = Fields /\ t.reuse_message = Null /\ t.session = S.session /\ t.wbuf = S.wbuf
        BY <1>1, <1>3 DEF Changes, Fields
    <2>2. SessionOK(cfg, S.session) /\ ~cfg.dtls
        BY <1>1, <1>3 DEF ServerAuth, ServerSure, Position
    <2>3. Position(t) = "SW_HELLO_REQ"
        BY <1>3 DEF Position
    <2>4. ServerAuth(cfg, t)
        BY <1>3, <2>1, <2>2, <2>3 DEF ServerAuth, ServerAsks, ServerUnsure
    <2>5. IsSsl(t, "server") /\ Wrote(S, t)
        BY <1>1, <2>1 DEF IsSsl, Wrote
    <2> QED BY <1>1, <1>3, <2>3, <2>4, <2>5 DEF ServerGoes, t
<1>4. CASE /\ Changes(S, t, {"handshake_transcript", "frozen", "state", "n", "bbio"}) /\ t.state = "SR_CLNT_HELLO"
    <2> HIDE DEF t
    <2>1. /\ t.who = S.who /\ DOMAIN t = Fields /\ t.reuse_message = Null /\ t.session = S.session /\ t.wbuf = S.wbuf
        BY <1>1, <1>4 DEF Changes, Fields
    <2>2. Position(t) = "SR_CLNT_HELLO"
        BY <1>4 DEF Position
    <2>3. ServerAuth(cfg, t)
        BY <1>4, <2>1, <2>2 DEF ServerAuth, ServerAsks, ServerUnsure, ServerSure
    <2>4. IsSsl(t, "server") /\ Wrote(S, t)
        BY <1>1, <2>1 DEF IsSsl, Wrote
    <2> QED BY <2>1, <2>2, <2>3, <2>4 DEF ServerGoes, t
<1> QED BY <1>1, <1>2, <1>3, <1>4, AcceptSheet

LEMMA ServerSendsHelloRequest ==
    ASSUME NEW S, ServerIs(S, "SW_HELLO_REQ")
    PROVE  ServerGoes(S, ssl3_send_hello_request(S))
<1> DEFINE t == ssl3_send_hello_request(S)
           m == Message("HelloRequest", [none |-> TRUE])
           r == WireRecord(S, "handshake", m)
<1>1. /\ DOMAIN S = Fields /\ IsSsl(S, "server") /\ ServerAuth(cfg, S) /\ S.reuse_message = Null
      /\ SessionOK(cfg, S.session) /\ DOMAIN S.session = SessionFields /\ ~cfg.dtls
    BY DEF ServerIs, IsSsl, ServerAuth, Position, ServerSure
<1>2. Changes(S, t, {"wbuf", "state", "next_state"}) /\ t.state = "FLUSH" /\ t.next_state = "ST_OK" /\ Sent(S, t, m)
    BY <1>1, HelloRequestSheet
<1>3. m.mt = "HelloRequest"
    BY DEF Message
<1> HIDE DEF t, m
<1>4. r.type = "handshake" /\ r.msg = m
    BY DEF WireRecord
<1>5. RecordOK(cfg, r) /\ ~FirstHello(r) /\ ~VerifyRequest(r)
    BY <1>1, <1>3, <1>4 DEF RecordOK, MessageOK, FirstHello, VerifyRequest, Is
<1>6. Wrote(S, t)
    BY <1>2, <1>5 DEF Wrote, Sent
<1>7. t.who = S.who /\ DOMAIN t = Fields /\ t.reuse_message = Null /\ t.session = S.session
    BY <1>1, <1>2 DEF Changes, Fields
<1>8. Position(t) \in {"SR_FINISHED", "SW_SESSION_TICKET", "SW_CHANGE", "SW_FINISHED", "ST_OK", "Established"}
    BY <1>2 DEF Position
<1> QED BY <1>1, <1>2, <1>6, <1>7, <1>8, ServerContinues DEF t

(* A session of the cache, or of a ticket that the server opens, is one that *)
(* it may rely on.                                                           *)
LEMMA PreviousSessionOK ==
    ASSUME NEW m, m.mt = "ClientHello", MessageOK(cfg, m), NEW session \in PreviousSessions(m),
           \A x \in cache : DOMAIN x = SessionFields /\ SessionOK(cfg, x)
    PROVE  DOMAIN session = SessionFields /\ SessionOK(cfg, session)
<1>1. CASE Decrypts(m)
    <2>1. session = TicketSession(m)
        BY <1>1 DEF PreviousSessions
    <2>2. /\ DOMAIN session = SessionFields /\ session.peer = m.body.tick[1].peer
          /\ session.proved = m.body.tick[1].proved
        BY <2>1 DEF TicketSession, NoSession, SessionFields
    <2>3. SessionOK(cfg, m.body.tick[1])
        BY <1>1 DEF Decrypts, MessageOK, TicketOK
    <2> QED BY <2>2, <2>3 DEF SessionOK
<1>2. CASE ~Decrypts(m)
    BY <1>2 DEF PreviousSessions
<1> QED BY <1>1, <1>2

LEMMA ServerClientHello ==
    ASSUME NEW S, NEW s, NEW m, ServerIs(S, "SR_CLNT_HELLO"), HasRead(S, s, m), MessageOK(cfg, m),
           \A x \in cache : DOMAIN x = SessionFields /\ SessionOK(cfg, x)
    PROVE  LET t == ssl3_get_client_hello(s, m)
           IN  \/ ServerGoes(S, t)
               \/ /\ IsSsl(t, "server") /\ ServerAuth(cfg, t) /\ t.wbuf = S.wbuf /\ t.state = "SW_HELLO_VERIFY"
                  /\ cfg.dtls /\ m.mt = "ClientHello" /\ ~m.body.cookie
<1> DEFINE t == ssl3_get_client_hello(s, m)
<1>1. /\ Changes(S, s, {"reuse_message", "handshake_hash", "handshake_transcript"})
      /\ s.reuse_message = Null /\ DOMAIN s = Fields /\ s.session = S.session /\ s.wbuf = S.wbuf /\ s.who = S.who
      /\ DOMAIN s.session = SessionFields /\ IsSsl(S, "server") /\ ServerAuth(cfg, S)
    BY ServerHasRead DEF ServerIs, IsSsl
<1>2. CASE Fails(s, t)
    BY <1>1, <1>2, ServerFails
<1>3. CASE /\ m.mt = "ClientHello" /\ cfg.dtls /\ ~m.body.cookie
           /\ Changes(s, t, {"state", "ccs_ok"}) /\ t.state = "SW_HELLO_VERIFY"
    <2> HIDE DEF t
    <2>1. t.who = S.who /\ DOMAIN t = Fields /\ t.reuse_message = Null /\ t.session = S.session /\ t.wbuf = S.wbuf
        BY <1>1, <1>3 DEF Changes, Fields
    <2>2. Position(t) = "SW_HELLO_VERIFY"
        BY <1>3 DEF Position
    <2>3. ServerAuth(cfg, t)
        BY <1>3, <2>1, <2>2 DEF ServerAuth, ServerAsks, ServerUnsure, ServerSure
    <2>4. IsSsl(t, "server")
        BY <1>1, <2>1 DEF IsSsl
    <2> QED BY <1>3, <2>1, <2>3, <2>4 DEF t
<1>4. CASE /\ m.mt = "ClientHello"
           /\ Changes(s, t, {"cr", "sr", "cipher", "ticket_expected", "hit", "session", "handshake_hash",
                             "status_expected", "renegotiate", "handshake_transcript", "state", "ccs_ok"})
           /\ t.state = "SW_SRVR_HELLO"
           /\ \/ ~t.hit /\ t.session = [NoSession EXCEPT !.id = IF t.ticket_expected THEN Null ELSE <<"id", s.n>>]
              \/ t.hit /\ PreviousSessions(m) # {} /\ t.session = (CHOOSE session \in PreviousSessions(m) : TRUE)
    <2> HIDE DEF t
    <2>1. t.who = S.who /\ DOMAIN t = Fields /\ t.reuse_message = Null /\ t.wbuf = S.wbuf
        BY <1>1, <1>4 DEF Changes, Fields
    <2>2. Position(t) = "SW_SRVR_HELLO"
        BY <1>4 DEF Position
    <2>3. /\ DOMAIN t.session = SessionFields /\ (~t.hit => ~t.session.peer) /\ (t.hit => SessionOK(cfg, t.session))
        <3>1. CASE ~t.hit
            BY <1>4, <3>1 DEF NoSession, SessionFields
        <3>2. CASE t.hit
            <4>1. t.session \in PreviousSessions(m)
                BY <1>4, <3>2
            <4> QED BY <1>4, <3>2, <4>1, PreviousSessionOK
        <3> QED BY <3>1, <3>2
    <2>4. ServerAuth(cfg, t)
        BY <1>4, <2>1, <2>2, <2>3 DEF ServerAuth, ServerAsks, ServerUnsure, ServerSure
    <2>5. IsSsl(t, "server") /\ Wrote(S, t)
        BY <1>1, <2>1, <2>3 DEF IsSsl, Wrote
    <2> QED BY <2>2, <2>4, <2>5 DEF ServerGoes, t
<1> QED BY <1>1, <1>2, <1>3, <1>4, GetClientHelloSheet

LEMMA ServerSendsVerifyRequest ==
    ASSUME NEW S, ServerIs(S, "SW_HELLO_VERIFY")
    PROVE  LET t == ssl3_send_dtls_hello_verify_request(S)
           IN  /\ IsSsl(t, "server") /\ ServerAuth(cfg, t) /\ Position(t) = "SR_CLNT_HELLO" /\ t.state # "Failed"
               /\ \E r : t.wbuf = Append(S.wbuf, r) /\ RecordOK(cfg, r) /\ VerifyRequest(r)
<1> DEFINE t == ssl3_send_dtls_hello_verify_request(S)
           m == Message("HelloVerifyRequest", [none |-> TRUE])
           r == WireRecord(S, "handshake", m)
<1>1. DOMAIN S = Fields /\ IsSsl(S, "server") /\ S.reuse_message = Null
    BY DEF ServerIs, IsSsl, ServerAuth
<1>2. /\ Changes(S, t, {"wbuf", "handshake_hash", "handshake_transcript", "frozen", "state", "next_state"})
      /\ t.state = "FLUSH" /\ t.next_state = "SR_CLNT_HELLO" /\ Sent(S, t, m)
    BY <1>1, VerifyRequestSheet
<1>3. m.mt = "HelloVerifyRequest"
    BY DEF Message
<1> HIDE DEF t, m
<1>4. r.type = "handshake" /\ r.msg = m
    BY DEF WireRecord
<1>5. RecordOK(cfg, r) /\ VerifyRequest(r)
    BY <1>3, <1>4 DEF RecordOK, MessageOK, VerifyRequest, Is
<1>6. t.wbuf = Append(S.wbuf, r)
    BY <1>2 DEF Sent
<1>7. t.who = S.who /\ DOMAIN t = Fields /\ t.reuse_message = Null /\ t.session = S.session
    BY <1>1, <1>2 DEF Changes, Fields
<1>8. Position(t) = "SR_CLNT_HELLO"
    BY <1>2 DEF Position
<1>9. ServerAuth(cfg, t)
    BY <1>2, <1>7, <1>8 DEF ServerAuth, ServerAsks, ServerUnsure, ServerSure
<1>10. IsSsl(t, "server")
    BY <1>1, <1>7 DEF IsSsl
<1> QED BY <1>2, <1>5, <1>6, <1>8, <1>9, <1>10 DEF t

LEMMA ServerSendsHello ==
    ASSUME NEW S, ServerIs(S, "SW_SRVR_HELLO")
    PROVE  ServerGoes(S, ssl3_send_server_hello(S))
<1> DEFINE t == ssl3_send_server_hello(S)
<1>1. /\ DOMAIN S = Fields /\ IsSsl(S, "server") /\ ServerAuth(cfg, S) /\ S.reuse_message = Null
      /\ ~S.hit => ~S.session.peer
      /\ S.hit => SessionOK(cfg, S.session)
      /\ DOMAIN S.session = SessionFields
    BY DEF ServerIs, IsSsl, ServerAuth, Position
<1>2. /\ Changes(S, t, {"wbuf", "handshake_hash", "handshake_transcript", "renegotiate", "state", "ccs_ok"})
      /\ ~S.hit => t.state = "SW_CERT"
      /\ S.hit => t.state \in {"SW_SESSION_TICKET", "SW_CHANGE"}
    BY <1>1, SendServerHelloSheet
<1>3. Wrote(S, t)
    BY <1>1, SendServerHelloSheet, SentWrites DEF ServerHello, Message
<1> HIDE DEF t
<1>4. t.who = S.who /\ DOMAIN t = Fields /\ t.reuse_message = Null /\ t.session = S.session
    BY <1>1, <1>2 DEF Changes, Fields
<1>5. CASE S.hit
    <2>1. Position(t) \in {"SR_FINISHED", "SW_SESSION_TICKET", "SW_CHANGE", "SW_FINISHED", "ST_OK", "Established"}
        BY <1>2, <1>5 DEF Position
    <2> QED BY <1>1, <1>2, <1>3, <1>4, <1>5, <2>1, ServerContinues DEF t
<1>6. CASE ~S.hit
    <2>1. Position(t) = "SW_CERT"
        BY <1>2, <1>6 DEF Position
    <2>2. Position(t) \in ServerAsks
        BY <2>1 DEF ServerAsks
    <2> QED BY <1>1, <1>2, <1>3, <1>4, <1>6, <2>1, <2>2, ServerAsksOn DEF t
<1> QED BY <1>5, <1>6

-----------------------------------------------------------------------------
(* Steps: what they do to the queues. *)

LEMMA AfterChanges ==
    ASSUME NEW e, NEW t, DOMAIN t = Fields
    PROVE  Changes(t, After(e, t), {"wbuf", "flush"})
    BY DEF After, Changes, Fields

LEMMA StepQueues ==
    ASSUME Shape, NEW e \in Endpoint, NEW t, DOMAIN t = Fields, IsSeq(t.wbuf), Step(e, t)
    PROVE  /\ Shape' /\ cfg' = cfg /\ omitted' = omitted
           /\ Changes(t, ssl'[e], {"wbuf", "flush"}) /\ ssl'[Peer(e)] = ssl[Peer(e)]
           /\ Queue(Peer(e))' = net[Peer(e)] \o t.wbuf /\ Queue(e)' = Queue(e)
<1>1. Peer(e) \in Endpoint /\ Peer(e) # e /\ Peer(Peer(e)) = e
    BY DEF Endpoint, Peer
<1>2. ssl'[e] = After(e, t) /\ ssl'[Peer(e)] = ssl[Peer(e)] /\ DOMAIN ssl' = Endpoint
    BY <1>1 DEF Step, Shape
<1>3. net'[Peer(e)] = net[Peer(e)] \o Written(e, t) /\ net'[e] = net[e] /\ DOMAIN net' = Endpoint
    BY <1>1 DEF Step, Shape
<1>4. Changes(t, ssl'[e], {"wbuf", "flush"})
    BY <1>2, AfterChanges
<1>5. \/ Written(e, t) = t.wbuf /\ ssl'[e].wbuf = << >>
      \/ Written(e, t) = << >> /\ ssl'[e].wbuf = t.wbuf
    BY <1>2 DEF Written, After, Fields
<1>6. IsSeq(net[e]) /\ IsSeq(net[Peer(e)]) /\ IsSeq(ssl[Peer(e)].wbuf)
    BY <1>1 DEF Shape
<1>7. IsSeq(net'[Peer(e)]) /\ IsSeq(ssl'[e].wbuf)
    BY <1>3, <1>5, <1>6, SeqConcat, SeqEmpty
<1>8. Shape'
    BY <1>1, <1>2, <1>3, <1>6, <1>7 DEF Shape, Endpoint, Peer
<1>9. net'[Peer(e)] \o ssl'[e].wbuf = net[Peer(e)] \o t.wbuf
    <2>1. IsSeq(net[Peer(e)] \o t.wbuf)
        BY <1>6, SeqConcat
    <2> QED BY <1>3, <1>5, <1>6, <2>1, ConcatEmpty
<1>10. Queue(Peer(e))' = net[Peer(e)] \o t.wbuf
    BY <1>1, <1>9 DEF Queue
<1>11. Queue(e)' = Queue(e)
    BY <1>2, <1>3 DEF Queue
<1> QED BY <1>2, <1>4, <1>8, <1>10, <1>11 DEF Step

LEMMA ReadQueues ==
    ASSUME Shape, NEW e \in Endpoint, NEW t, DOMAIN t = Fields, IsSeq(t.wbuf), StepAfterRead(e, t), net[e] # << >>
    PROVE  /\ Shape' /\ cfg' = cfg /\ omitted' = omitted
           /\ Changes(t, ssl'[e], {"wbuf", "flush"}) /\ ssl'[Peer(e)] = ssl[Peer(e)]
           /\ Queue(Peer(e))' = net[Peer(e)] \o t.wbuf /\ Queue(e)' = Tail(Queue(e))
           /\ Queue(e) # << >> /\ Head(net[e]) = Queue(e)[1]
<1>1. Peer(e) \in Endpoint /\ Peer(e) # e /\ Peer(Peer(e)) = e
    BY DEF Endpoint, Peer
<1>2. ssl'[e] = After(e, t) /\ ssl'[Peer(e)] = ssl[Peer(e)] /\ DOMAIN ssl' = Endpoint
    BY <1>1 DEF StepAfterRead, Shape
<1>3. net'[Peer(e)] = net[Peer(e)] \o Written(e, t) /\ net'[e] = Tail(net[e]) /\ DOMAIN net' = Endpoint
    BY <1>1 DEF StepAfterRead, Shape
<1>4. Changes(t, ssl'[e], {"wbuf", "flush"})
    BY <1>2, AfterChanges
<1>5. \/ Written(e, t) = t.wbuf /\ ssl'[e].wbuf = << >>
      \/ Written(e, t) = << >> /\ ssl'[e].wbuf = t.wbuf
    BY <1>2 DEF Written, After, Fields
<1>6. IsSeq(net[e]) /\ IsSeq(net[Peer(e)]) /\ IsSeq(ssl[Peer(e)].wbuf)
    BY <1>1 DEF Shape
<1>7. IsSeq(net'[Peer(e)]) /\ IsSeq(ssl'[e].wbuf) /\ IsSeq(net'[e])
    BY <1>3, <1>5, <1>6, SeqConcat, SeqEmpty, SeqTail
<1>8. Shape'
    BY <1>1, <1>2, <1>3, <1>6, <1>7 DEF Shape, Endpoint, Peer
<1>9. net'[Peer(e)] \o ssl'[e].wbuf = net[Peer(e)] \o t.wbuf
    <2>1. IsSeq(net[Peer(e)] \o t.wbuf)
        BY <1>6, SeqConcat
    <2> QED BY <1>3, <1>5, <1>6, <2>1, ConcatEmpty
<1>10. Queue(Peer(e))' = net[Peer(e)] \o t.wbuf
    BY <1>1, <1>9 DEF Queue
<1>11. Queue(e)' = Tail(net[e]) \o ssl[Peer(e)].wbuf
    BY <1>2, <1>3 DEF Queue
<1>12. Queue(e)' = Tail(Queue(e)) /\ Queue(e) # << >> /\ Head(Queue(e)) = Head(net[e])
    BY <1>6, <1>11, ConcatTail DEF Queue
<1>13. IsSeq(Queue(e))
    BY <1>6, SeqConcat DEF Queue
<1>14. Head(net[e]) = Queue(e)[1]
    BY <1>12, <1>13, SeqTail
<1> QED BY <1>2, <1>4, <1>8, <1>10, <1>12, <1>14 DEF StepAfterRead

(* What is in the queue after a step that writes nothing, drops what was     *)
(* buffered, or writes a record.                                             *)
Cut(q, q2) == IsSeq(q2) /\ Len(q2) <= Len(q) /\ \A i \in 1 .. Len(q2) : q2[i] = q[i]

LEMMA WroteQueue ==
    ASSUME NEW p, NEW s, NEW t, IsSeq(p), IsSeq(s.wbuf), Wrote(s, t)
    PROVE  LET q == p \o s.wbuf
               q2 == p \o t.wbuf
           IN  /\ IsSeq(t.wbuf) /\ IsSeq(q) /\ IsSeq(q2)
               /\ \/ Cut(q, q2)
                  \/ \E r : q2 = Append(q, r) /\ RecordOK(cfg, r) /\ ~FirstHello(r) /\ ~VerifyRequest(r)
<1> DEFINE q == p \o s.wbuf
           q2 == p \o t.wbuf
<1>1. /\ IsSeq(q) /\ Len(q) = Len(p) + Len(s.wbuf) /\ \A i \in 1 .. Len(p) : q[i] = p[i]
      /\ Len(p) \in Nat /\ Len(s.wbuf) \in Nat
    BY SeqConcat DEF IsSeq
<1>2. CASE t.wbuf = s.wbuf
    BY <1>1, <1>2 DEF Cut
<1>3. CASE t.wbuf = << >>
    <2>1. q2 = p
        BY <1>3, ConcatEmpty
    <2> HIDE DEF q
    <2>2. Cut(q, p)
        BY <1>1 DEF Cut
    <2> QED BY <1>1, <1>3, <2>1, <2>2, SeqEmpty DEF q
<1>4. CASE \E r : t.wbuf = Append(s.wbuf, r) /\ RecordOK(cfg, r) /\ ~FirstHello(r) /\ ~VerifyRequest(r)
    <2>1. PICK r : t.wbuf = Append(s.wbuf, r) /\ RecordOK(cfg, r) /\ ~FirstHello(r) /\ ~VerifyRequest(r)
        BY <1>4
    <2>2. q2 = Append(q, r) /\ IsSeq(t.wbuf)
        BY <2>1, ConcatAppend, SeqAppend
    <2>3. IsSeq(q2)
        BY <1>1, <2>2, SeqAppend
    <2> QED BY <1>1, <2>1, <2>2, <2>3
<1> QED BY <1>2, <1>3, <1>4 DEF Wrote

LEMMA RecordsCut ==
    ASSUME NEW c, NEW q, NEW q2, Records(c, q), Cut(q, q2)
    PROVE  Records(c, q2)
<1>1. Len(q) \in Nat /\ Len(q2) \in Nat
    BY DEF Records, Cut, IsSeq
<1> QED BY <1>1 DEF Records, Cut

LEMMA RecordsAppend ==
    ASSUME NEW c, NEW q, NEW r, Records(c, q), RecordOK(c, r)
    PROVE  Records(c, Append(q, r))
<1>1. Len(q) \in Nat
    BY DEF Records, IsSeq
<1> QED BY <1>1, SeqAppend DEF Records

LEMMA RecordsTail ==
    ASSUME NEW c, NEW q, Records(c, q), q # << >>
    PROVE  Records(c, Tail(q)) /\ RecordOK(c, q[1])
<1>1. /\ IsSeq(Tail(q)) /\ Len(Tail(q)) = Len(q) - 1 /\ Len(q) \in Nat \ {0}
      /\ \A i \in 1 .. Len(Tail(q)) : Tail(q)[i] = q[i + 1]
    BY SeqTail DEF Records
<1>2. ASSUME NEW i \in 1 .. Len(Tail(q)) PROVE RecordOK(c, Tail(q)[i])
    <2>1. i + 1 \in 1 .. Len(q) BY <1>1
    <2> QED BY <1>1, <2>1 DEF Records
<1> QED BY <1>1, <1>2 DEF Records

-----------------------------------------------------------------------------
(* The cookie exchange, step by step. *)

LEMMA NoneCut ==
    ASSUME NEW q, NEW q2, IsSeq(q), Cut(q, q2)
    PROVE  /\ NoFirstHello(q) => NoFirstHello(q2)
           /\ NoVerifyRequest(q) => NoVerifyRequest(q2)
           /\ (\A i \in 2 .. Len(q) : ~VerifyRequest(q[i])) => \A i \in 2 .. Len(q2) : ~VerifyRequest(q2[i])
<1>1. Len(q) \in Nat /\ Len(q2) \in Nat
    BY DEF Cut, IsSeq
<1> QED BY <1>1 DEF Cut, NoFirstHello, NoVerifyRequest

LEMMA NoneAppend ==
    ASSUME NEW q, NEW r, IsSeq(q)
    PROVE  /\ NoFirstHello(q) /\ ~FirstHello(r) => NoFirstHello(Append(q, r))
           /\ NoVerifyRequest(q) /\ ~VerifyRequest(r) => NoVerifyRequest(Append(q, r))
           /\ (\A i \in 2 .. Len(q) : ~VerifyRequest(q[i])) /\ ~VerifyRequest(r) =>
                \A i \in 2 .. Len(Append(q, r)) : ~VerifyRequest(Append(q, r)[i])
<1>1. Len(q) \in Nat
    BY DEF IsSeq
<1>2. /\ Len(Append(q, r)) = Len(q) + 1 /\ (\A i \in 1 .. Len(q) : Append(q, r)[i] = q[i])
      /\ Append(q, r)[Len(q) + 1] = r
    BY SeqAppend
<1> QED BY <1>1, <1>2 DEF NoFirstHello, NoVerifyRequest

LEMMA NoneTail ==
    ASSUME NEW q, IsSeq(q), q # << >>
    PROVE  /\ NoFirstHello(q) => NoFirstHello(Tail(q)) /\ ~FirstHello(q[1])
           /\ NoVerifyRequest(q) => NoVerifyRequest(Tail(q)) /\ ~VerifyRequest(q[1])
           /\ (\A i \in 2 .. Len(q) : ~VerifyRequest(q[i])) => NoVerifyRequest(Tail(q))
           /\ NoVerifyRequest(Tail(q)) => \A i \in 2 .. Len(Tail(q)) : ~VerifyRequest(Tail(q)[i])
           /\ Len(q) = 1 => Tail(q) = << >>
           /\ Len(q) # 0
<1>1. /\ IsSeq(Tail(q)) /\ Len(Tail(q)) = Len(q) - 1 /\ Len(q) \in Nat \ {0}
      /\ \A i \in 1 .. Len(Tail(q)) : Tail(q)[i] = q[i + 1]
    BY SeqTail
<1>2. NoFirstHello(q) => NoFirstHello(Tail(q)) /\ ~FirstHello(q[1])
    BY <1>1 DEF NoFirstHello
<1>3. NoVerifyRequest(q) => NoVerifyRequest(Tail(q)) /\ ~VerifyRequest(q[1])
    BY <1>1 DEF NoVerifyRequest
<1>4. (\A i \in 2 .. Len(q) : ~VerifyRequest(q[i])) => NoVerifyRequest(Tail(q))
    BY <1>1 DEF NoVerifyRequest
<1>5. NoVerifyRequest(Tail(q)) => \A i \in 2 .. Len(Tail(q)) : ~VerifyRequest(Tail(q)[i])
    BY <1>1 DEF NoVerifyRequest
<1>6. Len(q) = 1 => Tail(q) = << >>
    <2> DEFINE a == Tail(q)
    <2>1. a \in Seq(ToSet(a)) /\ Len(a) = Len(q) - 1
        BY <1>1 DEF IsSeq
    <2> HIDE DEF a
    <2>2. Len(q) = 1 => a = << >>
        BY <2>1
    <2> QED BY <2>2 DEF a
<1> QED BY <1>1, <1>2, <1>3, <1>4, <1>5, <1>6

LEMMA NoneEmpty == NoFirstHello(<< >>) /\ NoVerifyRequest(<< >>)
    BY DEF NoFirstHello, NoVerifyRequest

(* What a plain step may do to a queue. *)
PlainQueue(q, q2) == Cut(q, q2) \/ \E r : q2 = Append(q, r) /\ ~FirstHello(r) /\ ~VerifyRequest(r)

LEMMA NonePlain ==
    ASSUME NEW q, NEW q2, IsSeq(q), PlainQueue(q, q2)
    PROVE  /\ NoFirstHello(q) => NoFirstHello(q2)
           /\ NoVerifyRequest(q) => NoVerifyRequest(q2)
           /\ (\A i \in 2 .. Len(q) : ~VerifyRequest(q[i])) => \A i \in 2 .. Len(q2) : ~VerifyRequest(q2[i])
<1>1. CASE Cut(q, q2)
    BY <1>1, NoneCut
<1>2. CASE \E r : q2 = Append(q, r) /\ ~FirstHello(r) /\ ~VerifyRequest(r)
    BY <1>2, NoneAppend
<1> QED BY <1>1, <1>2 DEF PlainQueue

(* Steps of the client that are not part of the exchange. *)
LEMMA CookiesClient ==
    ASSUME NEW c, NEW C, NEW S, NEW t, NEW qs, NEW qc, NEW qs2, NEW qc2, Cookies(c, C, S, qs, qc),
           IsSeq(qs), IsSeq(qc), PlainQueue(qs, qs2), C.state # "Failed",
           qc2 = qc \/ (qc # << >> /\ qc2 = Tail(qc)),
           C.state \notin {"BEFORE", "CW_CLNT_HELLO"}, ~Verifying(C),
           C.state = "CR_SRVR_HELLO" => qc # << >> /\ qc2 = Tail(qc),
           C.state = "FLUSH" => Position(t) = Position(C), ClientPlain(C, t)
    PROVE  Cookies(c, t, S, qs2, qc2)
<1> SUFFICES ASSUME c.dtls, t.state # "Failed"
             PROVE  (S.state # "Failed" => CookiePhase(t, S, qs2, qc2)) /\ CookieSafe(t, qc2)
    BY DEF Cookies
<1>1. (S.state # "Failed" => CookiePhase(C, S, qs, qc)) /\ CookieSafe(C, qc)
    BY DEF Cookies
<1>2. /\ t.state \notin {"BEFORE", "CW_CLNT_HELLO"} /\ ~Verifying(t)
      /\ Position(t) = "CR_SRVR_HELLO" => Position(C) = "CR_SRVR_HELLO"
    BY DEF ClientPlain
<1>3. CookieSafe(t, qc2)
    <2>1. CASE qc # << >> /\ qc2 = Tail(qc)
        <3>1. \A i \in 2 .. Len(qc) : ~VerifyRequest(qc[i])
            BY <1>1 DEF CookieSafe
        <3> QED BY <2>1, <3>1, NoneTail DEF CookieSafe
    <2>2. CASE qc2 = qc /\ C.state # "CR_SRVR_HELLO"
        <3>1. CASE C.state = "FLUSH"
            <4>1. Position(t) = Position(C)
                BY <3>1
            <4> QED BY <1>1, <2>2, <4>1 DEF CookieSafe
        <3>2. CASE C.state # "FLUSH"
            <4>1. Position(C) \notin {"BEFORE", "CW_CLNT_HELLO", "CR_SRVR_HELLO"}
                BY <2>2, <3>2 DEF Position
            <4> QED BY <1>1, <2>2, <4>1 DEF CookieSafe
        <3> QED BY <3>1, <3>2
    <2> QED BY <2>1, <2>2
<1>4. ASSUME S.state # "Failed" PROVE CookiePhase(t, S, qs2, qc2)
    <2>1. NoFirstHello(qs2) /\ NoVerifyRequest(qc2) /\ Position(S) # "SW_HELLO_VERIFY"
        <3>1. CASE NoFirstHello(qs) /\ NoVerifyRequest(qc) /\ Position(S) # "SW_HELLO_VERIFY"
            BY <3>1, NonePlain, NoneTail
        <3>2. CASE /\ C.state = "CR_SRVR_HELLO" /\ qs = << >> /\ Len(qc) = 1 /\ ServerWaits(S)
            <4>1. qc2 = << >> BY <3>2, NoneTail
            <4>2. NoFirstHello(qs2) BY <3>2, NoneEmpty, NonePlain
            <4> QED BY <3>2, <4>1, <4>2, NoneEmpty DEF ServerWaits
        <3> QED BY <1>1, <1>4, <3>1, <3>2 DEF CookiePhase
    <2> QED BY <1>2, <2>1 DEF CookiePhase
<1> QED BY <1>3, <1>4

(* Steps of the server that are not part of the exchange. *)
LEMMA CookiesServer ==
    ASSUME NEW c, NEW C, NEW S, NEW t, NEW qs, NEW qc, NEW qs2, NEW qc2, Cookies(c, C, S, qs, qc),
           IsSeq(qs), IsSeq(qc), PlainQueue(qc, qc2), S.state # "Failed",
           qs2 = qs \/ (qs # << >> /\ qs2 = Tail(qs)),
           t.state = "Failed" \/ Position(t) # "SW_HELLO_VERIFY",
           \/ t.state = "Failed"
           \/ Position(S) \notin {"BEFORE", "SR_CLNT_HELLO", "SW_HELLO_VERIFY"}
           \/ Position(S) = "SR_CLNT_HELLO" /\ qs # << >> /\ qs2 = Tail(qs)
    PROVE  Cookies(c, C, t, qs2, qc2)
<1> SUFFICES ASSUME c.dtls, C.state # "Failed"
             PROVE  (t.state # "Failed" => CookiePhase(C, t, qs2, qc2)) /\ CookieSafe(C, qc2)
    BY DEF Cookies
<1>1. CookiePhase(C, S, qs, qc) /\ CookieSafe(C, qc)
    BY DEF Cookies
<1>2. CookieSafe(C, qc2)
    BY <1>1, NonePlain DEF CookieSafe
<1>3. ASSUME t.state # "Failed" PROVE CookiePhase(C, t, qs2, qc2)
    <2>1. NoFirstHello(qs2) /\ NoVerifyRequest(qc2) /\ C.state \notin {"BEFORE", "CW_CLNT_HELLO"} /\ ~Verifying(C)
        <3>1. CASE NoFirstHello(qs) /\ NoVerifyRequest(qc) /\ C.state \notin {"BEFORE", "CW_CLNT_HELLO"} /\ ~Verifying(C)
            BY <3>1, NonePlain, NoneTail
        <3>2. CASE C.state = "CR_SRVR_HELLO" /\ Len(qs) = 1 /\ qc = << >> /\ qs # << >> /\ qs2 = Tail(qs)
            <4>1. qs2 = << >> BY <3>2, NoneTail
            <4>2. NoVerifyRequest(qc2) BY <3>2, NoneEmpty, NonePlain
            <4> QED BY <3>2, <4>1, <4>2, NoneEmpty DEF Verifying
        <3> QED BY <1>1, <1>3, <3>1, <3>2, NoneTail DEF CookiePhase, ServerWaits
    <2> QED BY <1>3, <2>1 DEF CookiePhase
<1> QED BY <1>2, <1>3

(* A step of the server that leaves it where it is. *)
LEMMA CookiesSame ==
    ASSUME NEW c, NEW C, NEW S, NEW t, NEW qs, NEW qc, Cookies(c, C, S, qs, qc), S.state # "Failed",
           Position(t) = Position(S) \/ (Position(S) = "BEFORE" /\ Position(t) = "SR_CLNT_HELLO")
    PROVE  Cookies(c, C, t, qs, qc)
    BY DEF Cookies, CookiePhase, ServerWaits

-----------------------------------------------------------------------------
(* From a handler to a step. *)

(* Endpoint e takes the step to t, and q remains on its way to it. *)
Takes(e, t, q) ==
    \/ Step(e, t) /\ q = Queue(e)
    \/ StepAfterRead(e, t) /\ net[e] # << >> /\ q = Tail(Queue(e))

LEMMA TakesQueues ==
    ASSUME Shape, NEW e \in Endpoint, NEW t, DOMAIN t = Fields, IsSeq(t.wbuf), NEW q, Takes(e, t, q)
    PROVE  /\ Shape' /\ cfg' = cfg
           /\ Changes(t, ssl'[e], {"wbuf", "flush"}) /\ ssl'[Peer(e)] = ssl[Peer(e)]
           /\ Queue(Peer(e))' = net[Peer(e)] \o t.wbuf /\ Queue(e)' = q
           /\ q = Queue(e) \/ (Queue(e) # << >> /\ q = Tail(Queue(e)))
<1>1. CASE Step(e, t) /\ q = Queue(e)
    BY <1>1, StepQueues
<1>2. CASE StepAfterRead(e, t) /\ net[e] # << >> /\ q = Tail(Queue(e))
    BY <1>2, ReadQueues
<1> QED BY <1>1, <1>2 DEF Takes

LEMMA SameAuth ==
    ASSUME NEW t, NEW u, Changes(t, u, {"wbuf", "flush"}), NEW c
    PROVE  /\ \A who : IsSsl(t, who) => IsSsl(u, who)
           /\ ClientAuth(c, t) => ClientAuth(c, u)
           /\ ServerAuth(c, t) => ServerAuth(c, u)
           /\ u.state = t.state /\ Position(u) = Position(t) /\ (Verifying(u) <=> Verifying(t))
           /\ u.send_cookie = t.send_cookie
<1>1. /\ u.state = t.state /\ u.next_state = t.next_state /\ u.session = t.session /\ u.reuse_message = t.reuse_message
      /\ u.hit = t.hit /\ u.cert_request = t.cert_request /\ u.who = t.who /\ DOMAIN u = Fields
      /\ u.send_cookie = t.send_cookie
    BY DEF Changes, Fields
<1>2. Position(u) = Position(t) /\ (Verifying(u) <=> Verifying(t))
    BY <1>1 DEF Position, Verifying
<1>3. ClientAuth(c, t) => ClientAuth(c, u)
    BY <1>1, <1>2 DEF ClientAuth
<1>4. ServerAuth(c, t) => ServerAuth(c, u)
    BY <1>1, <1>2 DEF ServerAuth
<1> QED BY <1>1, <1>2, <1>3, <1>4 DEF IsSsl

LEMMA SameCookies ==
    ASSUME NEW t, NEW u, Changes(t, u, {"wbuf", "flush"}), NEW c, NEW x, NEW qs, NEW qc
    PROVE  /\ Cookies(c, t, x, qs, qc) => Cookies(c, u, x, qs, qc)
           /\ Cookies(c, x, t, qs, qc) => Cookies(c, x, u, qs, qc)
<1>1. /\ u.state = t.state /\ Position(u) = Position(t) /\ (Verifying(u) <=> Verifying(t))
      /\ u.send_cookie = t.send_cookie
    BY SameAuth
<1>2. CookiePhase(t, x, qs, qc) => CookiePhase(u, x, qs, qc)
    BY <1>1 DEF CookiePhase
<1>3. CookiePhase(x, t, qs, qc) => CookiePhase(x, u, qs, qc)
    BY <1>1 DEF CookiePhase, ServerWaits
<1>4. CookieSafe(t, qc) => CookieSafe(u, qc)
    BY <1>1 DEF CookieSafe
<1> QED BY <1>1, <1>2, <1>3, <1>4 DEF Cookies

LEMMA ClientStep ==
    ASSUME AuthInv, NEW t, NEW qc2, Takes("client", t, qc2), cache' = cache,
           IsSsl(t, "client"), ClientAuth(cfg, t), IsSeq(t.wbuf),
           Records(cfg, net["server"] \o t.wbuf), 
           Cookies(cfg, t, ssl["server"], net["server"] \o t.wbuf, qc2)
    PROVE  AuthInv'
<1> DEFINE u == ssl'["client"]
           qs2 == net["server"] \o t.wbuf
<1>1. "client" \in Endpoint /\ Peer("client") = "server"
    BY DEF Endpoint, Peer
<1>2. /\ Shape' /\ cfg' = cfg /\ Changes(t, u, {"wbuf", "flush"}) /\ ssl'["server"] = ssl["server"]
      /\ Queue("server")' = qs2 /\ Queue("client")' = qc2
      /\ qc2 = Queue("client") \/ (Queue("client") # << >> /\ qc2 = Tail(Queue("client")))
    BY <1>1, TakesQueues DEF AuthInv, IsSsl
<1>3. IsSsl(u, "client") /\ ClientAuth(cfg, u)
    BY <1>2, SameAuth
<1>4. Cookies(cfg, u, ssl["server"], qs2, qc2)
    BY <1>2, SameCookies
<1>5. Records(cfg, qc2)
    BY <1>2, RecordsTail DEF AuthInv, Auth
<1> HIDE DEF u, qs2
<1>6. Auth(cfg, u, ssl["server"], qs2, qc2, cache)
    BY <1>3, <1>4, <1>5 DEF AuthInv, Auth, qs2
<1> QED BY <1>2, <1>6 DEF AuthInv, u

LEMMA ServerStep ==
    ASSUME AuthInv, NEW t, NEW qs2, Takes("server", t, qs2),
           \A x \in cache' : x \in cache \/ (DOMAIN x = SessionFields /\ SessionOK(cfg, x)),
           IsSsl(t, "server"), ServerAuth(cfg, t), IsSeq(t.wbuf),
           Records(cfg, net["client"] \o t.wbuf), 
           Cookies(cfg, ssl["client"], t, qs2, net["client"] \o t.wbuf)
    PROVE  AuthInv'
<1> DEFINE u == ssl'["server"]
           qc2 == net["client"] \o t.wbuf
<1>1. "server" \in Endpoint /\ Peer("server") = "client"
    BY DEF Endpoint, Peer
<1>2. /\ Shape' /\ cfg' = cfg /\ Changes(t, u, {"wbuf", "flush"}) /\ ssl'["client"] = ssl["client"]
      /\ Queue("client")' = qc2 /\ Queue("server")' = qs2
      /\ qs2 = Queue("server") \/ (Queue("server") # << >> /\ qs2 = Tail(Queue("server")))
    BY <1>1, TakesQueues DEF AuthInv, IsSsl
<1>3. IsSsl(u, "server") /\ ServerAuth(cfg, u)
    BY <1>2, SameAuth
<1>4. Cookies(cfg, ssl["client"], u, qs2, qc2)
    BY <1>2, SameCookies
<1>5. Records(cfg, qs2)
    BY <1>2, RecordsTail DEF AuthInv, Auth
<1>7. \A x \in cache' : DOMAIN x = SessionFields /\ SessionOK(cfg, x)
    BY DEF AuthInv, Auth
<1> HIDE DEF u, qc2
<1>6. Auth(cfg, ssl["client"], u, qs2, qc2, cache')
    BY <1>3, <1>4, <1>5, <1>7 DEF AuthInv, Auth, qc2
<1> QED BY <1>2, <1>6 DEF AuthInv, u

(* What AuthInv says of the queues. *)
LEMMA AuthQueues ==
    ASSUME AuthInv, NEW e \in Endpoint
    PROVE  /\ IsSeq(net[e]) /\ IsSeq(ssl[Peer(e)].wbuf) /\ Queue(e) = net[e] \o ssl[Peer(e)].wbuf
           /\ Records(cfg, Queue(e)) /\ IsSeq(Queue(e))
<1>1. Peer(e) \in Endpoint /\ e \in {"client", "server"}
    BY DEF Peer, Endpoint
<1> QED BY <1>1 DEF AuthInv, Shape, Auth, Queue, Records

LEMMA AuthWrote ==
    ASSUME AuthInv, NEW e \in Endpoint, NEW t, Wrote(ssl[e], t)
    PROVE  LET q2 == net[Peer(e)] \o t.wbuf
           IN  IsSeq(t.wbuf) /\ Records(cfg, q2) /\ PlainQueue(Queue(Peer(e)), q2)
<1>1. Peer(e) \in Endpoint /\ Peer(Peer(e)) = e
    BY DEF Peer, Endpoint
<1> DEFINE q == Queue(Peer(e))
           q2 == net[Peer(e)] \o t.wbuf
<1>2. IsSeq(net[Peer(e)]) /\ IsSeq(ssl[e].wbuf) /\ q = net[Peer(e)] \o ssl[e].wbuf /\ Records(cfg, q) /\ IsSeq(q)
    BY <1>1, AuthQueues
<1>3. /\ IsSeq(t.wbuf)
      /\ \/ Cut(q, q2)
         \/ \E r : q2 = Append(q, r) /\ RecordOK(cfg, r) /\ ~FirstHello(r) /\ ~VerifyRequest(r)
    <2>1. /\ IsSeq(t.wbuf)
          /\ \/ Cut(net[Peer(e)] \o ssl[e].wbuf, q2)
             \/ \E r : /\ q2 = Append(net[Peer(e)] \o ssl[e].wbuf, r)
                      /\ RecordOK(cfg, r) /\ ~FirstHello(r) /\ ~VerifyRequest(r)
        BY <1>2, WroteQueue, ZenonT(60)
    <2> QED BY <1>2, <2>1
<1> HIDE DEF q, q2
<1>4. Records(cfg, q2)
    <2>1. CASE Cut(q, q2)
        BY <1>2, <2>1, RecordsCut
    <2>2. CASE \E r : q2 = Append(q, r) /\ RecordOK(cfg, r)
        BY <1>2, <2>2, RecordsAppend
    <2> QED BY <1>3, <2>1, <2>2
<1>5. PlainQueue(q, q2)
    BY <1>3 DEF PlainQueue
<1> QED BY <1>3, <1>4, <1>5 DEF q, q2

LEMMA ClientPlainStep ==
    ASSUME AuthInv, NEW t, NEW qc2, Takes("client", t, qc2), cache' = cache, ClientGoes(ssl["client"], t),
           ssl["client"].state \notin {"Failed", "BEFORE", "CW_CLNT_HELLO"}, ~Verifying(ssl["client"]),
           ssl["client"].state = "CR_SRVR_HELLO" => StepAfterRead("client", t) /\ net["client"] # << >> /\ qc2 = Tail(Queue("client")),
           ssl["client"].state = "FLUSH" => Position(t) = Position(ssl["client"])
    PROVE  AuthInv'
<1>1. "client" \in Endpoint /\ Peer("client") = "server" /\ "server" \in Endpoint
    BY DEF Endpoint, Peer
<1>2. IsSsl(t, "client") /\ ClientAuth(cfg, t) /\ Wrote(ssl["client"], t) /\ ClientPlain(ssl["client"], t)
    BY DEF ClientGoes
<1> DEFINE qs2 == net["server"] \o t.wbuf
<1>3. IsSeq(t.wbuf) /\ Records(cfg, qs2) /\ PlainQueue(Queue("server"), qs2)
    BY <1>1, <1>2, AuthWrote
<1>4. IsSeq(Queue("client")) /\ IsSeq(Queue("server"))
    BY <1>1, AuthQueues
<1>5. Cookies(cfg, ssl["client"], ssl["server"], Queue("server"), Queue("client"))
    BY DEF AuthInv, Auth
<1>6. /\ qc2 = Queue("client") \/ (Queue("client") # << >> /\ qc2 = Tail(Queue("client")))
      /\ ssl["client"].state = "CR_SRVR_HELLO" => Queue("client") # << >> /\ qc2 = Tail(Queue("client"))
    <2>1. StepAfterRead("client", t) /\ net["client"] # << >> => Queue("client") # << >>
        BY <1>1, <1>2, <1>3, ReadQueues DEF AuthInv, IsSsl
    <2> QED BY <2>1 DEF Takes
<1>7. Cookies(cfg, t, ssl["server"], qs2, qc2)
    BY <1>2, <1>3, <1>4, <1>5, <1>6, CookiesClient
<1> QED BY <1>2, <1>3, <1>7, ClientStep

LEMMA ServerPlainStep ==
    ASSUME AuthInv, NEW t, NEW qs2, Takes("server", t, qs2), ServerGoes(ssl["server"], t),
           \A x \in cache' : x \in cache \/ (DOMAIN x = SessionFields /\ SessionOK(cfg, x)),
           ssl["server"].state # "Failed",
           \/ t.state = "Failed"
           \/ Position(ssl["server"]) \notin {"BEFORE", "SR_CLNT_HELLO", "SW_HELLO_VERIFY"}
           \/ /\ Position(ssl["server"]) = "SR_CLNT_HELLO"
              /\ StepAfterRead("server", t) /\ net["server"] # << >> /\ qs2 = Tail(Queue("server"))
    PROVE  AuthInv'
<1>1. "client" \in Endpoint /\ Peer("server") = "client" /\ "server" \in Endpoint
    BY DEF Endpoint, Peer
<1>2. /\ IsSsl(t, "server") /\ ServerAuth(cfg, t) /\ Wrote(ssl["server"], t)
      /\ t.state = "Failed" \/ Position(t) # "SW_HELLO_VERIFY"
    BY DEF ServerGoes
<1> DEFINE qc2 == net["client"] \o t.wbuf
<1>3. IsSeq(t.wbuf) /\ Records(cfg, qc2) /\ PlainQueue(Queue("client"), qc2)
    BY <1>1, <1>2, AuthWrote
<1>4. IsSeq(Queue("client")) /\ IsSeq(Queue("server"))
    BY <1>1, AuthQueues
<1>5. Cookies(cfg, ssl["client"], ssl["server"], Queue("server"), Queue("client"))
    BY DEF AuthInv, Auth
<1>6. /\ qs2 = Queue("server") \/ (Queue("server") # << >> /\ qs2 = Tail(Queue("server")))
      /\ StepAfterRead("server", t) /\ net["server"] # << >> => Queue("server") # << >>
    <2>1. StepAfterRead("server", t) /\ net["server"] # << >> => Queue("server") # << >>
        BY <1>1, <1>2, <1>3, ReadQueues DEF AuthInv, IsSsl
    <2> QED BY <2>1 DEF Takes
<1>7. Cookies(cfg, ssl["client"], t, qs2, qc2)
    BY <1>2, <1>3, <1>4, <1>5, <1>6, CookiesServer
<1> QED BY <1>2, <1>3, <1>7, ServerStep

-----------------------------------------------------------------------------
(* Reading a message, and the steps of the cookie exchange. *)

LEMMA KeptRead ==
    ASSUME AuthInv, NEW e \in Endpoint, ssl[e].reuse_message # Null
    PROVE  LET m == ssl[e].reuse_message[1]
           IN  HasRead(ssl[e], [ssl[e] EXCEPT !.reuse_message = Null], m) /\ MessageOK(cfg, m)
<1>1. DOMAIN ssl[e] = Fields /\ MessageOK(cfg, ssl[e].reuse_message[1])
    BY DEF AuthInv, Auth, IsSsl, ClientAuth, ServerAuth, Endpoint
<1> QED BY <1>1 DEF HasRead, Changes, Fields

LEMMA NextRead ==
    ASSUME AuthInv, NEW e \in Endpoint, ssl[e].reuse_message = Null, Incoming(e, "handshake"),
           Head(net[e]).msg.mt # "HelloRequest"
    PROVE  LET m == Head(net[e]).msg
           IN  /\ HasRead(ssl[e], tls1_transcript_record(ssl[e], m), m) /\ MessageOK(cfg, m)
               /\ Queue(e) # << >> /\ Is(Queue(e)[1], m.mt) /\ Queue(e)[1].msg = m
<1>1. DOMAIN ssl[e] = Fields
    BY DEF AuthInv, Auth, IsSsl, Endpoint
<1> DEFINE m == Head(net[e]).msg
           t == tls1_transcript_record(ssl[e], m)
<1>2. IsSeq(net[e]) /\ IsSeq(ssl[Peer(e)].wbuf) /\ Queue(e) = net[e] \o ssl[Peer(e)].wbuf /\ Records(cfg, Queue(e))
      /\ IsSeq(Queue(e))
    BY AuthQueues
<1>3. net[e] # << >> /\ Head(net[e]).type = "handshake"
    BY DEF Incoming
<1>4. Queue(e) # << >> /\ Head(Queue(e)) = Head(net[e])
    BY <1>2, <1>3, ConcatTail
<1>5. Queue(e)[1] = Head(net[e])
    BY <1>2, <1>4, SeqTail
<1>6. RecordOK(cfg, Queue(e)[1])
    BY <1>2, <1>4, RecordsTail
<1>7. MessageOK(cfg, m) /\ Is(Queue(e)[1], m.mt) /\ Queue(e)[1].msg = m
    BY <1>3, <1>5, <1>6 DEF RecordOK, Is
<1> HIDE DEF m
<1>8. /\ Changes(ssl[e], t, {"handshake_hash", "handshake_transcript"})
      /\ t.handshake_hash = Hashed(ssl[e].handshake_hash, m)
      /\ t.handshake_transcript = Kept(ssl[e], m)
    BY <1>1, RecordSheet
<1> HIDE DEF t
<1>9. t.reuse_message = Null
    BY <1>8 DEF Changes, Fields
<1>10. HasRead(ssl[e], t, m)
    BY <1>8, <1>9 DEF HasRead, m
<1> QED BY <1>4, <1>7, <1>10 DEF m, t

LEMMA ClientBegins ==
    ASSUME AuthInv, NEW state \in {"BEFORE", "RENEGOTIATE"}, Do("client", state, Connect)
    PROVE  AuthInv'
<1> DEFINE C == ssl["client"]
           t == Connect(C)
           qs2 == net["server"] \o t.wbuf
<1>1. C.state = state /\ Step("client", t) /\ cache' = cache /\ "client" \in Endpoint /\ Peer("client") = "server"
    BY DEF Do, Endpoint, Peer
<1>2. ClientIs(C, state) /\ Cookies(cfg, C, ssl["server"], Queue("server"), Queue("client")) /\ ClientAuth(cfg, C)
    BY <1>1 DEF AuthInv, Auth, ClientIs
<1>3. /\ IsSsl(t, "client") /\ ClientAuth(cfg, t) /\ Wrote(C, t)
      /\ t.state = "Failed" \/ (t.state = "CW_CLNT_HELLO" /\ t.wbuf = C.wbuf /\ (cfg.dtls => ~t.send_cookie))
    BY <1>2, ClientConnects
<1> HIDE DEF t
<1>4. IsSeq(t.wbuf) /\ Records(cfg, qs2)
    BY <1>1, <1>3, AuthWrote
<1>5. Cookies(cfg, t, ssl["server"], qs2, Queue("client"))
    <2> SUFFICES ASSUME cfg.dtls, t.state # "Failed"
                 PROVE  /\ ssl["server"].state # "Failed" => CookiePhase(t, ssl["server"], qs2, Queue("client"))
                        /\ CookieSafe(t, Queue("client"))
        BY DEF Cookies
    <2>1. C.state = "BEFORE"
        BY <1>1, <1>2 DEF ClientAuth, Position
    <2>2. qs2 = Queue("server") /\ t.state = "CW_CLNT_HELLO" /\ ~t.send_cookie
        BY <1>1, <1>3 DEF Queue, Peer
    <2>3. CookieSafe(t, Queue("client"))
        BY <1>2, <2>1, <2>2 DEF Cookies, CookieSafe, Position
    <2>4. ssl["server"].state # "Failed" => CookiePhase(C, ssl["server"], Queue("server"), Queue("client"))
        BY <1>2, <2>1 DEF Cookies
    <2> QED BY <2>1, <2>2, <2>3, <2>4 DEF CookiePhase, Verifying
<1>6. Takes("client", t, Queue("client"))
    BY <1>1 DEF Takes, t
<1> QED BY <1>1, <1>3, <1>4, <1>5, <1>6, ClientStep

LEMMA ClientGreets ==
    ASSUME AuthInv, Do("client", "CW_CLNT_HELLO", ssl3_send_client_hello)
    PROVE  AuthInv'
<1> DEFINE C == ssl["client"]
           t == ssl3_send_client_hello(C)
           qs == Queue("server")
           qs2 == net["server"] \o t.wbuf
<1>1. /\ C.state = "CW_CLNT_HELLO" /\ Step("client", t) /\ cache' = cache
      /\ "server" \in Endpoint /\ Peer("server") = "client"
    BY DEF Do, Endpoint, Peer
<1>2. ClientIs(C, "CW_CLNT_HELLO") /\ Cookies(cfg, C, ssl["server"], qs, Queue("client"))
    BY <1>1 DEF AuthInv, Auth, ClientIs
<1>3. /\ IsSsl(t, "client") /\ ClientAuth(cfg, t)
      /\ Position(t) = "CR_SRVR_HELLO" /\ t.state = (IF C.send_cookie THEN "FLUSH" ELSE "CR_SRVR_HELLO")
      /\ t.send_cookie = C.send_cookie /\ t.reuse_message = Null
      /\ \E r : /\ t.wbuf = Append(C.wbuf, r) /\ RecordOK(cfg, r) /\ Is(r, "ClientHello") /\ ~VerifyRequest(r)
                /\ r.msg.body.cookie = C.send_cookie
    BY <1>2, ClientSendsHello
<1>4. IsSeq(net["server"]) /\ IsSeq(C.wbuf) /\ qs = net["server"] \o C.wbuf /\ Records(cfg, qs) /\ IsSeq(qs)
    BY <1>1, AuthQueues
<1>5. Takes("client", t, Queue("client"))
    BY <1>1 DEF Takes
<1> HIDE DEF t, qs
<1>6. PICK r : /\ t.wbuf = Append(C.wbuf, r) /\ RecordOK(cfg, r) /\ Is(r, "ClientHello") /\ ~VerifyRequest(r)
               /\ r.msg.body.cookie = C.send_cookie
    BY <1>3
<1>7. IsSeq(t.wbuf) /\ qs2 = Append(qs, r)
    <2>1. net["server"] \o Append(C.wbuf, r) = Append(net["server"] \o C.wbuf, r) /\ IsSeq(Append(C.wbuf, r))
        <3>1. net["server"] \o Append(C.wbuf, r) = Append(net["server"] \o C.wbuf, r)
            <4> DEFINE p == net["server"]
                       w == C.wbuf
            <4>1. IsSeq(p) /\ IsSeq(w)
                BY <1>4
            <4> HIDE DEF p, w
            <4>2. p \o Append(w, r) = Append(p \o w, r)
                BY <4>1, ConcatAppend
            <4> QED BY <4>2 DEF p, w
        <3>2. IsSeq(Append(C.wbuf, r))
            BY <1>4, SeqAppend, Zenon
        <3> QED BY <3>1, <3>2
    <2> QED BY <1>4, <1>6, <2>1, Zenon
<1>8. Records(cfg, qs2)
    BY <1>4, <1>6, <1>7, RecordsAppend
<1> HIDE DEF qs2
<1>9. Cookies(cfg, t, ssl["server"], qs2, Queue("client"))
    <2> DEFINE S == ssl["server"]
               qc == Queue("client")
    <2> SUFFICES ASSUME cfg.dtls
                 PROVE  (S.state # "Failed" => CookiePhase(t, S, qs2, qc)) /\ CookieSafe(t, qc)
        BY DEF Cookies
    <2>1. (S.state # "Failed" => CookiePhase(C, S, qs, qc)) /\ CookieSafe(C, qc)
        BY <1>1, <1>2 DEF Cookies
    <2>2. CookieSafe(t, qc)
        BY <1>3, <2>1 DEF CookieSafe
    <2>3. ASSUME S.state # "Failed" PROVE CookiePhase(t, S, qs2, qc)
        <3>1. qs = << >> /\ qc = << >> /\ ServerWaits(S)
            BY <1>1, <2>1, <2>3 DEF CookiePhase, Verifying
        <3>2. Len(qs2) = 1 /\ qs2[1] = r /\ IsSeq(qs2)
            <4>1. Len(qs) = 0 BY <3>1
            <4>2. IsSeq(Append(qs, r)) /\ Len(Append(qs, r)) = Len(qs) + 1 /\ Append(qs, r)[Len(qs) + 1] = r
                BY <1>4, SeqAppend
            <4> QED BY <1>7, <4>1, <4>2
        <3>3. CASE ~C.send_cookie
            <4>1. FirstHello(r) BY <1>6, <3>3 DEF FirstHello
            <4> QED BY <1>3, <3>1, <3>2, <3>3, <4>1 DEF CookiePhase
        <3>4. CASE C.send_cookie
            <4>0. ~FirstHello(r) BY <1>6, <3>4 DEF FirstHello
            <4>1. NoFirstHello(qs2) BY <3>2, <4>0 DEF NoFirstHello
            <4>2. NoVerifyRequest(qc) BY <3>1, NoneEmpty
            <4> QED BY <1>3, <3>1, <3>4, <4>1, <4>2 DEF CookiePhase, Verifying, ServerWaits
        <3> QED BY <3>3, <3>4
    <2> QED BY <2>2, <2>3
<1> QED BY <1>1, <1>3, <1>5, <1>7, <1>8, <1>9, ClientStep DEF qs2

LEMMA ClientHearsHello ==
    ASSUME AuthInv, Get("client", "CR_SRVR_HELLO", ssl3_get_server_hello)
    PROVE  AuthInv'
<1> DEFINE C == ssl["client"]
           qc == Queue("client")
           qs == Queue("server")
<1>1. /\ C.state = "CR_SRVR_HELLO" /\ cache' = cache
      /\ "client" \in Endpoint /\ Peer("client") = "server" /\ "server" \in Endpoint
    BY DEF Get, Endpoint, Peer
<1>2. ClientIs(C, "CR_SRVR_HELLO") /\ Cookies(cfg, C, ssl["server"], qs, qc) /\ C.reuse_message = Null
    BY <1>1 DEF AuthInv, Auth, ClientIs, ClientAuth, ClientKeeps
<1>3. PICK s, m : /\ HasRead(C, s, m) /\ MessageOK(cfg, m) /\ StepAfterRead("client", ssl3_get_server_hello(s, m))
                  /\ net["client"] # << >> /\ qc # << >> /\ Is(qc[1], m.mt)
    BY <1>1, <1>2, NextRead DEF Get, Reused, ssl3_get_message, Incoming
<1> DEFINE t == ssl3_get_server_hello(s, m)
           qs2 == net["server"] \o t.wbuf
<1>4. Takes("client", t, Tail(qc)) /\ StepAfterRead("client", t)
    BY <1>3 DEF Takes
<1>5. CASE ~(m.mt = "HelloVerifyRequest" /\ ~s.send_cookie)
    <2>1. ClientGoes(C, t)
        BY <1>2, <1>3, <1>5, ClientServerHello
    <2>2. ~Verifying(C)
        BY <1>1 DEF Verifying
    <2> HIDE DEF t
    <2> QED BY <1>1, <1>3, <1>4, <2>1, <2>2, ClientPlainStep
<1>6. CASE m.mt = "HelloVerifyRequest" /\ ~s.send_cookie
    <2>1. /\ DOMAIN s = Fields /\ s.session = C.session /\ s.reuse_message = Null
          /\ s.wbuf = C.wbuf /\ s.who = C.who /\ s.send_cookie = C.send_cookie
        BY <1>2, <1>3, HasReadIs DEF ClientIs
    <2>2. /\ Changes(s, t, {"state", "ccs_ok", "reuse_message"})
          /\ t.state = "CR_HELLO_VERIFY" /\ t.reuse_message = Some(m)
        BY <1>6, <2>1 DEF ssl3_get_server_hello, Goto, Reuse, Changes, Fields
    <2> HIDE DEF t
    <2>3. /\ DOMAIN t = Fields /\ t.session = C.session /\ t.wbuf = C.wbuf /\ t.who = C.who
          /\ t.reuse_message[1] = m /\ t.reuse_message # Null
        BY <2>1, <2>2 DEF Changes, Fields, Some, Null
    <2>4. IsSsl(t, "client")
        BY <1>2, <2>3 DEF IsSsl, ClientIs
    <2>5. ClientAuth(cfg, t)
        BY <1>1, <1>2, <1>3, <1>6, <2>2, <2>3
        DEF ClientIs, ClientAuth, Position, Verifying, ClientOffers, ClientSure, ClientKeeps
    <2>6. qs2 = qs /\ Wrote(C, t)
        BY <1>1, <2>3 DEF Queue, Wrote, Peer
    <2>7. IsSeq(t.wbuf) /\ Records(cfg, qs2)
        BY <1>1, <2>6, AuthWrote
    <2> HIDE DEF qs2
    <2>8. Cookies(cfg, t, ssl["server"], qs2, Tail(qc))
        <3> DEFINE S == ssl["server"]
        <3> SUFFICES ASSUME cfg.dtls
                     PROVE  (S.state # "Failed" => CookiePhase(t, S, qs2, Tail(qc))) /\ CookieSafe(t, Tail(qc))
            BY DEF Cookies
        <3>1. (S.state # "Failed" => CookiePhase(C, S, qs, qc)) /\ CookieSafe(C, qc)
            BY <1>1, <1>2 DEF Cookies
        <3>2. IsSeq(qc) /\ VerifyRequest(qc[1])
            BY <1>1, <1>3, <1>6, AuthQueues DEF VerifyRequest
        <3>3. /\ ~NoVerifyRequest(qc) /\ (Len(qc) = 1 => Tail(qc) = << >>)
              /\ NoVerifyRequest(Tail(qc)) /\ \A i \in 2 .. Len(Tail(qc)) : ~VerifyRequest(Tail(qc)[i])
            BY <1>3, <3>1, <3>2, NoneTail DEF CookieSafe
        <3>4. CookieSafe(t, Tail(qc))
            BY <3>3 DEF CookieSafe
        <3>5. Verifying(t)
            BY <2>2, <2>3 DEF Verifying
        <3>6. ASSUME S.state # "Failed" PROVE CookiePhase(t, S, qs2, Tail(qc))
            <4>1. qs = << >> /\ Len(qc) = 1 /\ ServerWaits(S)
                BY <1>1, <1>3, <3>1, <3>3, <3>6 DEF CookiePhase, Verifying
            <4> QED BY <2>6, <3>3, <3>5, <4>1 DEF CookiePhase
        <3> QED BY <3>4, <3>6
    <2> QED BY <1>1, <1>4, <2>4, <2>5, <2>7, <2>8, ClientStep DEF qs2
<1> QED BY <1>5, <1>6

LEMMA ClientVerifiesHello ==
    ASSUME AuthInv, Get("client", "CR_HELLO_VERIFY", ssl3_get_dtls_hello_verify)
    PROVE  AuthInv'
<1> DEFINE C == ssl["client"]
           qc == Queue("client")
           qs == Queue("server")
<1>1. /\ C.state = "CR_HELLO_VERIFY" /\ cache' = cache
      /\ "client" \in Endpoint /\ Peer("client") = "server" /\ "server" \in Endpoint
    BY DEF Get, Endpoint, Peer
<1>2. ClientIs(C, "CR_HELLO_VERIFY") /\ Cookies(cfg, C, ssl["server"], qs, qc) /\ ClientAuth(cfg, C)
    BY <1>1 DEF AuthInv, Auth, ClientIs
<1>3. PICK s, m : /\ HasRead(C, s, m) /\ MessageOK(cfg, m)
                  /\ \/ Step("client", ssl3_get_dtls_hello_verify(s, m)) /\ C.reuse_message # Null
                     \/ /\ StepAfterRead("client", ssl3_get_dtls_hello_verify(s, m))
                        /\ net["client"] # << >> /\ qc # << >> /\ Is(qc[1], m.mt) /\ C.reuse_message = Null
    BY <1>1, KeptRead, NextRead DEF Get, Reused, ssl3_get_message, Incoming
<1> DEFINE t == ssl3_get_dtls_hello_verify(s, m)
           qs2 == net["server"] \o t.wbuf
<1>5. CASE m.mt # "HelloVerifyRequest"
    <2>1. ClientGoes(C, t)
        BY <1>2, <1>3, <1>5, ClientHelloVerify
    <2>2. ~Verifying(C)
        BY <1>2, <1>3, <1>5 DEF Verifying, ClientAuth, HasRead
    <2>3. \E q : Takes("client", t, q)
        BY <1>3 DEF Takes
    <2> HIDE DEF t
    <2> QED BY <1>1, <2>1, <2>2, <2>3, ClientPlainStep
<1>6. CASE m.mt = "HelloVerifyRequest"
    <2>0. /\ DOMAIN s = Fields /\ s.session = C.session /\ s.reuse_message = Null
          /\ s.wbuf = C.wbuf /\ s.who = C.who /\ s.state = C.state
        BY <1>2, <1>3, HasReadIs DEF ClientIs
    <2>1. C.reuse_message # Null /\ Step("client", t)
        <3> SUFFICES ASSUME C.reuse_message = Null PROVE FALSE
            BY <1>3
        <3>1. cfg.dtls /\ Position(C) = "CR_HELLO_VERIFY"
            BY <1>1, <1>2 DEF ClientAuth, Position
        <3>2. NoVerifyRequest(qc)
            BY <1>1, <1>2, <3>1 DEF Cookies, CookieSafe
        <3>3. IsSeq(qc) /\ qc # << >> /\ VerifyRequest(qc[1])
            BY <1>1, <1>3, <1>6, AuthQueues DEF VerifyRequest
        <3> QED BY <3>2, <3>3, NoneTail
    <2>2. /\ Changes(s, t, {"state", "ccs_ok", "send_cookie"}) /\ t.send_cookie /\ t.state = "CW_CLNT_HELLO"
        BY <1>6, <2>0, HelloVerifySheet
    <2>3. Takes("client", t, qc)
        BY <2>1 DEF Takes
    <2> HIDE DEF t
    <2>4. /\ DOMAIN t = Fields /\ t.session = C.session /\ t.wbuf = C.wbuf /\ t.who = C.who /\ t.reuse_message = Null
        BY <2>0, <2>2 DEF Changes, Fields
    <2>5. IsSsl(t, "client")
        BY <1>2, <2>4 DEF IsSsl, ClientIs
    <2>6. ClientAuth(cfg, t)
        BY <1>1, <1>2, <2>1, <2>2, <2>4
        DEF ClientAuth, Position, Verifying, ClientOffers, ClientSure, ClientKeeps
    <2>7. qs2 = qs /\ Wrote(C, t)
        BY <1>1, <2>4 DEF Queue, Wrote, Peer
    <2>8. IsSeq(t.wbuf) /\ Records(cfg, qs2)
        BY <1>1, <2>7, AuthWrote
    <2> HIDE DEF qs2
    <2>9. Cookies(cfg, t, ssl["server"], qs2, qc)
        <3> DEFINE S == ssl["server"]
        <3> SUFFICES ASSUME cfg.dtls
                     PROVE  (S.state # "Failed" => CookiePhase(t, S, qs2, qc)) /\ CookieSafe(t, qc)
            BY DEF Cookies
        <3>1. (S.state # "Failed" => CookiePhase(C, S, qs, qc)) /\ CookieSafe(C, qc)
            BY <1>1, <1>2 DEF Cookies
        <3>2. CookieSafe(t, qc)
            BY <2>2, <3>1 DEF CookieSafe, Position
        <3>3. Verifying(C)
            BY <1>1, <2>1 DEF Verifying
        <3> QED BY <1>1, <2>2, <2>7, <3>1, <3>2, <3>3 DEF CookiePhase
    <2> QED BY <1>1, <2>3, <2>5, <2>6, <2>8, <2>9, ClientStep DEF qs2
<1> QED BY <1>5, <1>6

-----------------------------------------------------------------------------
(* The other steps of the client. *)

LEMMA ClientGetsCertificate ==
    ASSUME AuthInv, Get("client", "CR_CERT", ssl3_get_server_certificate), ~Anonymous
    PROVE  AuthInv'
<1> DEFINE C == ssl["client"]
<1>1. PICK s, m : /\ HasRead(C, s, m) /\ MessageOK(cfg, m)
                  /\ \/ Step("client", ssl3_get_server_certificate(s, m))
                     \/ StepAfterRead("client", ssl3_get_server_certificate(s, m)) /\ net["client"] # << >>
    BY KeptRead, NextRead DEF Get, Reused, ssl3_get_message, Incoming, Endpoint
<1> DEFINE t == ssl3_get_server_certificate(s, m)
<1>2. C.state = "CR_CERT" /\ cache' = cache
    BY DEF Get
<1>3. ClientIs(C, "CR_CERT")
    BY <1>2 DEF AuthInv, Auth, ClientIs
<1>4. ClientGoes(C, t)
    BY <1>1, <1>3, ClientServerCertificate DEF Anonymous
<1>5. \E q : Takes("client", t, q)
    BY <1>1 DEF Takes
<1> HIDE DEF t
<1> QED BY <1>2, <1>4, <1>5, ClientPlainStep DEF Verifying

LEMMA ClientGetsStatus ==
    ASSUME AuthInv, Get("client", "CR_CERT_STATUS", ssl3_get_cert_status)
    PROVE  AuthInv'
<1> DEFINE C == ssl["client"]
<1>1. PICK s, m : /\ HasRead(C, s, m) /\ MessageOK(cfg, m)
                  /\ \/ Step("client", ssl3_get_cert_status(s, m))
                     \/ StepAfterRead("client", ssl3_get_cert_status(s, m)) /\ net["client"] # << >>
    BY KeptRead, NextRead DEF Get, Reused, ssl3_get_message, Incoming, Endpoint
<1> DEFINE t == ssl3_get_cert_status(s, m)
<1>2. C.state = "CR_CERT_STATUS" /\ cache' = cache
    BY DEF Get
<1>3. ClientIs(C, "CR_CERT_STATUS")
    BY <1>2 DEF AuthInv, Auth, ClientIs
<1>4. ClientGoes(C, t)
    BY <1>1, <1>3, ClientCertStatus
<1>5. \E q : Takes("client", t, q)
    BY <1>1 DEF Takes
<1> HIDE DEF t
<1> QED BY <1>2, <1>4, <1>5, ClientPlainStep DEF Verifying

LEMMA ClientGetsKeyExchange ==
    ASSUME AuthInv, Get("client", "CR_KEY_EXCH", ssl3_get_server_key_exchange)
    PROVE  AuthInv'
<1> DEFINE C == ssl["client"]
<1>1. PICK s, m : /\ HasRead(C, s, m) /\ MessageOK(cfg, m)
                  /\ \/ Step("client", ssl3_get_server_key_exchange(s, m))
                     \/ StepAfterRead("client", ssl3_get_server_key_exchange(s, m)) /\ net["client"] # << >>
    BY KeptRead, NextRead DEF Get, Reused, ssl3_get_message, Incoming, Endpoint
<1> DEFINE t == ssl3_get_server_key_exchange(s, m)
<1>2. C.state = "CR_KEY_EXCH" /\ cache' = cache
    BY DEF Get
<1>3. ClientIs(C, "CR_KEY_EXCH")
    BY <1>2 DEF AuthInv, Auth, ClientIs
<1>4. ClientGoes(C, t)
    BY <1>1, <1>3, ClientServerKeyExchange
<1>5. \E q : Takes("client", t, q)
    BY <1>1 DEF Takes
<1> HIDE DEF t
<1> QED BY <1>2, <1>4, <1>5, ClientPlainStep DEF Verifying

LEMMA ClientGetsRequest ==
    ASSUME AuthInv, Get("client", "CR_CERT_REQ", ssl3_get_certificate_request)
    PROVE  AuthInv'
<1> DEFINE C == ssl["client"]
<1>1. PICK s, m : /\ HasRead(C, s, m) /\ MessageOK(cfg, m)
                  /\ \/ Step("client", ssl3_get_certificate_request(s, m))
                     \/ StepAfterRead("client", ssl3_get_certificate_request(s, m)) /\ net["client"] # << >>
    BY KeptRead, NextRead DEF Get, Reused, ssl3_get_message, Incoming, Endpoint
<1> DEFINE t == ssl3_get_certificate_request(s, m)
<1>2. C.state = "CR_CERT_REQ" /\ cache' = cache
    BY DEF Get
<1>3. ClientIs(C, "CR_CERT_REQ")
    BY <1>2 DEF AuthInv, Auth, ClientIs
<1>4. ClientGoes(C, t)
    BY <1>1, <1>3, ClientCertificateRequest
<1>5. \E q : Takes("client", t, q)
    BY <1>1 DEF Takes
<1> HIDE DEF t
<1> QED BY <1>2, <1>4, <1>5, ClientPlainStep DEF Verifying

LEMMA ClientGetsDone ==
    ASSUME AuthInv, Get("client", "CR_SRVR_DONE", ssl3_get_server_done)
    PROVE  AuthInv'
<1> DEFINE C == ssl["client"]
<1>1. PICK s, m : /\ HasRead(C, s, m) /\ MessageOK(cfg, m)
                  /\ \/ Step("client", ssl3_get_server_done(s, m))
                     \/ StepAfterRead("client", ssl3_get_server_done(s, m)) /\ net["client"] # << >>
    BY KeptRead, NextRead DEF Get, Reused, ssl3_get_message, Incoming, Endpoint
<1> DEFINE t == ssl3_get_server_done(s, m)
<1>2. C.state = "CR_SRVR_DONE" /\ cache' = cache
    BY DEF Get
<1>3. ClientIs(C, "CR_SRVR_DONE")
    BY <1>2 DEF AuthInv, Auth, ClientIs
<1>4. ClientGoes(C, t)
    BY <1>1, <1>3, ClientServerDone
<1>5. \E q : Takes("client", t, q)
    BY <1>1 DEF Takes
<1> HIDE DEF t
<1> QED BY <1>2, <1>4, <1>5, ClientPlainStep DEF Verifying

LEMMA ClientGetsTicket ==
    ASSUME AuthInv, Get("client", "CR_SESSION_TICKET", ssl3_get_new_session_ticket)
    PROVE  AuthInv'
<1> DEFINE C == ssl["client"]
<1>1. PICK s, m : /\ HasRead(C, s, m) /\ MessageOK(cfg, m)
                  /\ \/ Step("client", ssl3_get_new_session_ticket(s, m))
                     \/ StepAfterRead("client", ssl3_get_new_session_ticket(s, m)) /\ net["client"] # << >>
    BY KeptRead, NextRead DEF Get, Reused, ssl3_get_message, Incoming, Endpoint
<1> DEFINE t == ssl3_get_new_session_ticket(s, m)
<1>2. C.state = "CR_SESSION_TICKET" /\ cache' = cache
    BY DEF Get
<1>3. ClientIs(C, "CR_SESSION_TICKET")
    BY <1>2 DEF AuthInv, Auth, ClientIs
<1>4. ClientGoes(C, t)
    BY <1>1, <1>3, ClientNewSessionTicket
<1>5. \E q : Takes("client", t, q)
    BY <1>1 DEF Takes
<1> HIDE DEF t
<1> QED BY <1>2, <1>4, <1>5, ClientPlainStep DEF Verifying

LEMMA ClientGetsFinished ==
    ASSUME AuthInv, Get("client", "CR_FINISHED", ssl3_get_server_finished)
    PROVE  AuthInv'
<1> DEFINE C == ssl["client"]
<1>1. PICK s, m : /\ HasRead(C, s, m) /\ MessageOK(cfg, m)
                  /\ \/ Step("client", ssl3_get_server_finished(s, m))
                     \/ StepAfterRead("client", ssl3_get_server_finished(s, m)) /\ net["client"] # << >>
    BY KeptRead, NextRead DEF Get, Reused, ssl3_get_message, Incoming, Endpoint
<1> DEFINE t == ssl3_get_server_finished(s, m)
<1>2. C.state = "CR_FINISHED" /\ cache' = cache
    BY DEF Get
<1>3. ClientIs(C, "CR_FINISHED")
    BY <1>2 DEF AuthInv, Auth, ClientIs
<1>4. ClientGoes(C, t)
    BY <1>1, <1>3, ClientServerFinished
<1>5. \E q : Takes("client", t, q)
    BY <1>1 DEF Takes
<1> HIDE DEF t
<1> QED BY <1>2, <1>4, <1>5, ClientPlainStep DEF Verifying

LEMMA ClientSkips ==
    ASSUME AuthInv, Do("client", "CR_CERT", SkipServerCertificate)
    PROVE  AuthInv'
<1> DEFINE C == ssl["client"]
           t == SkipServerCertificate(C)
<1>1. C.state = "CR_CERT" /\ cache' = cache /\ Takes("client", t, Queue("client"))
    BY DEF Do, Takes
<1>2. ClientIs(C, "CR_CERT")
    BY <1>1 DEF AuthInv, Auth, ClientIs
<1>3. ClientGoes(C, t)
    BY <1>2, ClientSkipsCertificate
<1> HIDE DEF t
<1> QED BY <1>1, <1>3, ClientPlainStep DEF Verifying

LEMMA ClientCertificates ==
    ASSUME AuthInv, Do("client", "CW_CERT", ssl3_send_client_certificate)
    PROVE  AuthInv'
<1> DEFINE C == ssl["client"]
           t == ssl3_send_client_certificate(C)
<1>1. C.state = "CW_CERT" /\ cache' = cache /\ Takes("client", t, Queue("client"))
    BY DEF Do, Takes
<1>2. ClientIs(C, "CW_CERT")
    BY <1>1 DEF AuthInv, Auth, ClientIs
<1>3. ClientGoes(C, t)
    BY <1>2, ClientSendsCertificate
<1> HIDE DEF t
<1> QED BY <1>1, <1>3, ClientPlainStep DEF Verifying

LEMMA ClientKeyExchanges ==
    ASSUME AuthInv, Do("client", "CW_KEY_EXCH", ssl3_send_client_key_exchange)
    PROVE  AuthInv'
<1> DEFINE C == ssl["client"]
           t == ssl3_send_client_key_exchange(C)
<1>1. C.state = "CW_KEY_EXCH" /\ cache' = cache /\ Takes("client", t, Queue("client"))
    BY DEF Do, Takes
<1>2. ClientIs(C, "CW_KEY_EXCH")
    BY <1>1 DEF AuthInv, Auth, ClientIs
<1>3. ClientGoes(C, t)
    BY <1>2, ClientSendsKeyExchange
<1> HIDE DEF t
<1> QED BY <1>1, <1>3, ClientPlainStep DEF Verifying

LEMMA ClientSigns ==
    ASSUME AuthInv, Do("client", "CW_CERT_VRFY", ssl3_send_client_verify)
    PROVE  AuthInv'
<1> DEFINE C == ssl["client"]
           t == ssl3_send_client_verify(C)
<1>1. C.state = "CW_CERT_VRFY" /\ cache' = cache /\ Takes("client", t, Queue("client"))
    BY DEF Do, Takes
<1>2. ClientIs(C, "CW_CERT_VRFY")
    BY <1>1 DEF AuthInv, Auth, ClientIs
<1>3. ClientGoes(C, t)
    BY <1>2, ClientSendsVerify
<1> HIDE DEF t
<1> QED BY <1>1, <1>3, ClientPlainStep DEF Verifying

LEMMA ClientChanges ==
    ASSUME AuthInv, Do("client", "CW_CHANGE", ssl3_send_client_change_cipher_spec)
    PROVE  AuthInv'
<1> DEFINE C == ssl["client"]
           t == ssl3_send_client_change_cipher_spec(C)
<1>1. C.state = "CW_CHANGE" /\ cache' = cache /\ Takes("client", t, Queue("client"))
    BY DEF Do, Takes
<1>2. ClientIs(C, "CW_CHANGE")
    BY <1>1 DEF AuthInv, Auth, ClientIs
<1>3. ClientGoes(C, t)
    BY <1>2, ClientSendsCcs
<1> HIDE DEF t
<1> QED BY <1>1, <1>3, ClientPlainStep DEF Verifying

LEMMA ClientFinishes ==
    ASSUME AuthInv, Do("client", "CW_FINISHED", ssl3_send_client_finished)
    PROVE  AuthInv'
<1> DEFINE C == ssl["client"]
           t == ssl3_send_client_finished(C)
<1>1. C.state = "CW_FINISHED" /\ cache' = cache /\ Takes("client", t, Queue("client"))
    BY DEF Do, Takes
<1>2. ClientIs(C, "CW_FINISHED")
    BY <1>1 DEF AuthInv, Auth, ClientIs
<1>3. ClientGoes(C, t)
    BY <1>2, ClientSendsFinished
<1> HIDE DEF t
<1> QED BY <1>1, <1>3, ClientPlainStep DEF Verifying

LEMMA ClientEnds ==
    ASSUME AuthInv, Do("client", "ST_OK", Connected)
    PROVE  AuthInv'
<1> DEFINE C == ssl["client"]
           t == Connected(C)
<1>1. C.state = "ST_OK" /\ cache' = cache /\ Takes("client", t, Queue("client"))
    BY DEF Do, Takes
<1>2. ClientIs(C, "ST_OK")
    BY <1>1 DEF AuthInv, Auth, ClientIs
<1>3. ClientGoes(C, t)
    BY <1>2, ClientConnected
<1> HIDE DEF t
<1> QED BY <1>1, <1>3, ClientPlainStep DEF Verifying

LEMMA ClientFlushesBuffer ==
    ASSUME AuthInv, Do("client", "FLUSH", FlushBuffer)
    PROVE  AuthInv'
<1> DEFINE C == ssl["client"]
           t == FlushBuffer(C)
<1>1. C.state = "FLUSH" /\ cache' = cache /\ Takes("client", t, Queue("client"))
    BY DEF Do, Takes
<1>2. ClientIs(C, "FLUSH")
    BY <1>1 DEF AuthInv, Auth, ClientIs
<1>3. ClientGoes(C, t)
    BY <1>2, ClientFlushes
<1>4. t.state = C.next_state
    BY <1>2, FlushSheet DEF ClientIs, IsSsl
<1>5. Position(t) = Position(C)
    BY <1>1, <1>2, <1>4 DEF Position, ClientIs, ClientAuth
<1> HIDE DEF t
<1> QED BY <1>1, <1>3, <1>5, ClientPlainStep DEF Verifying

LEMMA ClientConnectStep ==
    ASSUME AuthInv, ssl3_connect
    PROVE  AuthInv'
    BY ClientBegins, ClientGreets, ClientHearsHello, ClientVerifiesHello, ClientSkips, ClientGetsCertificate,
       ClientGetsStatus, ClientGetsKeyExchange, ClientGetsRequest, ClientGetsDone, ClientCertificates,
       ClientKeyExchanges, ClientSigns, ClientChanges, ClientFinishes, ClientGetsTicket, ClientGetsFinished, ClientEnds
    DEF ssl3_connect

(* What the record layer does for a client that waits. *)
LEMMA ClientReads ==
    ASSUME AuthInv, Waits("client"), net["client"] # << >>, NEW t, StepAfterRead("client", t), cache' = cache,
           ClientGoes(ssl["client"], t)
    PROVE  AuthInv'
<1>1. /\ ssl["client"].state \notin {"Failed", "BEFORE", "CW_CLNT_HELLO", "FLUSH"} /\ ~Verifying(ssl["client"])
    BY DEF Waits, ReadStates, Verifying
<1>2. Takes("client", t, Tail(Queue("client")))
    BY DEF Takes
<1> QED BY <1>1, <1>2, ClientPlainStep

LEMMA ClientKept ==
    ASSUME AuthInv, Waits("client")
    PROVE  /\ ClientGoes(ssl["client"], ssl["client"])
           /\ ClientGoes(ssl["client"], Abort(ssl["client"]))
           /\ ClientGoes(ssl["client"], Die(ssl["client"]))
<1> DEFINE C == ssl["client"]
<1>1. /\ IsSsl(C, "client") /\ ClientAuth(cfg, C) /\ C.state \in ReadStates /\ C.reuse_message = Null
      /\ DOMAIN C = Fields
    BY DEF AuthInv, Auth, Waits, IsSsl
<1>2. Changes(C, C, {"reuse_message", "handshake_hash", "handshake_transcript"}) /\ Wrote(C, C)
    BY <1>1 DEF Changes, Wrote
<1>3. ClientGoes(C, C)
    BY <1>1, <1>2, ClientStays
<1>4. Fails(C, Abort(C)) /\ Fails(C, Die(C))
    BY <1>1, AbortSheet, DieSheet
<1>5. ClientGoes(C, Abort(C)) /\ ClientGoes(C, Die(C))
    BY <1>1, <1>2, <1>4, ClientFails
<1> QED BY <1>3, <1>5

LEMMA ClientReadsCcs ==
    ASSUME AuthInv, Waits("client")
    PROVE  ClientGoes(ssl["client"], ReadCcs(ssl["client"]))
<1> DEFINE C == ssl["client"]
           t == ReadCcs(C)
<1>1. /\ IsSsl(C, "client") /\ ClientAuth(cfg, C) /\ C.state \in ReadStates /\ C.reuse_message = Null
      /\ DOMAIN C = Fields /\ C.who = "client"
    BY DEF AuthInv, Auth, Waits, IsSsl
<1>2. CASE /\ t.state = "Failed" /\ Changes(C, t, {"state", "wbuf", "flush", "ccs_ok", "change_cipher_spec"})
           /\ (t.wbuf = << >> \/ t.wbuf = Append(C.wbuf, WireRecord(C, "alert", NoMessage)))
    <2> HIDE DEF t
    <2>1. t.session = C.session /\ t.who = C.who /\ DOMAIN t = Fields /\ t.reuse_message = Null
        BY <1>1, <1>2 DEF Changes, Fields
    <2>2. IsSsl(t, "client") /\ ClientPlain(C, t)
        BY <1>1, <1>2, <2>1 DEF IsSsl, ClientPlain
    <2>3. ClientAuth(cfg, t)
        BY <1>1, <1>2, <2>1 DEF ClientAuth, Position, Verifying, ClientOffers, ClientSure, ClientKeeps
    <2>4. Wrote(C, t)
        BY <1>2, OtherRecordIsOK DEF Wrote
    <2> QED BY <2>2, <2>3, <2>4 DEF ClientGoes, t
<1>3. CASE t = C
    BY <1>3, ClientKept
<1>4. CASE Changes(C, t, {"ccs_ok", "change_cipher_spec", "key_block", "rkey", "peer_finished"})
    <2> HIDE DEF t
    <2>1. /\ t.session = C.session /\ t.who = C.who /\ DOMAIN t = Fields /\ t.reuse_message = C.reuse_message
          /\ t.state = C.state /\ t.next_state = C.next_state /\ t.wbuf = C.wbuf
        BY <1>4 DEF Changes, Fields
    <2>2. Wrote(C, t)
        BY <2>1 DEF Wrote
    <2> QED BY <1>1, <2>1, <2>2, ClientStays DEF t
<1> QED BY <1>1, <1>2, <1>3, <1>4, ReadCcsSheet

LEMMA ClientReadBytes ==
    ASSUME AuthInv, ssl3_read_bytes("client")
    PROVE  AuthInv'
<1> DEFINE C == ssl["client"]
<1>1. CASE ssl3_read_change_cipher_spec("client")
    BY <1>1, ClientReadsCcs, ClientReads DEF ssl3_read_change_cipher_spec, Incoming
<1>2. CASE ssl3_read_alert("client")
    BY <1>2, ClientKept, ClientReads DEF ssl3_read_alert, Incoming
<1>3. CASE BadRecord("client")
    BY <1>3, ClientKept, ClientReads DEF BadRecord
<1>4. CASE SkipHelloRequest("client")
    BY <1>4, ClientKept, ClientReads DEF SkipHelloRequest, Incoming
<1>5. CASE ReadData("client")
    <2>1. PICK call \in cfg.calls :
            StepAfterRead("client", IF MayReadData(ssl["client"], call) THEN ssl["client"] ELSE Abort(ssl["client"]))
      BY <1>5 DEF ReadData
    <2>2. Waits("client") /\ Incoming("client", "data") /\ UNCHANGED cache
      BY <1>5 DEF ReadData
    <2> QED BY <2>1, <2>2, ClientKept, ClientReads DEF Incoming
<1>6. CASE ssl3_read_handshake_unexpected("client")
    <2> DEFINE m == Head(net["client"]).msg
               t == Unexpected(C, m)
    <2>1. /\ C.state = "Established" /\ Incoming("client", "handshake") /\ cache' = cache
          /\ Step("client", t) \/ StepAfterRead("client", t)
        BY <1>6 DEF ssl3_read_handshake_unexpected
    <2>2. /\ ClientIs(C, "Established") /\ C.reuse_message = Null /\ C.who = "client" /\ DOMAIN C = Fields
          /\ IsSsl(C, "client") /\ ClientAuth(cfg, C)
        BY <2>1 DEF AuthInv, Auth, ClientIs, ClientAuth, ClientKeeps, IsSsl
    <2>3. \E q : Takes("client", t, q)
        BY <2>1 DEF Takes, Incoming
    <2>4. MessageOK(cfg, m)
        <3>1. /\ IsSeq(net["client"]) /\ IsSeq(ssl["server"].wbuf) /\ IsSeq(Queue("client"))
              /\ Queue("client") = net["client"] \o ssl["server"].wbuf /\ Records(cfg, Queue("client"))
            BY AuthQueues DEF Endpoint, Peer
        <3>2. net["client"] # << >> /\ Head(net["client"]).type = "handshake"
            BY <2>1 DEF Incoming
        <3>3. Queue("client") # << >> /\ Head(Queue("client")) = Head(net["client"])
            BY <3>1, <3>2, ConcatTail
        <3>4. Queue("client")[1] = Head(net["client"]) /\ RecordOK(cfg, Queue("client")[1])
            BY <3>1, <3>3, SeqTail, RecordsTail
        <3> QED BY <3>2, <3>4 DEF RecordOK
    <2> HIDE DEF m
    <2>5. ClientGoes(C, t)
        <3>1. CASE Fails(C, t)
            <4>1. Changes(C, C, {"reuse_message", "handshake_hash", "handshake_transcript"})
                BY <2>2 DEF Changes
            <4> HIDE DEF t
            <4> QED BY <2>2, <3>1, <4>1, ClientFails
        <3>2. CASE m.mt = "HelloRequest" /\ Changes(C, t, {"state", "total_renegotiations"}) /\ t.state = "RENEGOTIATE"
            <4> HIDE DEF t
            <4>1. Changes(C, t, {"state", "renegotiate", "new_session", "total_renegotiations"})
                BY <3>2 DEF Changes
            <4>2. ~cfg.dtls
                BY <2>4, <3>2 DEF MessageOK
            <4> QED BY <2>2, <3>2, <4>1, <4>2, ClientRenegotiates
        <3> QED BY <2>2, <3>1, <3>2, UnexpectedSheet
    <2> HIDE DEF t
    <2> QED BY <2>1, <2>3, <2>5, ClientPlainStep DEF Verifying
<1> QED BY <1>1, <1>2, <1>3, <1>4, <1>5, <1>6 DEF ssl3_read_bytes

LEMMA ClientOther ==
    ASSUME AuthInv, Reenter("client") \/ Request("client")
    PROVE  AuthInv'
<1> DEFINE C == ssl["client"]
<1>0. IsSsl(C, "client") /\ ClientAuth(cfg, C) /\ DOMAIN C = Fields
    BY DEF AuthInv, Auth, IsSsl
<1>1. CASE Reenter("client")
    <2> DEFINE t == Goto(C, C.state)
    <2>1. /\ C.state \in ReadStates /\ C.reuse_message = Null /\ C.state \in AllowsCcs /\ cache' = cache
          /\ Takes("client", t, Queue("client"))
        BY <1>1 DEF Reenter, Waits, Takes
    <2>2. /\ t.session = C.session /\ t.who = C.who /\ DOMAIN t = Fields /\ t.reuse_message = C.reuse_message
          /\ t.state = C.state /\ t.next_state = C.next_state /\ t.wbuf = C.wbuf
        BY <1>0 DEF Goto, Fields
    <2> HIDE DEF t
    <2>3. ClientGoes(C, t)
        BY <1>0, <2>1, <2>2, ClientStays DEF Wrote
    <2> QED BY <2>1, <2>3, ClientPlainStep DEF Verifying, AllowsCcs
<1>2. CASE WriteData("client")
    <2> DEFINE t == [Write(C, "data", NoMessage) EXCEPT !.data = @ + 1]
    <2>1. /\ C.state = "Established" /\ cache' = cache /\ Takes("client", t, Queue("client"))
        BY <1>2 DEF WriteData, Takes
    <2>2. /\ t.session = C.session /\ t.who = C.who /\ DOMAIN t = Fields /\ t.reuse_message = C.reuse_message
          /\ t.state = C.state /\ t.next_state = C.next_state
          /\ t.wbuf = Append(C.wbuf, WireRecord(C, "data", NoMessage))
        BY <1>0 DEF Write, Fields
    <2> HIDE DEF t
    <2>3. Wrote(C, t)
        BY <2>2, OtherRecordIsOK DEF Wrote
    <2>4. ClientGoes(C, t)
        BY <1>0, <2>1, <2>2, <2>3, ClientStays DEF ReadStates, ClientAuth, ClientKeeps
    <2> QED BY <2>1, <2>4, ClientPlainStep DEF Verifying
<1>3. ASSUME NEW abbreviated \in BOOLEAN, SSL_renegotiate("client", abbreviated) PROVE AuthInv'
    <2> DEFINE t == [C EXCEPT !.state = "RENEGOTIATE", !.renegotiate = 1, !.new_session = ~abbreviated,
                              !.total_renegotiations = @ + 1]
    <2>1. /\ C.state = "Established" /\ ~cfg.dtls /\ cache' = cache /\ Takes("client", t, Queue("client"))
        BY <1>3 DEF SSL_renegotiate, Takes
    <2>2. Changes(C, t, {"state", "renegotiate", "new_session", "total_renegotiations"}) /\ t.state = "RENEGOTIATE"
        BY <1>0 DEF Changes, Fields
    <2> HIDE DEF t
    <2>3. ClientGoes(C, t)
        BY <1>0, <2>1, <2>2, ClientRenegotiates DEF ClientIs
    <2> QED BY <2>1, <2>3, ClientPlainStep DEF Verifying
<1> QED BY <1>1, <1>2, <1>3 DEF Request

-----------------------------------------------------------------------------
(* The steps of the server. *)

LEMMA ServerBegins ==
    ASSUME AuthInv, NEW state \in {"BEFORE", "ACCEPT", "RENEGOTIATE"}, Do("server", state, Accept)
    PROVE  AuthInv'
<1> DEFINE S == ssl["server"]
           t == Accept(S)
<1>1. /\ S.state = state /\ cache' = cache /\ Takes("server", t, Queue("server"))
      /\ "server" \in Endpoint /\ Peer("server") = "client"
    BY DEF Do, Takes, Endpoint, Peer
<1>2. ServerIs(S, state)
    BY <1>1 DEF AuthInv, Auth, ServerIs
<1>3. /\ ServerGoes(S, t)
      /\ state = "BEFORE" /\ t.state # "Failed" => Position(t) = "SR_CLNT_HELLO" /\ t.wbuf = S.wbuf
    BY <1>2, ServerAccepts
<1> HIDE DEF t
<1>4. CASE state # "BEFORE" \/ t.state = "Failed"
    BY <1>1, <1>3, <1>4, ServerPlainStep DEF Position
<1>5. CASE state = "BEFORE" /\ t.state # "Failed"
    <2>1. net["client"] \o t.wbuf = Queue("client") /\ Position(t) = "SR_CLNT_HELLO" /\ Position(S) = "BEFORE"
        BY <1>1, <1>3, <1>5 DEF Queue, Position, Peer
    <2>2. Cookies(cfg, ssl["client"], t, Queue("server"), Queue("client"))
        BY <1>1, <1>5, <2>1, CookiesSame DEF AuthInv, Auth
    <2>3. IsSeq(t.wbuf) /\ Records(cfg, net["client"] \o t.wbuf)
        BY <1>1, <1>3, AuthWrote DEF ServerGoes
    <2> QED BY <1>1, <1>3, <2>1, <2>2, <2>3, ServerStep DEF ServerGoes
<1> QED BY <1>4, <1>5

LEMMA ServerFlushesBuffer ==
    ASSUME AuthInv, Do("server", "FLUSH", FlushBuffer)
    PROVE  AuthInv'
<1> DEFINE S == ssl["server"]
           t == FlushBuffer(S)
<1>1. /\ S.state = "FLUSH" /\ cache' = cache /\ Takes("server", t, Queue("server"))
      /\ "server" \in Endpoint /\ Peer("server") = "client"
    BY DEF Do, Takes, Endpoint, Peer
<1>2. ServerIs(S, "FLUSH")
    BY <1>1 DEF AuthInv, Auth, ServerIs
<1>3. IsSsl(t, "server") /\ ServerAuth(cfg, t) /\ t.wbuf = S.wbuf /\ Position(t) = Position(S)
    BY <1>2, ServerFlushes
<1> HIDE DEF t
<1>4. net["client"] \o t.wbuf = Queue("client") /\ Wrote(S, t)
    BY <1>1, <1>3 DEF Queue, Peer, Wrote
<1>5. Cookies(cfg, ssl["client"], t, Queue("server"), Queue("client"))
    BY <1>1, <1>3, CookiesSame DEF AuthInv, Auth
<1>6. IsSeq(t.wbuf) /\ Records(cfg, net["client"] \o t.wbuf)
    BY <1>1, <1>4, AuthWrote
<1> QED BY <1>1, <1>3, <1>4, <1>5, <1>6, ServerStep

LEMMA ServerHearsHello ==
    ASSUME AuthInv, Get("server", "SR_CLNT_HELLO", ssl3_get_client_hello)
    PROVE  AuthInv'
<1> DEFINE S == ssl["server"]
           C == ssl["client"]
           qc == Queue("client")
           qs == Queue("server")
<1>1. /\ S.state = "SR_CLNT_HELLO" /\ cache' = cache
      /\ "client" \in Endpoint /\ Peer("server") = "client" /\ "server" \in Endpoint
    BY DEF Get, Endpoint, Peer
<1>2. /\ ServerIs(S, "SR_CLNT_HELLO") /\ Cookies(cfg, C, S, qs, qc) /\ S.reuse_message = Null
      /\ \A x \in cache : DOMAIN x = SessionFields /\ SessionOK(cfg, x)
    BY <1>1 DEF AuthInv, Auth, ServerIs, ServerAuth
<1>3. PICK s, m : /\ HasRead(S, s, m) /\ MessageOK(cfg, m) /\ StepAfterRead("server", ssl3_get_client_hello(s, m))
                  /\ net["server"] # << >> /\ qs # << >> /\ Is(qs[1], m.mt) /\ qs[1].msg = m
    BY <1>1, <1>2, NextRead DEF Get, Reused, ssl3_get_message, Incoming
<1> DEFINE t == ssl3_get_client_hello(s, m)
           qc2 == net["client"] \o t.wbuf
<1>4. Takes("server", t, Tail(qs)) /\ StepAfterRead("server", t)
    BY <1>3 DEF Takes
<1>5. \/ ServerGoes(S, t)
      \/ /\ IsSsl(t, "server") /\ ServerAuth(cfg, t) /\ t.wbuf = S.wbuf /\ t.state = "SW_HELLO_VERIFY"
         /\ cfg.dtls /\ m.mt = "ClientHello" /\ ~m.body.cookie
    BY <1>2, <1>3, ServerClientHello
<1> HIDE DEF t
<1>6. CASE ServerGoes(S, t)
    <2>1. Position(S) = "SR_CLNT_HELLO"
        BY <1>1 DEF Position
    <2> QED BY <1>1, <1>3, <1>4, <1>6, <2>1, ServerPlainStep
<1>7. CASE /\ IsSsl(t, "server") /\ ServerAuth(cfg, t) /\ t.wbuf = S.wbuf /\ t.state = "SW_HELLO_VERIFY"
           /\ m.mt = "ClientHello" /\ ~m.body.cookie
    <2>1. qc2 = qc /\ Wrote(S, t)
        BY <1>1, <1>7 DEF Queue, Peer, Wrote
    <2>2. IsSeq(t.wbuf) /\ Records(cfg, qc2)
        BY <1>1, <2>1, AuthWrote
    <2> HIDE DEF qc2
    <2>3. Cookies(cfg, C, t, Tail(qs), qc2)
        <3> SUFFICES ASSUME cfg.dtls, C.state # "Failed"
                     PROVE  CookiePhase(C, t, Tail(qs), qc) /\ CookieSafe(C, qc)
            BY <2>1 DEF Cookies
        <3>1. CookiePhase(C, S, qs, qc) /\ CookieSafe(C, qc)
            BY <1>1, <1>2 DEF Cookies
        <3>2. IsSeq(qs) /\ FirstHello(qs[1])
            BY <1>1, <1>3, <1>7, AuthQueues DEF FirstHello
        <3>3. ~NoFirstHello(qs) /\ (Len(qs) = 1 => Tail(qs) = << >>)
            BY <1>3, <3>2, NoneTail
        <3>4. C.state = "CR_SRVR_HELLO" /\ ~C.send_cookie /\ Len(qs) = 1 /\ qc = << >>
            BY <1>3, <3>1, <3>3 DEF CookiePhase
        <3>5. Position(t) = "SW_HELLO_VERIFY"
            BY <1>7 DEF Position
        <3> QED BY <3>1, <3>3, <3>4, <3>5 DEF CookiePhase
    <2> QED BY <1>1, <1>4, <1>7, <2>2, <2>3, ServerStep DEF qc2
<1> QED BY <1>5, <1>6, <1>7

LEMMA ServerAsksForCookie ==
    ASSUME AuthInv, Do("server", "SW_HELLO_VERIFY", ssl3_send_dtls_hello_verify_request)
    PROVE  AuthInv'
<1> DEFINE S == ssl["server"]
           C == ssl["client"]
           t == ssl3_send_dtls_hello_verify_request(S)
           qc == Queue("client")
           qc2 == net["client"] \o t.wbuf
<1>1. /\ S.state = "SW_HELLO_VERIFY" /\ Takes("server", t, Queue("server")) /\ cache' = cache
      /\ "client" \in Endpoint /\ Peer("client") = "server"
    BY DEF Do, Endpoint, Peer, Takes
<1>2. ServerIs(S, "SW_HELLO_VERIFY") /\ Cookies(cfg, C, S, Queue("server"), qc)
    BY <1>1 DEF AuthInv, Auth, ServerIs
<1>3. /\ IsSsl(t, "server") /\ ServerAuth(cfg, t) /\ Position(t) = "SR_CLNT_HELLO"
      /\ \E r : t.wbuf = Append(S.wbuf, r) /\ RecordOK(cfg, r) /\ VerifyRequest(r)
    BY <1>2, ServerSendsVerifyRequest
<1>4. IsSeq(net["client"]) /\ IsSeq(S.wbuf) /\ qc = net["client"] \o S.wbuf /\ Records(cfg, qc) /\ IsSeq(qc)
    BY <1>1, AuthQueues
<1> HIDE DEF t, qc
<1>5. PICK r : t.wbuf = Append(S.wbuf, r) /\ RecordOK(cfg, r) /\ VerifyRequest(r)
    BY <1>3
<1>6. IsSeq(t.wbuf) /\ qc2 = Append(qc, r)
    <2> DEFINE p == net["client"]
               w == S.wbuf
    <2>1. IsSeq(p) /\ IsSeq(w) /\ qc = p \o w /\ t.wbuf = Append(w, r)
        BY <1>4, <1>5
    <2> HIDE DEF p, w
    <2>2. p \o Append(w, r) = Append(p \o w, r) /\ IsSeq(Append(w, r))
        BY <2>1, ConcatAppend, SeqAppend
    <2>3. qc2 = p \o t.wbuf
        BY DEF p
    <2> QED BY <2>1, <2>2, <2>3
<1>7. Records(cfg, qc2)
    BY <1>4, <1>5, <1>6, RecordsAppend
<1> HIDE DEF qc2
<1>8. Cookies(cfg, C, t, Queue("server"), qc2)
    <2> SUFFICES ASSUME cfg.dtls, C.state # "Failed"
                 PROVE  CookiePhase(C, t, Queue("server"), qc2) /\ CookieSafe(C, qc2)
        BY DEF Cookies
    <2>1. CookiePhase(C, S, Queue("server"), qc) /\ Position(S) = "SW_HELLO_VERIFY"
        BY <1>1, <1>2 DEF Cookies, Position
    <2>2. C.state = "CR_SRVR_HELLO" /\ ~C.send_cookie /\ Queue("server") = << >> /\ qc = << >>
        BY <2>1 DEF CookiePhase, ServerWaits
    <2>3. Len(qc2) = 1 /\ qc2[1] = r
        <3>1. Len(qc) = 0 BY <2>2
        <3>2. Len(Append(qc, r)) = Len(qc) + 1 /\ Append(qc, r)[Len(qc) + 1] = r
            BY <1>4, SeqAppend
        <3> QED BY <1>6, <3>1, <3>2
    <2>4. CookieSafe(C, qc2)
        BY <2>2, <2>3 DEF CookieSafe, Position
    <2> QED BY <1>3, <1>5, <2>2, <2>3, <2>4 DEF CookiePhase, ServerWaits
<1> QED BY <1>1, <1>3, <1>6, <1>7, <1>8, ServerStep DEF qc2

LEMMA ServerGetsCertificate ==
    ASSUME AuthInv, Get("server", "SR_CERT", ssl3_get_client_certificate)
    PROVE  AuthInv'
<1> DEFINE S == ssl["server"]
<1>1. PICK s, m : /\ HasRead(S, s, m) /\ MessageOK(cfg, m)
                  /\ \/ Step("server", ssl3_get_client_certificate(s, m))
                     \/ StepAfterRead("server", ssl3_get_client_certificate(s, m)) /\ net["server"] # << >>
    BY KeptRead, NextRead DEF Get, Reused, ssl3_get_message, Incoming, Endpoint
<1> DEFINE t == ssl3_get_client_certificate(s, m)
<1>2. S.state = "SR_CERT" /\ cache' = cache
    BY DEF Get
<1>3. ServerIs(S, "SR_CERT")
    BY <1>2 DEF AuthInv, Auth, ServerIs
<1>4. ServerGoes(S, t)
    BY <1>1, <1>3, ServerClientCertificate
<1>5. \E q : Takes("server", t, q)
    BY <1>1 DEF Takes
<1> HIDE DEF t
<1> QED BY <1>2, <1>4, <1>5, ServerPlainStep DEF Position

LEMMA ServerGetsKeyExchange ==
    ASSUME AuthInv, Get("server", "SR_KEY_EXCH", ssl3_get_client_key_exchange)
    PROVE  AuthInv'
<1> DEFINE S == ssl["server"]
<1>1. PICK s, m : /\ HasRead(S, s, m) /\ MessageOK(cfg, m)
                  /\ \/ Step("server", ssl3_get_client_key_exchange(s, m))
                     \/ StepAfterRead("server", ssl3_get_client_key_exchange(s, m)) /\ net["server"] # << >>
    BY KeptRead, NextRead DEF Get, Reused, ssl3_get_message, Incoming, Endpoint
<1> DEFINE t == ssl3_get_client_key_exchange(s, m)
<1>2. S.state = "SR_KEY_EXCH" /\ cache' = cache
    BY DEF Get
<1>3. ServerIs(S, "SR_KEY_EXCH")
    BY <1>2 DEF AuthInv, Auth, ServerIs
<1>4. ServerGoes(S, t)
    BY <1>1, <1>3, ServerClientKeyExchange
<1>5. \E q : Takes("server", t, q)
    BY <1>1 DEF Takes
<1> HIDE DEF t
<1> QED BY <1>2, <1>4, <1>5, ServerPlainStep DEF Position

LEMMA ServerGetsVerify ==
    ASSUME AuthInv, Get("server", "SR_CERT_VRFY", ssl3_get_cert_verify)
    PROVE  AuthInv'
<1> DEFINE S == ssl["server"]
<1>1. PICK s, m : /\ HasRead(S, s, m) /\ MessageOK(cfg, m)
                  /\ \/ Step("server", ssl3_get_cert_verify(s, m))
                     \/ StepAfterRead("server", ssl3_get_cert_verify(s, m)) /\ net["server"] # << >>
    BY KeptRead, NextRead DEF Get, Reused, ssl3_get_message, Incoming, Endpoint
<1> DEFINE t == ssl3_get_cert_verify(s, m)
<1>2. S.state = "SR_CERT_VRFY" /\ cache' = cache
    BY DEF Get
<1>3. ServerIs(S, "SR_CERT_VRFY")
    BY <1>2 DEF AuthInv, Auth, ServerIs
<1>4. ServerGoes(S, t)
    BY <1>1, <1>3, ServerCertVerify
<1>5. \E q : Takes("server", t, q)
    BY <1>1 DEF Takes
<1> HIDE DEF t
<1> QED BY <1>2, <1>4, <1>5, ServerPlainStep DEF Position

LEMMA ServerGetsFinished ==
    ASSUME AuthInv, Get("server", "SR_FINISHED", ssl3_get_client_finished)
    PROVE  AuthInv'
<1> DEFINE S == ssl["server"]
<1>1. PICK s, m : /\ HasRead(S, s, m) /\ MessageOK(cfg, m)
                  /\ \/ Step("server", ssl3_get_client_finished(s, m))
                     \/ StepAfterRead("server", ssl3_get_client_finished(s, m)) /\ net["server"] # << >>
    BY KeptRead, NextRead DEF Get, Reused, ssl3_get_message, Incoming, Endpoint
<1> DEFINE t == ssl3_get_client_finished(s, m)
<1>2. S.state = "SR_FINISHED" /\ cache' = cache
    BY DEF Get
<1>3. ServerIs(S, "SR_FINISHED")
    BY <1>2 DEF AuthInv, Auth, ServerIs
<1>4. ServerGoes(S, t)
    BY <1>1, <1>3, ServerClientFinished
<1>5. \E q : Takes("server", t, q)
    BY <1>1 DEF Takes
<1> HIDE DEF t
<1> QED BY <1>2, <1>4, <1>5, ServerPlainStep DEF Position

LEMMA ServerRequestsHello ==
    ASSUME AuthInv, Do("server", "SW_HELLO_REQ", ssl3_send_hello_request)
    PROVE  AuthInv'
<1> DEFINE S == ssl["server"]
           t == ssl3_send_hello_request(S)
<1>1. S.state = "SW_HELLO_REQ" /\ cache' = cache /\ Takes("server", t, Queue("server")) /\ cfg \in Configs
    BY DEF Do, Takes, AuthInv
<1>2. ServerIs(S, "SW_HELLO_REQ")
    BY <1>1 DEF AuthInv, Auth, ServerIs
<1>3. ServerGoes(S, t)
    BY <1>1, <1>2, ServerSendsHelloRequest
<1> HIDE DEF t
<1> QED BY <1>1, <1>3, ServerPlainStep DEF Position

LEMMA ServerGreets ==
    ASSUME AuthInv, Do("server", "SW_SRVR_HELLO", ssl3_send_server_hello)
    PROVE  AuthInv'
<1> DEFINE S == ssl["server"]
           t == ssl3_send_server_hello(S)
<1>1. S.state = "SW_SRVR_HELLO" /\ cache' = cache /\ Takes("server", t, Queue("server")) /\ cfg \in Configs
    BY DEF Do, Takes, AuthInv
<1>2. ServerIs(S, "SW_SRVR_HELLO")
    BY <1>1 DEF AuthInv, Auth, ServerIs
<1>3. ServerGoes(S, t)
    BY <1>1, <1>2, ServerSendsHello
<1> HIDE DEF t
<1> QED BY <1>1, <1>3, ServerPlainStep DEF Position

LEMMA ServerCertificates ==
    ASSUME AuthInv, Do("server", "SW_CERT", ssl3_send_server_certificate)
    PROVE  AuthInv'
<1> DEFINE S == ssl["server"]
           t == ssl3_send_server_certificate(S)
<1>1. S.state = "SW_CERT" /\ cache' = cache /\ Takes("server", t, Queue("server")) /\ cfg \in Configs
    BY DEF Do, Takes, AuthInv
<1>2. ServerIs(S, "SW_CERT")
    BY <1>1 DEF AuthInv, Auth, ServerIs
<1>3. ServerGoes(S, t)
    BY <1>1, <1>2, ServerSendsCertificate
<1> HIDE DEF t
<1> QED BY <1>1, <1>3, ServerPlainStep DEF Position

LEMMA ServerStaples ==
    ASSUME AuthInv, Do("server", "SW_CERT_STATUS", ssl3_send_cert_status)
    PROVE  AuthInv'
<1> DEFINE S == ssl["server"]
           t == ssl3_send_cert_status(S)
<1>1. S.state = "SW_CERT_STATUS" /\ cache' = cache /\ Takes("server", t, Queue("server")) /\ cfg \in Configs
    BY DEF Do, Takes, AuthInv
<1>2. ServerIs(S, "SW_CERT_STATUS")
    BY <1>1 DEF AuthInv, Auth, ServerIs
<1>3. ServerGoes(S, t)
    BY <1>1, <1>2, ServerSendsStatus
<1> HIDE DEF t
<1> QED BY <1>1, <1>3, ServerPlainStep DEF Position

LEMMA ServerKeyExchanges ==
    ASSUME AuthInv, Do("server", "SW_KEY_EXCH", ssl3_send_server_key_exchange)
    PROVE  AuthInv'
<1> DEFINE S == ssl["server"]
           t == ssl3_send_server_key_exchange(S)
<1>1. S.state = "SW_KEY_EXCH" /\ cache' = cache /\ Takes("server", t, Queue("server")) /\ cfg \in Configs
    BY DEF Do, Takes, AuthInv
<1>2. ServerIs(S, "SW_KEY_EXCH")
    BY <1>1 DEF AuthInv, Auth, ServerIs
<1>3. ServerGoes(S, t)
    BY <1>1, <1>2, ServerSendsKeyExchange
<1> HIDE DEF t
<1> QED BY <1>1, <1>3, ServerPlainStep DEF Position

LEMMA ServerRequestsCertificate ==
    ASSUME AuthInv, Do("server", "SW_CERT_REQ", ssl3_send_certificate_request)
    PROVE  AuthInv'
<1> DEFINE S == ssl["server"]
           t == ssl3_send_certificate_request(S)
<1>1. S.state = "SW_CERT_REQ" /\ cache' = cache /\ Takes("server", t, Queue("server")) /\ cfg \in Configs
    BY DEF Do, Takes, AuthInv
<1>2. ServerIs(S, "SW_CERT_REQ")
    BY <1>1 DEF AuthInv, Auth, ServerIs
<1>3. ServerGoes(S, t)
    BY <1>1, <1>2, ServerSendsRequest
<1> HIDE DEF t
<1> QED BY <1>1, <1>3, ServerPlainStep DEF Position

LEMMA ServerIsDone ==
    ASSUME AuthInv, Do("server", "SW_SRVR_DONE", ssl3_send_server_done)
    PROVE  AuthInv'
<1> DEFINE S == ssl["server"]
           t == ssl3_send_server_done(S)
<1>1. S.state = "SW_SRVR_DONE" /\ cache' = cache /\ Takes("server", t, Queue("server")) /\ cfg \in Configs
    BY DEF Do, Takes, AuthInv
<1>2. ServerIs(S, "SW_SRVR_DONE")
    BY <1>1 DEF AuthInv, Auth, ServerIs
<1>3. ServerGoes(S, t)
    BY <1>1, <1>2, ServerSendsDone
<1> HIDE DEF t
<1> QED BY <1>1, <1>3, ServerPlainStep DEF Position

LEMMA ServerSkips ==
    ASSUME AuthInv, Do("server", "SR_CERT", SkipClientCertificate), ssl["server"].cert_request = 0
    PROVE  AuthInv'
<1> DEFINE S == ssl["server"]
           t == SkipClientCertificate(S)
<1>1. S.state = "SR_CERT" /\ cache' = cache /\ Takes("server", t, Queue("server")) /\ cfg \in Configs
    BY DEF Do, Takes, AuthInv
<1>2. ServerIs(S, "SR_CERT")
    BY <1>1 DEF AuthInv, Auth, ServerIs
<1>3. ServerGoes(S, t)
    BY <1>1, <1>2, ServerSkipsCertificate
<1> HIDE DEF t
<1> QED BY <1>1, <1>3, ServerPlainStep DEF Position

LEMMA ServerTickets ==
    ASSUME AuthInv, Do("server", "SW_SESSION_TICKET", ssl3_send_newsession_ticket)
    PROVE  AuthInv'
<1> DEFINE S == ssl["server"]
           t == ssl3_send_newsession_ticket(S)
<1>1. S.state = "SW_SESSION_TICKET" /\ cache' = cache /\ Takes("server", t, Queue("server")) /\ cfg \in Configs
    BY DEF Do, Takes, AuthInv
<1>2. ServerIs(S, "SW_SESSION_TICKET")
    BY <1>1 DEF AuthInv, Auth, ServerIs
<1>3. ServerGoes(S, t)
    BY <1>1, <1>2, ServerSendsTicket
<1> HIDE DEF t
<1> QED BY <1>1, <1>3, ServerPlainStep DEF Position

LEMMA ServerChanges ==
    ASSUME AuthInv, Do("server", "SW_CHANGE", ssl3_send_server_change_cipher_spec)
    PROVE  AuthInv'
<1> DEFINE S == ssl["server"]
           t == ssl3_send_server_change_cipher_spec(S)
<1>1. S.state = "SW_CHANGE" /\ cache' = cache /\ Takes("server", t, Queue("server")) /\ cfg \in Configs
    BY DEF Do, Takes, AuthInv
<1>2. ServerIs(S, "SW_CHANGE")
    BY <1>1 DEF AuthInv, Auth, ServerIs
<1>3. ServerGoes(S, t)
    BY <1>1, <1>2, ServerSendsCcs
<1> HIDE DEF t
<1> QED BY <1>1, <1>3, ServerPlainStep DEF Position

LEMMA ServerFinishes ==
    ASSUME AuthInv, Do("server", "SW_FINISHED", ssl3_send_server_finished)
    PROVE  AuthInv'
<1> DEFINE S == ssl["server"]
           t == ssl3_send_server_finished(S)
<1>1. S.state = "SW_FINISHED" /\ cache' = cache /\ Takes("server", t, Queue("server")) /\ cfg \in Configs
    BY DEF Do, Takes, AuthInv
<1>2. ServerIs(S, "SW_FINISHED")
    BY <1>1 DEF AuthInv, Auth, ServerIs
<1>3. ServerGoes(S, t)
    BY <1>1, <1>2, ServerSendsFinished
<1> HIDE DEF t
<1> QED BY <1>1, <1>3, ServerPlainStep DEF Position

LEMMA ServerEnds ==
    ASSUME AuthInv, ssl_update_cache
    PROVE  AuthInv'
<1> DEFINE S == ssl["server"]
           t == Accepted(S)
<1>1. /\ S.state = "ST_OK" /\ Takes("server", t, Queue("server"))
      /\ \A x \in cache' : x \in cache \/ x = S.session
    BY DEF ssl_update_cache, Takes
<1>2. ServerIs(S, "ST_OK") /\ DOMAIN S.session = SessionFields
    BY <1>1 DEF AuthInv, Auth, ServerIs, IsSsl
<1>3. ServerGoes(S, t) /\ SessionOK(cfg, S.session)
    BY <1>2, ServerAccepted
<1> HIDE DEF t
<1> QED BY <1>1, <1>2, <1>3, ServerPlainStep DEF Position

LEMMA ServerAcceptStep ==
    ASSUME AuthInv, ssl3_accept
    PROVE  AuthInv'
    BY ServerBegins, ServerRequestsHello, ServerHearsHello, ServerAsksForCookie, ServerGreets, ServerCertificates,
       ServerStaples, ServerKeyExchanges, ServerRequestsCertificate, ServerIsDone, ServerSkips, ServerGetsCertificate,
       ServerGetsKeyExchange, ServerGetsVerify, ServerGetsFinished, ServerTickets, ServerChanges, ServerFinishes, ServerEnds
    DEF ssl3_accept

(* What the record layer does for a server that waits. *)
LEMMA ServerReads ==
    ASSUME AuthInv, Waits("server"), net["server"] # << >>, NEW t, StepAfterRead("server", t),
           \A x \in cache' : x \in cache, ServerGoes(ssl["server"], t)
    PROVE  AuthInv'
<1>1. /\ ssl["server"].state # "Failed" /\ Position(ssl["server"]) \notin {"BEFORE", "SW_HELLO_VERIFY"}
    BY DEF Waits, ReadStates, Position
<1>2. Takes("server", t, Tail(Queue("server")))
    BY DEF Takes
<1> QED BY <1>1, <1>2, ServerPlainStep

LEMMA ServerKept ==
    ASSUME AuthInv, Waits("server")
    PROVE  /\ ServerGoes(ssl["server"], ssl["server"])
           /\ ServerGoes(ssl["server"], Abort(ssl["server"]))
           /\ ServerGoes(ssl["server"], Die(ssl["server"]))
<1> DEFINE S == ssl["server"]
<1>1. IsSsl(S, "server") /\ ServerAuth(cfg, S) /\ S.state \in ReadStates /\ DOMAIN S = Fields
    BY DEF AuthInv, Auth, Waits, IsSsl
<1>2. Changes(S, S, {"reuse_message", "handshake_hash", "handshake_transcript"}) /\ Wrote(S, S)
    BY <1>1 DEF Changes, Wrote
<1>3. ServerGoes(S, S)
    BY <1>1, <1>2, ServerStays
<1>4. Fails(S, Abort(S)) /\ Fails(S, Die(S))
    BY <1>1, AbortSheet, DieSheet
<1>5. ServerGoes(S, Abort(S)) /\ ServerGoes(S, Die(S))
    BY <1>1, <1>2, <1>4, ServerFails
<1> QED BY <1>3, <1>5

LEMMA ServerReadsCcs ==
    ASSUME AuthInv, Waits("server")
    PROVE  ServerGoes(ssl["server"], ReadCcs(ssl["server"]))
<1> DEFINE S == ssl["server"]
           t == ReadCcs(S)
<1>1. /\ IsSsl(S, "server") /\ ServerAuth(cfg, S) /\ S.state \in ReadStates /\ S.reuse_message = Null
      /\ DOMAIN S = Fields /\ S.who = "server"
    BY DEF AuthInv, Auth, Waits, IsSsl
<1>2. CASE /\ t.state = "Failed" /\ Changes(S, t, {"state", "wbuf", "flush", "ccs_ok", "change_cipher_spec"})
           /\ (t.wbuf = << >> \/ t.wbuf = Append(S.wbuf, WireRecord(S, "alert", NoMessage)))
    <2> HIDE DEF t
    <2>1. t.session = S.session /\ t.who = S.who /\ DOMAIN t = Fields /\ t.reuse_message = Null
        BY <1>1, <1>2 DEF Changes, Fields
    <2>2. IsSsl(t, "server")
        BY <1>1, <2>1 DEF IsSsl
    <2>3. ServerAuth(cfg, t)
        BY <1>1, <1>2, <2>1 DEF ServerAuth, Position, ServerAsks, ServerUnsure, ServerSure
    <2>4. Wrote(S, t)
        BY <1>2, OtherRecordIsOK DEF Wrote
    <2> QED BY <1>2, <2>2, <2>3, <2>4 DEF ServerGoes, t
<1>3. CASE t = S
    BY <1>3, ServerKept
<1>4. CASE Changes(S, t, {"ccs_ok", "change_cipher_spec", "key_block", "rkey", "peer_finished"})
    <2> HIDE DEF t
    <2>1. /\ t.session = S.session /\ t.who = S.who /\ DOMAIN t = Fields /\ t.reuse_message = S.reuse_message
          /\ t.state = S.state /\ t.next_state = S.next_state /\ t.wbuf = S.wbuf /\ t.hit = S.hit
          /\ t.cert_request = S.cert_request
        BY <1>4 DEF Changes, Fields
    <2>2. Wrote(S, t)
        BY <2>1 DEF Wrote
    <2> QED BY <1>1, <2>1, <2>2, ServerStays DEF t
<1> QED BY <1>1, <1>2, <1>3, <1>4, ReadCcsSheet

LEMMA ServerReadBytes ==
    ASSUME AuthInv, ssl3_read_bytes("server")
    PROVE  AuthInv'
<1> DEFINE S == ssl["server"]
<1>1. CASE ssl3_read_change_cipher_spec("server")
    BY <1>1, ServerReadsCcs, ServerReads DEF ssl3_read_change_cipher_spec, Incoming
<1>2. CASE ssl3_read_alert("server")
    BY <1>2, ServerKept, ServerReads DEF ssl3_read_alert, Incoming
<1>3. CASE BadRecord("server")
    BY <1>3, ServerKept, ServerReads DEF BadRecord
<1>5. CASE ReadData("server")
    <2>1. PICK call \in cfg.calls :
            StepAfterRead("server", IF MayReadData(ssl["server"], call) THEN ssl["server"] ELSE Abort(ssl["server"]))
      BY <1>5 DEF ReadData
    <2>2. Waits("server") /\ Incoming("server", "data") /\ UNCHANGED cache
      BY <1>5 DEF ReadData
    <2> QED BY <2>1, <2>2, ServerKept, ServerReads DEF Incoming
<1>6. CASE ssl3_read_handshake_unexpected("server")
    <2> DEFINE m == Head(net["server"]).msg
               t == Unexpected(S, m)
    <2>1. /\ S.state = "Established" /\ Incoming("server", "handshake") /\ cache' = cache
          /\ Step("server", t) \/ StepAfterRead("server", t)
        BY <1>6 DEF ssl3_read_handshake_unexpected
    <2>2. /\ ServerIs(S, "Established") /\ S.reuse_message = Null /\ S.who = "server" /\ DOMAIN S = Fields
          /\ IsSsl(S, "server") /\ ServerAuth(cfg, S)
        BY <2>1 DEF AuthInv, Auth, ServerIs, ServerAuth, IsSsl
    <2>3. \E q : Takes("server", t, q)
        BY <2>1 DEF Takes, Incoming
    <2> HIDE DEF m
    <2>5. ServerGoes(S, t)
        <3>1. CASE Fails(S, t)
            <4>1. Changes(S, S, {"reuse_message", "handshake_hash", "handshake_transcript"})
                BY <2>2 DEF Changes
            <4> HIDE DEF t
            <4> QED BY <2>2, <3>1, <4>1, ServerFails
        <3>2. CASE Changes(S, t, {"state", "renegotiate", "new_session"}) /\ t.state = "ACCEPT"
            <4> HIDE DEF t
            <4>1. Changes(S, t, {"state", "renegotiate", "new_session", "total_renegotiations"})
                BY <3>2 DEF Changes
            <4> QED BY <2>2, <3>2, <4>1, ServerRenegotiates
        <3> QED BY <2>2, <3>1, <3>2, UnexpectedSheet
    <2> HIDE DEF t
    <2> QED BY <2>1, <2>3, <2>5, ServerPlainStep DEF Position
<1> QED BY <1>1, <1>2, <1>3, <1>5, <1>6 DEF ssl3_read_bytes, SkipHelloRequest

LEMMA ServerOther ==
    ASSUME AuthInv, Reenter("server") \/ Request("server")
    PROVE  AuthInv'
<1> DEFINE S == ssl["server"]
<1>0. IsSsl(S, "server") /\ ServerAuth(cfg, S) /\ DOMAIN S = Fields
    BY DEF AuthInv, Auth, IsSsl
<1>1. CASE Reenter("server")
    <2> DEFINE t == Goto(S, S.state)
    <2>1. /\ S.state \in ReadStates /\ S.state \in AllowsCcs /\ cache' = cache
          /\ Takes("server", t, Queue("server"))
        BY <1>1 DEF Reenter, Waits, Takes
    <2>2. /\ t.session = S.session /\ t.who = S.who /\ DOMAIN t = Fields /\ t.reuse_message = S.reuse_message
          /\ t.state = S.state /\ t.next_state = S.next_state /\ t.wbuf = S.wbuf /\ t.hit = S.hit
          /\ t.cert_request = S.cert_request
        BY <1>0 DEF Goto, Fields
    <2> HIDE DEF t
    <2>3. ServerGoes(S, t)
        BY <1>0, <2>1, <2>2, ServerStays DEF Wrote
    <2> QED BY <2>1, <2>3, ServerPlainStep DEF Position, AllowsCcs
<1>2. CASE WriteData("server")
    <2> DEFINE t == [Write(S, "data", NoMessage) EXCEPT !.data = @ + 1]
    <2>1. /\ S.state = "Established" /\ cache' = cache /\ Takes("server", t, Queue("server"))
        BY <1>2 DEF WriteData, Takes
    <2>2. /\ t.session = S.session /\ t.who = S.who /\ DOMAIN t = Fields /\ t.reuse_message = S.reuse_message
          /\ t.state = S.state /\ t.next_state = S.next_state /\ t.hit = S.hit /\ t.cert_request = S.cert_request
          /\ t.wbuf = Append(S.wbuf, WireRecord(S, "data", NoMessage))
        BY <1>0 DEF Write, Fields
    <2> HIDE DEF t
    <2>3. Wrote(S, t)
        BY <2>2, OtherRecordIsOK DEF Wrote
    <2>4. ServerGoes(S, t)
        BY <1>0, <2>1, <2>2, <2>3, ServerStays DEF ReadStates
    <2> QED BY <2>1, <2>4, ServerPlainStep DEF Position
<1>3. ASSUME NEW abbreviated \in BOOLEAN, SSL_renegotiate("server", abbreviated) PROVE AuthInv'
    <2> DEFINE t == [S EXCEPT !.state = "RENEGOTIATE", !.renegotiate = 1, !.new_session = ~abbreviated,
                              !.total_renegotiations = @ + 1]
    <2>1. /\ S.state = "Established" /\ ~cfg.dtls /\ cache' = cache /\ Takes("server", t, Queue("server"))
        BY <1>3 DEF SSL_renegotiate, Takes
    <2>2. Changes(S, t, {"state", "renegotiate", "new_session", "total_renegotiations"}) /\ t.state = "RENEGOTIATE"
        BY <1>0 DEF Changes, Fields
    <2> HIDE DEF t
    <2>3. ServerGoes(S, t)
        BY <1>0, <2>1, <2>2, ServerRenegotiates DEF ServerIs
    <2> QED BY <2>1, <2>3, ServerPlainStep DEF Position
<1> QED BY <1>1, <1>2, <1>3 DEF Request

-----------------------------------------------------------------------------
(* The theorem. *)

LEMMA OmitStep ==
    ASSUME AuthInv, NEW e \in Endpoint, Omit(e)
    PROVE  AuthInv'
<1>1. /\ ~cfg.dtls /\ net[e] # << >> /\ net' = [net EXCEPT ![e] = Tail(@)]
      /\ cfg' = cfg /\ ssl' = ssl /\ cache' = cache
    BY DEF Omit
<1>2. IsSeq(net[e]) /\ IsSeq(ssl[Peer(e)].wbuf) /\ Queue(e) = net[e] \o ssl[Peer(e)].wbuf /\ Records(cfg, Queue(e))
    BY AuthQueues
<1>3. net'[e] = Tail(net[e]) /\ (\A x \in Endpoint : x # e => net'[x] = net[x]) /\ DOMAIN net' = Endpoint
    BY <1>1 DEF AuthInv, Shape
<1>4. IsSeq(net'[e])
    BY <1>1, <1>2, <1>3, SeqTail
<1>5. Shape'
    BY <1>1, <1>3, <1>4 DEF AuthInv, Shape
<1>6. Queue(e)' = Tail(Queue(e)) /\ Queue(e) # << >>
    BY <1>1, <1>2, <1>3, ConcatTail DEF Queue
<1>7. Records(cfg, Queue(e)')
    BY <1>2, <1>6, RecordsTail
<1>8. ASSUME NEW x \in Endpoint, x # e PROVE Records(cfg, Queue(x)')
    <2>1. Queue(x)' = Queue(x) BY <1>1, <1>3, <1>8 DEF Queue
    <2> QED BY <2>1, AuthQueues
<1>9. Records(cfg, Queue("server")') /\ Records(cfg, Queue("client")')
    BY <1>7, <1>8 DEF Endpoint
<1>10. \A qs, qc : Cookies(cfg, ssl["client"], ssl["server"], qs, qc)
    BY <1>1 DEF Cookies
<1>11. Auth(cfg, ssl["client"], ssl["server"], Queue("server")', Queue("client")', cache)
    BY <1>9, <1>10 DEF AuthInv, Auth
<1> QED BY <1>1, <1>5, <1>11 DEF AuthInv

LEMMA AuthInit == ASSUME Init PROVE AuthInv
<1> DEFINE C == ssl["client"]
           S == ssl["server"]
<1>1. /\ cfg \in Configs /\ C = NewSsl("client", ClientSession(cfg)) /\ S = NewSsl("server", NoSession)
      /\ net = [e \in Endpoint |-> << >>] /\ DOMAIN ssl = Endpoint
    BY DEF Init, Endpoint
<1>2. /\ DOMAIN C = Fields /\ C.who = "client" /\ C.session = ClientSession(cfg) /\ C.state = "BEFORE"
      /\ C.reuse_message = Null /\ C.wbuf = << >> /\ ~C.send_cookie
    BY <1>1 DEF NewSsl, Fields
<1>3. /\ DOMAIN S = Fields /\ S.who = "server" /\ S.session = NoSession /\ S.state = "BEFORE"
      /\ S.reuse_message = Null /\ S.wbuf = << >>
    BY <1>1 DEF NewSsl, Fields
<1> HIDE DEF C, S
<1>4. IsSsl(C, "client") /\ IsSsl(S, "server")
    <2>1. DOMAIN NoSession = SessionFields
        BY DEF NoSession, SessionFields
    <2>2. DOMAIN OldSession(cfg.kex # "anon") = SessionFields
        BY DEF OldSession, NoSession, SessionFields
    <2>3. DOMAIN ClientSession(cfg) = SessionFields
        BY <1>1, <2>1, <2>2, ConfigAssumption DEF ClientSession, SessionFields
    <2> QED BY <1>2, <1>3, <2>1, <2>3 DEF IsSsl
<1>5. Shape
    BY <1>1, <1>2, <1>3, SeqEmpty DEF Shape, Endpoint, C, S
<1>6. Queue("server") = << >> /\ Queue("client") = << >>
    <2>1. net["client"] = << >> /\ net["server"] = << >>
        BY <1>1 DEF Endpoint
    <2> QED BY <1>2, <1>3, <2>1, SeqEmpty, ConcatEmpty DEF Queue, Peer, C, S
<1>7. Records(cfg, << >>)
    BY SeqEmpty DEF Records
<1>8. cfg.offer # "none" /\ cfg.known => SessionOK(cfg, ServerSession(cfg))
    BY <1>1, ConfigAssumption DEF SessionOK, ServerSession, OldSession, NoSession
<1>9. \A x \in cache : DOMAIN x = SessionFields /\ SessionOK(cfg, x)
    <2>1. CASE cfg.offer = "id" /\ cfg.known
        <3> DEFINE x == [ServerSession(cfg) EXCEPT !.id = <<"id", 0>>]
        <3>1. cache = {x}
            BY <2>1 DEF Init
        <3>2. DOMAIN x = SessionFields /\ x.peer = ServerSession(cfg).peer /\ x.proved = ServerSession(cfg).proved
            BY DEF ServerSession, OldSession, NoSession, SessionFields
        <3> HIDE DEF x
        <3> QED BY <1>8, <2>1, <3>1, <3>2 DEF SessionOK
    <2>2. CASE ~(cfg.offer = "id" /\ cfg.known)
        BY <2>2 DEF Init
    <2> QED BY <2>1, <2>2
<1>10. /\ cfg.kex # "anon" /\ C.session.id # Null => C.session.peer
       /\ C.session.tick # Null => C.session.id # Null /\ TicketOK(cfg, C.session.tick[1])
    <2>1. CASE cfg.offer = "none"
        BY <1>2, <2>1 DEF ClientSession, NoSession
    <2>2. CASE cfg.offer = "id"
        BY <1>2, <2>2 DEF ClientSession, OldSession, NoSession, Null
    <2>3. CASE cfg.offer = "ticket"
        <3>1. /\ C.session.peer = (cfg.kex # "anon") /\ C.session.id = <<"tk", 0>>
              /\ C.session.tick = Some(Ticket(0, ServerSession(cfg)))
            BY <1>2, <2>3 DEF ClientSession, OldSession, NoSession
        <3>2. TicketOK(cfg, Ticket(0, ServerSession(cfg)))
            BY <1>8, <2>3 DEF TicketOK, Ticket, SessionOK
        <3>3. C.session.tick[1] = Ticket(0, ServerSession(cfg))
            BY <3>1 DEF Some
        <3>4. C.session.id # Null
            BY <3>1 DEF Null
        <3>5. cfg.kex # "anon" => C.session.peer
            BY <3>1
        <3> QED BY <3>2, <3>3, <3>4, <3>5
    <2> QED BY <1>1, <2>1, <2>2, <2>3, ConfigAssumption
<1>11. ClientAuth(cfg, C)
    BY <1>2, <1>10 DEF ClientAuth, Position, Verifying, ClientOffers, ClientSure, ClientKeeps
<1>12. ServerAuth(cfg, S)
    BY <1>3 DEF ServerAuth, Position, ServerAsks, ServerUnsure, ServerSure
<1>13. Cookies(cfg, C, S, << >>, << >>)
    BY <1>2, <1>3 DEF Cookies, CookiePhase, CookieSafe, ServerWaits, Position
<1>14. Auth(cfg, C, S, << >>, << >>, cache)
    BY <1>4, <1>7, <1>9, <1>11, <1>12, <1>13 DEF Auth
<1> QED BY <1>1, <1>5, <1>6, <1>14 DEF AuthInv, C, S

LEMMA AuthStep == ASSUME AuthInv, [Next]_vars PROVE AuthInv'
<1>1. CASE UNCHANGED vars
    BY <1>1 DEF AuthInv, Auth, Shape, Queue, vars
<1>2. ASSUME NEW e \in Endpoint, Progress(e) PROVE AuthInv'
    BY <1>2, ClientConnectStep, ServerAcceptStep, ClientFlushesBuffer, ServerFlushesBuffer, ClientReadBytes,
       ServerReadBytes, ClientOther, ServerOther DEF Progress, Endpoint
<1>3. ASSUME NEW e \in Endpoint, Request(e) PROVE AuthInv'
    BY <1>3, ClientOther, ServerOther DEF Endpoint
<1>4. ASSUME NEW e \in Endpoint, Omit(e) PROVE AuthInv'
    BY <1>4, OmitStep
<1> QED BY <1>1, <1>2, <1>3, <1>4 DEF Next

LEMMA AuthImplies == ASSUME AuthInv PROVE PeerAuthenticated
<1>1. ClientAuth(cfg, ssl["client"]) /\ ServerAuth(cfg, ssl["server"])
    BY DEF AuthInv, Auth
<1>2. Established("server") => SessionOK(cfg, ssl["server"].session)
    BY <1>1 DEF Established, ServerAuth, ServerSure, Position
<1>3. Established("client") /\ ~Anonymous => ssl["client"].session.peer
    BY <1>1 DEF Established, ClientAuth, ClientSure, Position, Anonymous
<1> QED BY <1>2, <1>3 DEF PeerAuthenticated, SessionOK, Verifies

(* A server that insists on a certificate has one, of a client that has      *)
(* signed, whenever ssl3_accept has completed a handshake, be it full,       *)
(* resumed from the cache or from a ticket, or a renegotiation, and          *)
(* ssl3_connect never completes one without the certificate of the server.   *)
THEOREM SpecPeerAuthenticated == Spec => []PeerAuthenticated
<1>1. Spec => []AuthInv
    BY AuthInit, AuthStep, PTL DEF Spec
<1> QED BY <1>1, AuthImplies, PTL
=============================================================================
