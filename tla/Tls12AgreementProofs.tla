----------------------- MODULE Tls12AgreementProofs -----------------------
(* Proof that the two endpoints of the handshake of TLS 1.2 and earlier, and *)
(* of DTLS, agree: Agreement, for every set of configurations that satisfies *)
(* ConfigAssumption and for every value of the bounds.  It rests on AuthInv, *)
(* the invariant of Tls12HandshakeProofs, and on its sheets of the handlers. *)
(*                                                                           *)
(* AgreeInv is the inductive invariant.  For each endpoint it says, state by *)
(* state, what it has hashed and which keys it has; and, for a Finished of   *)
(* the server that belongs to the present handshake, on its way or verified, *)
(* that it is the one the server has sent and still remembers.               *)
EXTENDS Tls12HandshakeProofs

-----------------------------------------------------------------------------
(* Agreement: what each endpoint has hashed and which keys it has. *)

(* The number of the client's handshake that a key is of. *)
Number(key) == IF key = Null THEN 0 ELSE key[3]

KeyOf(who, x) == <<who>> \o Keys(x)

Fin(who, x, h) == Message("Finished", [who |-> who, master |-> x.session.master, hash |-> Some(h)])
FinDigest(who, x) == Message("Finished", [who |-> who, master |-> x.session.master, hash |-> Null])
Ended(who, x, h) == Append(h, FinDigest(who, x))

Hellos(x, h) == IsSeq(h) /\ Len(h) >= 2 /\ h[1].body.cr = x.cr /\ h[2].body.sr = x.sr

(* Of what a server computes its Finished: in a full handshake of what the   *)
(* client has computed its own from and that, and of a ticket if it sends    *)
(* one; without the ticket (Before) and with it (Ready).                     *)
Before(x, h) ==
    /\ Hellos(x, h)
    /\ x.hit => Len(h) = 2
    /\ ~x.hit => \E g : /\ Hellos(x, g) /\ h = Ended("client", x, g)
                        /\ x.previous_client_finished = Some(Fin("client", x, g))

Ready(x, h) ==
    \/ Before(x, h)
    \/ \E g, m : Before(x, g) /\ m.mt = "NewSessionTicket" /\ h = Append(g, m)

(* All of a handshake. *)
Complete(x) ==
    /\ x.rkey = KeyOf(Peer(x.who), x) /\ x.wkey = KeyOf(x.who, x)
    /\ \E h : /\ Ready(x, h)
              /\ x.previous_server_finished = Some(Fin("server", x, h))
              /\ ~x.hit => x.handshake_hash = Some(Ended("server", x, h))
              /\ x.hit => LET g == Ended("server", x, h)
                          IN  /\ x.previous_client_finished = Some(Fin("client", x, g))
                              /\ x.handshake_hash = Some(Ended("client", x, g))

HasHashed(x) == \E h : Hellos(x, h) /\ x.handshake_hash = Some(h)

(* What was hashed before the message that is kept for this state. *)
HashIs(x, h) ==
    x.handshake_hash = Some(IF x.reuse_message = Null THEN h ELSE Append(h, Digest(x.reuse_message[1])))

(* ChangeCipherSpec has been read. *)
CcsRead(x, h) ==
    /\ x.key_block = Keys(x) /\ x.rkey = KeyOf(Peer(x.who), x)
    /\ x.peer_finished = Some(Fin(Peer(x.who), x, h))

-----------------------------------------------------------------------------
(* The client, state by state. *)

OldKeys(x) == Number(x.rkey) = x.n - 1 /\ Number(x.wkey) = x.n - 1 /\ x.key_block = Null

ClientGreeting(c, x) ==
    /\ x.n >= 1 /\ OldKeys(x) /\ ~x.change_cipher_spec
    /\ x.n = 1 => ~x.cipher
    /\ ~c.dtls => x.handshake_transcript = Some(<< >>) /\ ~x.frozen

(* A ChangeCipherSpec of the wrong place leaves a client that cannot read    *)
(* the server's hello.                                                       *)
ClientHoping(x) ==
    /\ x.n >= 1 /\ x.cr = x.n /\ ~x.frozen
    /\ x.n = 1 => ~x.cipher
    /\ \E hello : x.handshake_transcript = Some(<<hello>>) /\ hello.body.cr = x.n
    /\ x.session.id = Null => x.session.master = Null
    /\ \/ ~x.change_cipher_spec /\ OldKeys(x)
       \/ x.change_cipher_spec /\ x.n >= 2 /\ Number(x.rkey) = x.n

ClientAsks ==
    {"CR_HELLO_VERIFY", "CR_CERT", "CR_CERT_STATUS", "CR_KEY_EXCH", "CR_CERT_REQ", "CR_SRVR_DONE", "CW_CERT",
     "CW_KEY_EXCH"}

ClientAsking(x) ==
    /\ x.n >= 1 /\ x.cr = x.n /\ HasHashed(x) /\ OldKeys(x) /\ ~x.change_cipher_spec
    /\ ~x.hit /\ x.session.master = Null

(* It sends its own flight of a full handshake, ... *)
ClientKeyed(x) ==
    /\ x.n >= 1 /\ x.cr = x.n /\ HasHashed(x) /\ ~x.hit /\ ~x.change_cipher_spec /\ Number(x.rkey) = x.n - 1
    /\ IF x.state = "CW_FINISHED" THEN x.key_block = Keys(x) /\ x.wkey = KeyOf("client", x)
       ELSE x.key_block = Null /\ Number(x.wkey) = x.n - 1

(* ... waits for that of the server, ... *)
ClientAwaiting(x) ==
    /\ x.n >= 1 /\ x.cr = x.n
    /\ IF x.hit THEN Number(x.wkey) = x.n - 1 ELSE x.wkey = KeyOf("client", x)
    /\ \E h : /\ IF Position(x) = "CR_SESSION_TICKET" THEN Before(x, h) ELSE Ready(x, h)
              /\ HashIs(x, h)
              /\ x.change_cipher_spec => CcsRead(x, h)
    /\ ~x.change_cipher_spec =>
        /\ Number(x.rkey) = x.n - 1
        /\ x.key_block = IF x.hit THEN Null ELSE Keys(x)

(* ... and answers when a session is resumed. *)
ClientAnswering(x) ==
    /\ x.n >= 1 /\ x.cr = x.n /\ x.hit /\ ~x.change_cipher_spec
    /\ x.key_block = Keys(x) /\ x.rkey = KeyOf("server", x)
    /\ IF x.state = "CW_FINISHED" THEN x.wkey = KeyOf("client", x) ELSE Number(x.wkey) = x.n - 1
    /\ \E h : /\ Ready(x, h) /\ x.previous_server_finished = Some(Fin("server", x, h))
              /\ x.handshake_hash = Some(Ended("server", x, h))

ClientDone(x) ==
    /\ x.n >= 1 /\ x.cr = x.n /\ ~x.change_cipher_spec /\ Complete(x)
    /\ Position(x) # "ST_OK" => x.key_block = Null

ClientPlace(x) == IF Verifying(x) THEN "CW_CLNT_HELLO" ELSE Position(x)

ClientState(c, x) ==
    LET p == ClientPlace(x)
    IN  /\ x.n \in Nat /\ (c.dtls => x.n <= 1)
        /\ p = "BEFORE" =>
            x.n = 0 /\ x.rkey = Null /\ x.wkey = Null /\ x.key_block = Null /\ ~x.change_cipher_spec /\ ~x.cipher
        /\ p = "CW_CLNT_HELLO" => ClientGreeting(c, x)
        /\ p = "CR_SRVR_HELLO" => ClientHoping(x)
        /\ p \in ClientAsks => ClientAsking(x)
        /\ p = "CW_CERT_VRFY" \/ (p \in {"CW_CHANGE", "CW_FINISHED"} /\ ~x.hit) => ClientKeyed(x)
        /\ p \in {"CR_SESSION_TICKET", "CR_FINISHED"} => ClientAwaiting(x)
        /\ p \in {"CW_CHANGE", "CW_FINISHED"} /\ x.hit => ClientAnswering(x)
        /\ p \in {"ST_OK", "Established", "RENEGOTIATE"} => ClientDone(x)

-----------------------------------------------------------------------------
(* The server, state by state. *)

Cr(m) == m.body.hash[1][1].body.cr

(* The last Finished of the server is of a handshake before this one. *)
ServerOld(x) ==
    /\ x.cr >= 1
    /\ x.previous_server_finished # Null => LET k == Cr(x.previous_server_finished[1]) IN k \in Nat /\ k < x.cr

ServerHearing(x) ==
    /\ Number(x.rkey) = x.cr /\ Number(x.wkey) = x.cr /\ x.key_block = Null /\ ~x.change_cipher_spec
    /\ x.previous_server_finished # Null => Cr(x.previous_server_finished[1]) = x.cr
    /\ Position(x) = "SR_CLNT_HELLO" => x.handshake_transcript = Some(<< >>) /\ ~x.frozen

ServerBehind(x) ==
    Number(x.wkey) \in Nat /\ Number(x.wkey) < x.cr /\ Number(x.rkey) \in Nat /\ Number(x.rkey) < x.cr

ServerGreeting(x) ==
    /\ ServerOld(x) /\ ServerBehind(x) /\ x.key_block = Null /\ ~x.change_cipher_spec
    /\ ~x.hit => x.session.master = Null
    /\ \E hello : x.handshake_hash = Some(<<hello>>) /\ hello.body.cr = x.cr

ServerAsking(x) ==
    /\ ServerOld(x) /\ ServerBehind(x) /\ x.key_block = Null /\ ~x.change_cipher_spec
    /\ ~x.hit /\ x.session.master = Null /\ HasHashed(x)

(* The client's flight of a full handshake. *)
ServerAwaiting(x) ==
    /\ ServerOld(x) /\ Number(x.wkey) \in Nat /\ Number(x.wkey) < x.cr
    /\ \E h : Hellos(x, h) /\ HashIs(x, h) /\ (x.change_cipher_spec => CcsRead(x, h))
    /\ ~x.change_cipher_spec => x.key_block = Null /\ Number(x.rkey) \in Nat /\ Number(x.rkey) < x.cr

(* The flight that ends with the server's Finished, ... *)
ServerAnswering(x) ==
    /\ ServerOld(x) /\ ~x.change_cipher_spec
    /\ IF x.state = "SW_FINISHED" THEN x.key_block = Keys(x) /\ x.wkey = KeyOf("server", x)
       ELSE /\ Number(x.wkey) \in Nat /\ Number(x.wkey) < x.cr
            /\ x.key_block = IF x.hit THEN Null ELSE Keys(x)
    /\ IF x.hit THEN Number(x.rkey) \in Nat /\ Number(x.rkey) < x.cr ELSE x.rkey = KeyOf("client", x)
    /\ \E h : /\ IF x.state = "SW_SESSION_TICKET" THEN Before(x, h) ELSE Ready(x, h)
              /\ x.handshake_hash = Some(h)

(* ... and the client's answer to it when a session is resumed. *)
ServerResuming(x) ==
    /\ x.cr >= 1 /\ x.key_block = Keys(x) /\ x.wkey = KeyOf("server", x)
    /\ \E h : /\ Ready(x, h) /\ x.previous_server_finished = Some(Fin("server", x, h))
              /\ HashIs(x, Ended("server", x, h))
              /\ x.change_cipher_spec => CcsRead(x, Ended("server", x, h))
    /\ ~x.change_cipher_spec => Number(x.rkey) \in Nat /\ Number(x.rkey) < x.cr

ServerDone(x) ==
    /\ x.cr >= 1 /\ ~x.change_cipher_spec /\ Complete(x)
    /\ Position(x) \notin {"ST_OK"} => x.key_block = Null

ServerAsksFor ==
    {"SW_CERT", "SW_CERT_STATUS", "SW_KEY_EXCH", "SW_CERT_REQ", "SW_SRVR_DONE", "SR_CERT", "SR_KEY_EXCH"}

ServerState(x) ==
    LET p == Position(x)
    IN  /\ x.cr \in Nat
        /\ p \in {"BEFORE", "ACCEPT", "SR_CLNT_HELLO", "SW_HELLO_VERIFY"} => ServerHearing(x)
        /\ p = "SW_SRVR_HELLO" => ServerGreeting(x)
        /\ p \in ServerAsksFor => ServerAsking(x)
        /\ p = "SR_CERT_VRFY" \/ (p = "SR_FINISHED" /\ ~x.hit) => ~x.hit /\ ServerAwaiting(x)
        /\ p \in {"SW_SESSION_TICKET", "SW_CHANGE", "SW_FINISHED"} => ServerAnswering(x)
        /\ p = "SR_FINISHED" /\ x.hit => ServerResuming(x)
        /\ p \in {"ST_OK", "Established", "RENEGOTIATE", "SW_HELLO_REQ"} => ServerDone(x)

-----------------------------------------------------------------------------
(* What is between them. *)

(* A Finished of the server that is of its present handshake is the one that *)
(* the server remembers.                                                     *)
Genuine(S, m) ==
    /\ Cr(m) \in Nat /\ Cr(m) <= S.cr
    /\ Cr(m) = S.cr => S.previous_server_finished = Some(m)

FromServer(c, C, S, r) ==
    /\ r.type = "ccs" => Number(r.key) \in Nat /\ Number(r.key) < S.cr
    /\ r.type = "handshake" /\ r.msg.mt = "Finished" => Genuine(S, r.msg)
    /\ VerifyRequest(r) => c.dtls /\ S.cr < C.n
    /\ r.type = "handshake" /\ r.msg.mt \notin {"Finished", "HelloVerifyRequest", "HelloRequest"} =>
        Number(r.key) \in Nat /\ Number(r.key) < S.cr
    /\ Is(r, "ServerHello") => Digest(r.msg).body.sr = r.msg.body.sr

Starting(C) == ClientPlace(C) = "CW_CLNT_HELLO"

LinkC(c, C, S, qc) ==
    /\ S.cr \in Nat /\ S.cr <= C.n
    /\ ClientPlace(C) \notin {"BEFORE", "CW_CLNT_HELLO", "CR_SRVR_HELLO"} => S.cr = C.n
    /\ Starting(C) => S.cr < C.n
    /\ C.previous_server_finished # Null => Genuine(S, C.previous_server_finished[1])
    /\ C.reuse_message # Null => (C.reuse_message[1].mt = "Finished" => Genuine(S, C.reuse_message[1]))
    /\ \A i \in 1 .. Len(qc) : FromServer(c, C, S, qc[i])

FromClient(C, S, r) ==
    /\ r.type = "ccs" => Number(r.key) \in Nat /\ Number(r.key) < S.cr
    /\ Is(r, "ClientHello") =>
        /\ r.msg.body.cr \in Nat /\ S.cr < r.msg.body.cr /\ r.msg.body.cr <= C.n
        /\ Digest(r.msg).body.cr = r.msg.body.cr

LinkS(c, C, S, qs) ==
    /\ \A i \in 1 .. Len(qs) : FromClient(C, S, qs[i])
    /\ \A i, j \in 1 .. Len(qs) : Is(qs[i], "ClientHello") /\ Is(qs[j], "ClientHello") => i = j
    /\ Starting(C) => \A i \in 1 .. Len(qs) : ~Is(qs[i], "ClientHello")
    /\ Position(S) = "SW_HELLO_VERIFY" => c.dtls /\ S.cr < C.n
    /\ C.n \in Nat

Agree(c, C, S, qs, qc) ==
    /\ C.state # "Failed" => ClientState(c, C) /\ LinkC(c, C, S, qc)
    /\ S.state # "Failed" => ServerState(S) /\ LinkS(c, C, S, qs)

AgreeInv == Agree(cfg, ssl["client"], ssl["server"], Queue("server"), Queue("client"))

-----------------------------------------------------------------------------
(* Types. *)

Typed(x) ==
    /\ x.state \in States /\ x.hit \in BOOLEAN
    /\ x.cert_request \in 0 .. 2 /\ x.renegotiate \in 0 .. 2
    /\ x.data \in 0 .. DataBound
    /\ x.bbio \/ x.wbuf = << >>
    /\ x.who = "client" /\ x.state \in {"BEFORE", "RENEGOTIATE", "Established"} => ~x.bbio

TypeInv == omitted \in 0 .. OmissionBound /\ \A e \in Endpoint : Typed(ssl[e])

-----------------------------------------------------------------------------
(* Keys, Finished messages and what is hashed. *)

LEMMA NumberOf ==
    ASSUME NEW who, NEW x
    PROVE  Number(KeyOf(who, x)) = x.cr /\ KeyOf(who, x) # Null
    BY DEF Number, KeyOf, Keys, Null

LEMMA NumberNull == Number(Null) = 0
    BY DEF Number

LEMMA NoKeys == ASSUME NEW x PROVE Keys(x) # Null
    BY DEF Keys, Null

LEMMA SomeIs == ASSUME NEW x, NEW y PROVE Some(x) # Null /\ Some(x)[1] = x /\ (Some(x) = Some(y) => x = y)
    BY DEF Some, Null

LEMMA HashedSome ==
    ASSUME NEW h, NEW m
    PROVE  Hashed(Some(h), m) = Some(Append(h, Digest(m)))
    BY DEF Hashed, Some, Null

LEMMA DigestFin ==
    ASSUME NEW who, NEW x, NEW h
    PROVE  Digest(Fin(who, x, h)) = FinDigest(who, x) /\ Fin(who, x, h).mt = "Finished"
    BY DEF Digest, Fin, FinDigest, Message, Null

LEMMA DigestHello ==
    ASSUME NEW s
    PROVE  /\ Digest(ClientHello(s)).body.cr = s.cr /\ ClientHello(s).body.cr = s.cr
           /\ Digest(ServerHello(s)).body.sr = s.sr /\ ServerHello(s).body.sr = s.sr
           /\ ClientHello(s).mt = "ClientHello" /\ ServerHello(s).mt = "ServerHello"
    BY DEF Digest, Message, ClientHello, ServerHello

LEMMA VerifyDataIs ==
    ASSUME NEW s, NEW who, NEW h, s.handshake_hash = Some(h)
    PROVE  VerifyData(s, who) = Fin(who, s, h)
    BY DEF VerifyData, Fin

LEMMA HellosAppend ==
    ASSUME NEW x, NEW h, NEW m, Hellos(x, h)
    PROVE  Hellos(x, Append(h, m)) /\ Len(Append(h, m)) = Len(h) + 1 /\ Append(h, m)[Len(h) + 1] = m
    BY SeqAppend DEF Hellos

(* What the hash, the keys and the Finished messages depend on. *)
Same(x, y) ==
    y.hit = x.hit /\ y.cr = x.cr /\ y.sr = x.sr /\ y.session.master = x.session.master

LEMMA SameKeys ==
    ASSUME NEW x, NEW y, Same(x, y)
    PROVE  /\ Keys(y) = Keys(x)
           /\ \A who : KeyOf(who, y) = KeyOf(who, x) /\ FinDigest(who, y) = FinDigest(who, x)
           /\ \A who, h : Fin(who, y, h) = Fin(who, x, h) /\ Ended(who, y, h) = Ended(who, x, h)
           /\ \A h : Hellos(y, h) <=> Hellos(x, h)
    BY DEF Same, Keys, KeyOf, FinDigest, Fin, Ended, Hellos

LEMMA SameReady ==
    ASSUME NEW x, NEW y, Same(x, y), x.hit \/ y.previous_client_finished = x.previous_client_finished
    PROVE  \A h : (Before(y, h) <=> Before(x, h)) /\ (Ready(y, h) <=> Ready(x, h))
<1>1. \A h : Before(y, h) <=> Before(x, h)
    BY SameKeys DEF Before, Same
<1> QED BY <1>1 DEF Ready

LEMMA SameHasHashed ==
    ASSUME NEW x, NEW y, Same(x, y), y.handshake_hash = x.handshake_hash, HasHashed(x)
    PROVE  HasHashed(y)
    BY SameKeys DEF HasHashed

LEMMA HasHashedMore ==
    ASSUME NEW x, NEW y, NEW m, y.cr = x.cr, y.sr = x.sr, y.handshake_hash = Hashed(x.handshake_hash, m), HasHashed(x)
    PROVE  HasHashed(y)
<1>1. PICK h : Hellos(x, h) /\ x.handshake_hash = Some(h)
    BY DEF HasHashed
<1>2. y.handshake_hash = Some(Append(h, Digest(m)))
    BY <1>1, HashedSome
<1>3. Hellos(y, Append(h, Digest(m)))
    <2>1. Hellos(x, Append(h, Digest(m)))
        BY <1>1, HellosAppend
    <2> QED BY <2>1 DEF Hellos
<1> QED BY <1>2, <1>3 DEF HasHashed

LEMMA HasHashedRead ==
    ASSUME NEW C, NEW s, NEW m, HasHashed(C), HasRead(C, s, m)
    PROVE  HasHashed(s)
<1>1. CASE Changes(C, s, {"reuse_message"})
    <2>1. s.cr = C.cr /\ s.sr = C.sr /\ s.handshake_hash = C.handshake_hash
        BY <1>1 DEF Changes, Fields
    <2> QED BY <2>1 DEF HasHashed, Hellos
<1>2. CASE /\ Changes(C, s, {"handshake_hash", "handshake_transcript"})
           /\ s.handshake_hash = Hashed(C.handshake_hash, m)
    <2>1. s.cr = C.cr /\ s.sr = C.sr
        BY <1>2 DEF Changes, Fields
    <2> QED BY <1>2, <2>1, HasHashedMore
<1> QED BY <1>1, <1>2 DEF HasRead

(* Sequences that end in the same way. *)
LEMMA SameAppend ==
    ASSUME NEW p, NEW q, NEW a, NEW b, IsSeq(p), IsSeq(q), Append(p, a) = Append(q, b)
    PROVE  p = q /\ a = b
<1> DEFINE T == ToSet(p) \union ToSet(q) \union {a, b}
<1>1. p \in Seq(T) /\ q \in Seq(T) /\ a \in T /\ b \in T
    BY DEF IsSeq
<1> HIDE DEF T
<1>2. Len(p) = Len(q) /\ Len(p) \in Nat
    BY <1>1
<1>3. \A i \in 1 .. Len(p) : p[i] = q[i]
    BY <1>1, <1>2
<1>4. a = b
    BY <1>1, <1>2
<1>5. p = q
    BY <1>1, <1>2, <1>3
<1> QED BY <1>4, <1>5

LEMMA AppendOne == ASSUME NEW x PROVE Append(<< >>, x) = <<x>>
    OBVIOUS

LEMMA AppendTwo ==
    ASSUME NEW x, NEW y
    PROVE  /\ Append(<<x>>, y) = <<x, y>> /\ IsSeq(<<x>>) /\ IsSeq(<<x, y>>)
           /\ Len(<<x, y>>) = 2 /\ <<x, y>>[1] = x /\ <<x, y>>[2] = y
<1>1. <<x>> \in Seq({x, y}) /\ <<x, y>> \in Seq({x, y}) /\ <<x>> \in Seq({x})
    OBVIOUS
<1>2. Len(<<x>>) = 1 /\ <<x>>[1] = x /\ Len(<<x, y>>) = 2 /\ <<x, y>>[1] = x /\ <<x, y>>[2] = y
    OBVIOUS
<1>3. IsSeq(<<x>>) /\ IsSeq(<<x, y>>)
    BY <1>1 DEF IsSeq, ToSet
<1>4. Append(<<x>>, y) = <<x, y>>
    <2> DEFINE a == Append(<<x>>, y)
               b == <<x, y>>
    <2>1. a \in Seq({x, y}) /\ Len(a) = 2 /\ a[1] = x /\ a[2] = y
        BY <1>1, <1>2
    <2>2. b \in Seq({x, y}) /\ Len(b) = 2 /\ b[1] = x /\ b[2] = y
        BY <1>1, <1>2
    <2> HIDE DEF a, b
    <2>3. a = b
        <3>1. \A i \in 1 .. 2 : a[i] = b[i]
            BY <2>1, <2>2
        <3> QED BY <2>1, <2>2, <3>1
    <2> QED BY <2>3 DEF a, b
<1> QED BY <1>2, <1>3, <1>4

-----------------------------------------------------------------------------
(* The client, handler by handler. *)

LEMMA PlaceIs ==
    ASSUME NEW x
    PROVE  /\ x.state \notin {"FLUSH", "CR_HELLO_VERIFY"} =>
                ClientPlace(x) = x.state /\ Position(x) = x.state /\ ~Verifying(x)
           /\ x.state = "FLUSH" => ClientPlace(x) = x.next_state /\ Position(x) = x.next_state /\ ~Verifying(x)
    BY DEF ClientPlace, Position, Verifying

LEMMA ClientStateIs ==
    ASSUME NEW c, NEW x, x.n \in Nat, c.dtls => x.n <= 1, NEW p, p = ClientPlace(x),
           \/ p = "CW_CLNT_HELLO" /\ ClientGreeting(c, x)
           \/ p = "CR_SRVR_HELLO" /\ ClientHoping(x)
           \/ p \in ClientAsks /\ ClientAsking(x)
           \/ p \in {"CW_CERT_VRFY", "CW_CHANGE", "CW_FINISHED"} /\ ~x.hit /\ ClientKeyed(x)
           \/ p \in {"CR_SESSION_TICKET", "CR_FINISHED"} /\ ClientAwaiting(x)
           \/ p \in {"CW_CHANGE", "CW_FINISHED"} /\ x.hit /\ ClientAnswering(x)
           \/ p \in {"ST_OK", "Established", "RENEGOTIATE"} /\ ClientDone(x)
           \/ p \in {"SR_CLNT_HELLO", "SR_CERT", "SR_KEY_EXCH", "SR_CERT_VRFY", "SR_FINISHED"}
    PROVE  ClientState(c, x)
    BY DEF ClientState, ClientAsks

LEMMA AsksOn ==
    ASSUME NEW c, NEW C, NEW t, ClientAsking(C), C.n \in Nat, c.dtls => C.n <= 1, DOMAIN t = Fields,
           \A f \in Fields \ {"state", "next_state", "ccs_ok", "reuse_message", "session", "handshake_hash",
                              "handshake_transcript", "cert_request", "wbuf", "flush", "send_cookie", "frozen"} : t[f] = C[f],
           t.session.master = C.session.master, HasHashed(t), ClientPlace(t) \in ClientAsks
    PROVE  ClientState(c, t)
<1>1. /\ t.n = C.n /\ t.cr = C.cr /\ t.rkey = C.rkey /\ t.wkey = C.wkey /\ t.key_block = C.key_block
      /\ t.change_cipher_spec = C.change_cipher_spec /\ t.hit = C.hit
    BY DEF Fields
<1>2. ClientAsking(t)
    BY <1>1 DEF ClientAsking, OldKeys
<1> QED BY <1>1, <1>2, ClientStateIs

(* The client is in this state and has read m. *)
ClientAt(C, state) == IsSsl(C, "client") /\ C.state = state /\ ClientState(cfg, C)

LEMMA AsksRead ==
    ASSUME NEW C, NEW s, NEW m, NEW state \in ClientAsks, ClientAt(C, state), ~Verifying(C), HasRead(C, s, m)
    PROVE  /\ ClientAsking(C) /\ C.n \in Nat /\ (cfg.dtls => C.n <= 1) /\ HasHashed(s)
           /\ Changes(C, s, {"reuse_message", "handshake_hash", "handshake_transcript"})
           /\ s.reuse_message = Null /\ DOMAIN s = Fields /\ s.session = C.session /\ DOMAIN s.session = SessionFields
<1>1. /\ Changes(C, s, {"reuse_message", "handshake_hash", "handshake_transcript"})
      /\ s.reuse_message = Null /\ DOMAIN s = Fields /\ s.session = C.session /\ DOMAIN C.session = SessionFields
    BY DEF HasRead, ClientAt, IsSsl, Changes, Fields
<1>2. ClientPlace(C) = state
    BY DEF ClientPlace, Position, ClientAt, ClientAsks
<1>3. ClientAsking(C) /\ C.n \in Nat /\ (cfg.dtls => C.n <= 1)
    BY <1>2 DEF ClientAt, ClientState
<1>4. HasHashed(s)
    BY <1>3, HasHashedRead DEF ClientAsking
<1> QED BY <1>1, <1>3, <1>4

(* From s with the message in hand to t. *)
LEMMA AsksGo ==
    ASSUME NEW C, NEW s, NEW m, NEW t, NEW state \in ClientAsks, ClientAt(C, state), ~Verifying(C), HasRead(C, s, m),
           Changes(s, t, {"state", "ccs_ok", "reuse_message", "session", "handshake_transcript", "cert_request",
                          "send_cookie"}),
           t.session.master = s.session.master, t.state \in ClientAsks \ {"CR_HELLO_VERIFY"}
    PROVE  ClientState(cfg, t)
<1>1. /\ ClientAsking(C) /\ C.n \in Nat /\ (cfg.dtls => C.n <= 1) /\ HasHashed(s)
      /\ Changes(C, s, {"reuse_message", "handshake_hash", "handshake_transcript"})
      /\ DOMAIN s = Fields /\ s.session = C.session
    BY AsksRead
<1>2. HasHashed(t)
    <2>1. t.cr = s.cr /\ t.sr = s.sr /\ t.handshake_hash = s.handshake_hash
        BY DEF Changes, Fields
    <2> QED BY <1>1, <2>1 DEF HasHashed, Hellos
<1>3. ClientPlace(t) \in ClientAsks
    BY PlaceIs DEF ClientAsks
<1>4. DOMAIN t = Fields /\ t.session.master = C.session.master
    BY <1>1 DEF Changes
<1>5. \A f \in Fields \ {"state", "next_state", "ccs_ok", "reuse_message", "session", "handshake_hash",
                         "handshake_transcript", "cert_request", "wbuf", "flush", "send_cookie", "frozen"} : t[f] = C[f]
    BY <1>1 DEF Changes
<1> QED BY <1>1, <1>2, <1>3, <1>4, <1>5, AsksOn

LEMMA AgreeHelloVerify ==
    ASSUME NEW C, NEW s, NEW m, ClientAt(C, "CR_HELLO_VERIFY"), ~Verifying(C), HasRead(C, s, m), m.mt # "HelloVerifyRequest"
    PROVE  ClientState(cfg, ssl3_get_dtls_hello_verify(s, m))
<1> DEFINE t == ssl3_get_dtls_hello_verify(s, m)
<1>1. DOMAIN s = Fields
    BY AsksRead DEF ClientAsks
<1>2. Changes(s, t, {"state", "ccs_ok", "send_cookie", "reuse_message"}) /\ t.state = "CR_CERT"
    BY <1>1, HelloVerifySheet
<1> HIDE DEF t
<1>3. /\ Changes(s, t, {"state", "ccs_ok", "reuse_message", "session", "handshake_transcript", "cert_request", "send_cookie"})
      /\ t.session.master = s.session.master
    BY <1>2 DEF Changes, Fields
<1> QED BY <1>2, <1>3, AsksGo DEF ClientAsks, t

LEMMA AgreeServerCertificate ==
    ASSUME NEW C, NEW s, NEW m, ClientAt(C, "CR_CERT"), HasRead(C, s, m)
    PROVE  LET t == ssl3_get_server_certificate(s, m) IN Fails(s, t) \/ ClientState(cfg, t)
<1> DEFINE t == ssl3_get_server_certificate(s, m)
<1>0. ~Verifying(C)
    BY DEF Verifying, ClientAt
<1>1. DOMAIN s = Fields /\ DOMAIN s.session = SessionFields
    BY <1>0, AsksRead DEF ClientAsks
<1>2. \/ Fails(s, t)
      \/ /\ Changes(s, t, {"state", "ccs_ok", "reuse_message"}) /\ t.state \in {"CR_CERT_STATUS", "CR_KEY_EXCH"}
      \/ /\ Changes(s, t, {"state", "ccs_ok", "session"}) /\ t.state \in {"CR_CERT_STATUS", "CR_KEY_EXCH"}
         /\ t.session = [s.session EXCEPT !.peer = TRUE]
    BY <1>1, ServerCertificateSheet
<1> HIDE DEF t
<1>3. ASSUME ~Fails(s, t)
      PROVE  /\ Changes(s, t, {"state", "ccs_ok", "reuse_message", "session", "handshake_transcript", "cert_request",
                               "send_cookie"})
             /\ t.session.master = s.session.master /\ t.state \in ClientAsks \ {"CR_HELLO_VERIFY"}
    BY <1>1, <1>2, <1>3 DEF Changes, Fields, ClientAsks, SessionFields
<1>4. Fails(s, t) \/ ClientState(cfg, t)
    BY <1>0, <1>3, AsksGo DEF ClientAsks
<1> QED BY <1>4 DEF t

LEMMA AgreeCertStatus ==
    ASSUME NEW C, NEW s, NEW m, ClientAt(C, "CR_CERT_STATUS"), HasRead(C, s, m)
    PROVE  LET t == ssl3_get_cert_status(s, m) IN Fails(s, t) \/ ClientState(cfg, t)
<1> DEFINE t == ssl3_get_cert_status(s, m)
<1>0. ~Verifying(C)
    BY DEF Verifying, ClientAt
<1>1. DOMAIN s = Fields /\ DOMAIN s.session = SessionFields
    BY <1>0, AsksRead DEF ClientAsks
<1>2. \/ Fails(s, t)
      \/ Changes(s, t, {"state", "ccs_ok", "reuse_message"}) /\ t.state = "CR_KEY_EXCH"
    BY <1>1, CertStatusSheet
<1> HIDE DEF t
<1>3. ASSUME ~Fails(s, t)
      PROVE  /\ Changes(s, t, {"state", "ccs_ok", "reuse_message", "session", "handshake_transcript", "cert_request",
                               "send_cookie"})
             /\ t.session.master = s.session.master /\ t.state \in ClientAsks \ {"CR_HELLO_VERIFY"}
    BY <1>1, <1>2, <1>3 DEF Changes, Fields, ClientAsks, SessionFields
<1>4. Fails(s, t) \/ ClientState(cfg, t)
    BY <1>0, <1>3, AsksGo DEF ClientAsks
<1> QED BY <1>4 DEF t

LEMMA AgreeServerKeyExchange ==
    ASSUME NEW C, NEW s, NEW m, ClientAt(C, "CR_KEY_EXCH"), HasRead(C, s, m)
    PROVE  LET t == ssl3_get_server_key_exchange(s, m) IN Fails(s, t) \/ ClientState(cfg, t)
<1> DEFINE t == ssl3_get_server_key_exchange(s, m)
<1>0. ~Verifying(C)
    BY DEF Verifying, ClientAt
<1>1. DOMAIN s = Fields /\ DOMAIN s.session = SessionFields
    BY <1>0, AsksRead DEF ClientAsks
<1>2. \/ Fails(s, t)
      \/ Changes(s, t, {"state", "ccs_ok", "reuse_message"}) /\ t.state = "CR_CERT_REQ"
    BY <1>1, ServerKeyExchangeSheet
<1> HIDE DEF t
<1>3. ASSUME ~Fails(s, t)
      PROVE  /\ Changes(s, t, {"state", "ccs_ok", "reuse_message", "session", "handshake_transcript", "cert_request",
                               "send_cookie"})
             /\ t.session.master = s.session.master /\ t.state \in ClientAsks \ {"CR_HELLO_VERIFY"}
    BY <1>1, <1>2, <1>3 DEF Changes, Fields, ClientAsks, SessionFields
<1>4. Fails(s, t) \/ ClientState(cfg, t)
    BY <1>0, <1>3, AsksGo DEF ClientAsks
<1> QED BY <1>4 DEF t

LEMMA AgreeCertificateRequest ==
    ASSUME NEW C, NEW s, NEW m, ClientAt(C, "CR_CERT_REQ"), HasRead(C, s, m)
    PROVE  LET t == ssl3_get_certificate_request(s, m) IN Fails(s, t) \/ ClientState(cfg, t)
<1> DEFINE t == ssl3_get_certificate_request(s, m)
<1>0. ~Verifying(C)
    BY DEF Verifying, ClientAt
<1>1. DOMAIN s = Fields /\ DOMAIN s.session = SessionFields
    BY <1>0, AsksRead DEF ClientAsks
<1>2. \/ Fails(s, t)
      \/ /\ Changes(s, t, {"state", "ccs_ok", "reuse_message", "handshake_transcript", "cert_request"})
         /\ t.state = "CR_SRVR_DONE"
      \/ /\ Changes(s, t, {"state", "ccs_ok", "cert_request"})
         /\ t.state = "CR_SRVR_DONE"
    BY <1>1, CertificateRequestSheet
<1> HIDE DEF t
<1>3. ASSUME ~Fails(s, t)
      PROVE  /\ Changes(s, t, {"state", "ccs_ok", "reuse_message", "session", "handshake_transcript", "cert_request",
                               "send_cookie"})
             /\ t.session.master = s.session.master /\ t.state \in ClientAsks \ {"CR_HELLO_VERIFY"}
    BY <1>1, <1>2, <1>3 DEF Changes, Fields, ClientAsks, SessionFields
<1>4. Fails(s, t) \/ ClientState(cfg, t)
    BY <1>0, <1>3, AsksGo DEF ClientAsks
<1> QED BY <1>4 DEF t

LEMMA AgreeServerDone ==
    ASSUME NEW C, NEW s, NEW m, ClientAt(C, "CR_SRVR_DONE"), HasRead(C, s, m)
    PROVE  LET t == ssl3_get_server_done(s, m) IN Fails(s, t) \/ ClientState(cfg, t)
<1> DEFINE t == ssl3_get_server_done(s, m)
<1>0. ~Verifying(C)
    BY DEF Verifying, ClientAt
<1>1. DOMAIN s = Fields /\ DOMAIN s.session = SessionFields
    BY <1>0, AsksRead DEF ClientAsks
<1>2. \/ Fails(s, t)
      \/ Changes(s, t, {"state", "ccs_ok"}) /\ t.state \in {"CW_CERT", "CW_KEY_EXCH"}
    BY <1>1, ServerDoneSheet
<1> HIDE DEF t
<1>3. ASSUME ~Fails(s, t)
      PROVE  /\ Changes(s, t, {"state", "ccs_ok", "reuse_message", "session", "handshake_transcript", "cert_request",
                               "send_cookie"})
             /\ t.session.master = s.session.master /\ t.state \in ClientAsks \ {"CR_HELLO_VERIFY"}
    BY <1>1, <1>2, <1>3 DEF Changes, Fields, ClientAsks, SessionFields
<1>4. Fails(s, t) \/ ClientState(cfg, t)
    BY <1>0, <1>3, AsksGo DEF ClientAsks
<1> QED BY <1>4 DEF t

LEMMA AgreeSkip ==
    ASSUME NEW C, ClientAt(C, "CR_CERT")
    PROVE  ClientState(cfg, SkipServerCertificate(C))
<1> DEFINE t == SkipServerCertificate(C)
<1>1. ClientPlace(C) = "CR_CERT" /\ DOMAIN C = Fields
    BY PlaceIs DEF ClientAt, IsSsl
<1>2. ClientAsking(C) /\ C.n \in Nat /\ (cfg.dtls => C.n <= 1)
    BY <1>1 DEF ClientAt, ClientState, ClientAsks
<1>3. Changes(C, t, {"state", "ccs_ok"}) /\ t.state = "CR_KEY_EXCH"
    BY <1>1, SkipServerCertificateSheet
<1> HIDE DEF t
<1>4. HasHashed(t)
    <2>1. t.cr = C.cr /\ t.sr = C.sr /\ t.handshake_hash = C.handshake_hash
        BY <1>3 DEF Changes, Fields
    <2> QED BY <1>2, <2>1 DEF ClientAsking, HasHashed, Hellos
<1>5. ClientPlace(t) \in ClientAsks /\ DOMAIN t = Fields /\ t.session.master = C.session.master
    BY <1>3, PlaceIs DEF ClientAsks, Changes, Fields
<1>6. \A f \in Fields \ {"state", "next_state", "ccs_ok", "reuse_message", "session", "handshake_hash",
                         "handshake_transcript", "cert_request", "wbuf", "flush", "send_cookie", "frozen"} : t[f] = C[f]
    BY <1>3 DEF Changes
<1> QED BY <1>2, <1>4, <1>5, <1>6, AsksOn DEF t

LEMMA AgreeClientCertificate ==
    ASSUME NEW C, ClientAt(C, "CW_CERT")
    PROVE  ClientState(cfg, ssl3_send_client_certificate(C))
<1> DEFINE t == ssl3_send_client_certificate(C)
<1>1. ClientPlace(C) = "CW_CERT" /\ DOMAIN C = Fields
    BY PlaceIs DEF ClientAt, IsSsl
<1>2. ClientAsking(C) /\ C.n \in Nat /\ (cfg.dtls => C.n <= 1)
    BY <1>1 DEF ClientAt, ClientState, ClientAsks
<1>3. /\ Changes(C, t, {"state", "ccs_ok", "wbuf", "handshake_hash", "handshake_transcript", "cert_request"})
      /\ t.state = "CW_KEY_EXCH" /\ \E m : t.handshake_hash = Hashed(C.handshake_hash, m)
    BY <1>1, ClientCertificateSheet
<1> HIDE DEF t
<1>4. HasHashed(t)
    <2>1. t.cr = C.cr /\ t.sr = C.sr
        BY <1>3 DEF Changes, Fields
    <2> QED BY <1>2, <1>3, <2>1, HasHashedMore DEF ClientAsking
<1>5. ClientPlace(t) \in ClientAsks /\ DOMAIN t = Fields /\ t.session.master = C.session.master
    BY <1>3, PlaceIs DEF ClientAsks, Changes, Fields
<1>6. \A f \in Fields \ {"state", "next_state", "ccs_ok", "reuse_message", "session", "handshake_hash",
                         "handshake_transcript", "cert_request", "wbuf", "flush", "send_cookie", "frozen"} : t[f] = C[f]
    BY <1>3 DEF Changes
<1> QED BY <1>2, <1>4, <1>5, <1>6, AsksOn DEF t

LEMMA AgreeConnect ==
    ASSUME NEW C, NEW state \in {"BEFORE", "RENEGOTIATE"}, ClientAt(C, state), cfg.dtls => state # "RENEGOTIATE"
    PROVE  LET t == Connect(C) IN Fails(C, t) \/ ClientState(cfg, t)
<1> DEFINE t == Connect(C)
<1>1. ClientPlace(C) = state /\ DOMAIN C = Fields
    BY PlaceIs DEF ClientAt, IsSsl
<1>2. SUFFICES ASSUME ~Fails(C, t) PROVE ClientState(cfg, t)
    OBVIOUS
<1>3. /\ Changes(C, t, {"handshake_transcript", "frozen", "state", "n", "bbio", "renegotiate", "send_cookie", "hit"})
      /\ t.handshake_transcript = Some(<< >>) /\ ~t.frozen /\ t.state = "CW_CLNT_HELLO" /\ t.n = C.n + 1
    BY <1>1, <1>2, ConnectSheet
<1> HIDE DEF t
<1>4. /\ t.rkey = C.rkey /\ t.wkey = C.wkey /\ t.key_block = C.key_block
      /\ t.change_cipher_spec = C.change_cipher_spec /\ t.cipher = C.cipher
    BY <1>3 DEF Changes, Fields
<1>5. /\ C.n \in Nat /\ C.key_block = Null /\ ~C.change_cipher_spec
      /\ Number(C.rkey) = C.n /\ Number(C.wkey) = C.n
      /\ C.n = 0 => ~C.cipher
      /\ cfg.dtls => C.n = 0
    <2>1. CASE state = "BEFORE"
        BY <1>1, <2>1, NumberNull DEF ClientAt, ClientState
    <2>2. CASE state = "RENEGOTIATE"
        <3>1. ClientDone(C) /\ C.n \in Nat /\ Position(C) = "RENEGOTIATE"
            BY <1>1, <2>2, PlaceIs DEF ClientAt, ClientState
        <3> QED BY <2>2, <3>1, NumberOf DEF ClientDone, Complete
    <2> QED BY <2>1, <2>2
<1>6. ClientGreeting(cfg, t) /\ t.n \in Nat /\ (cfg.dtls => t.n <= 1)
    BY <1>3, <1>4, <1>5 DEF ClientGreeting, OldKeys
<1> QED BY <1>3, <1>6, PlaceIs, ClientStateIs

LEMMA AgreeClientHello ==
    ASSUME NEW C, ClientAt(C, "CW_CLNT_HELLO"), ClientAuth(cfg, C)
    PROVE  ClientState(cfg, ssl3_send_client_hello(C))
<1> DEFINE t == ssl3_send_client_hello(C)
           m == ClientHello(t)
<1>1. ClientPlace(C) = "CW_CLNT_HELLO" /\ DOMAIN C = Fields
    BY PlaceIs DEF ClientAt, IsSsl
<1>2. ClientGreeting(cfg, C) /\ C.n \in Nat /\ (cfg.dtls => C.n <= 1)
    BY <1>1 DEF ClientAt, ClientState
<1>3. /\ Changes(C, t, {"handshake_hash", "handshake_transcript", "frozen", "cr", "session",
                        "state", "next_state", "bbio", "ccs_ok", "wbuf"})
      /\ t.session = IF C.session.id = Null /\ C.session.tick = Null THEN NoSession ELSE C.session
      /\ t.cr = C.n
      /\ cfg.dtls => t.handshake_transcript = Some(<<Digest(m)>>) /\ ~t.frozen
      /\ ~cfg.dtls => t.handshake_transcript = Kept(C, m) /\ t.frozen = C.frozen
      /\ Position(t) = "CR_SRVR_HELLO" /\ t.state # "CR_HELLO_VERIFY"
    BY <1>1, ClientHelloSheet
<1>4. Digest(m).body.cr = t.cr
    BY DigestHello
<1> HIDE DEF t, m
<1>5. t.handshake_transcript = Some(<<Digest(m)>>) /\ ~t.frozen
    <2>1. CASE ~cfg.dtls
        <3>1. C.handshake_transcript = Some(<< >>) /\ ~C.frozen
            BY <1>2, <2>1 DEF ClientGreeting
        <3>2. Hashed(C.handshake_transcript, m) = Some(<<Digest(m)>>)
            BY <3>1, HashedSome, AppendOne
        <3> QED BY <1>3, <2>1, <3>1, <3>2 DEF Kept
    <2> QED BY <1>3, <2>1
<1>6. /\ t.n = C.n /\ t.rkey = C.rkey /\ t.wkey = C.wkey /\ t.key_block = C.key_block
      /\ t.change_cipher_spec = C.change_cipher_spec /\ t.cipher = C.cipher
    BY <1>3 DEF Changes, Fields
<1>7. t.session.id = Null => t.session.master = Null
    BY <1>3 DEF ClientAuth, NoSession
<1>8. ClientHoping(t)
    BY <1>2, <1>3, <1>4, <1>5, <1>6, <1>7 DEF ClientHoping, ClientGreeting, OldKeys
<1>9. ClientPlace(t) = "CR_SRVR_HELLO"
    BY <1>3 DEF ClientPlace, Verifying
<1>10. t.n \in Nat /\ (cfg.dtls => t.n <= 1)
    BY <1>2, <1>6
<1> QED BY <1>8, <1>9, <1>10, ClientStateIs DEF t

LEMMA AgreeServerHello ==
    ASSUME NEW C, NEW s, NEW m, ClientAt(C, "CR_SRVR_HELLO"), HasRead(C, s, m), C.reuse_message = Null,
           m.mt = "HelloVerifyRequest" => cfg.dtls,
           m.mt = "ServerHello" => ~C.change_cipher_spec /\ Digest(m).body.sr = m.body.sr
    PROVE  LET t == ssl3_get_server_hello(s, m) IN Fails(s, t) \/ ClientState(cfg, t)
<1> DEFINE t == ssl3_get_server_hello(s, m)
<1>1. ClientPlace(C) = "CR_SRVR_HELLO" /\ DOMAIN C = Fields
    BY PlaceIs DEF ClientAt, IsSsl
<1>2. ClientHoping(C) /\ C.n \in Nat /\ (cfg.dtls => C.n <= 1)
    BY <1>1 DEF ClientAt, ClientState
<1>3. /\ Changes(C, s, {"handshake_hash", "handshake_transcript"}) /\ DOMAIN s = Fields
      /\ s.handshake_transcript = Kept(C, m) /\ s.reuse_message = Null
    BY DEF HasRead, Changes
<1>4. /\ s.n = C.n /\ s.cr = C.cr /\ s.rkey = C.rkey /\ s.wkey = C.wkey /\ s.key_block = C.key_block
      /\ s.change_cipher_spec = C.change_cipher_spec /\ s.cipher = C.cipher /\ s.session = C.session
    BY <1>3 DEF Changes, Fields
<1>5. SUFFICES ASSUME ~Fails(s, t) PROVE ClientState(cfg, t)
    OBVIOUS
<1>6. CASE /\ m.mt = "HelloVerifyRequest"
           /\ Changes(s, t, {"state", "ccs_ok", "reuse_message"})
           /\ t.state = "CR_HELLO_VERIFY" /\ t.reuse_message = Some(m)
    <2> HIDE DEF t
    <2>1. /\ t.n = C.n /\ t.rkey = C.rkey /\ t.wkey = C.wkey /\ t.key_block = C.key_block
          /\ t.change_cipher_spec = C.change_cipher_spec /\ t.cipher = C.cipher
        BY <1>4, <1>6 DEF Changes, Fields
    <2>2. ~C.change_cipher_spec /\ OldKeys(C) /\ (C.n = 1 => ~C.cipher) /\ C.n >= 1
        BY <1>2, <1>6 DEF ClientHoping
    <2>3. ClientGreeting(cfg, t) /\ t.n \in Nat /\ (cfg.dtls => t.n <= 1)
        BY <1>2, <1>6, <2>1, <2>2 DEF ClientGreeting, OldKeys
    <2>4. ClientPlace(t) = "CW_CLNT_HELLO"
        BY <1>6, SomeIs DEF ClientPlace, Verifying
    <2> QED BY <2>3, <2>4, ClientStateIs
<1>7. CASE /\ m.mt = "ServerHello"
           /\ Changes(s, t, {"sr", "cipher", "hit", "session", "ccs_ok", "handshake_hash", "ticket_expected",
                             "status_expected", "handshake_transcript", "state"})
           /\ t.sr = m.body.sr
           /\ t.session = IF t.hit THEN s.session ELSE ClientMiss(s.session, m.body.id)
           /\ t.handshake_hash = s.handshake_transcript
           /\ t.hit => t.state \in {"CR_SESSION_TICKET", "CR_FINISHED"}
           /\ ~t.hit => t.state = IF cfg.dtls THEN "CR_HELLO_VERIFY" ELSE "CR_CERT"
    <2> HIDE DEF t
    <2>1. /\ t.n = C.n /\ t.rkey = C.rkey /\ t.wkey = C.wkey /\ t.key_block = C.key_block /\ t.cr = C.cr
          /\ t.change_cipher_spec = C.change_cipher_spec /\ t.reuse_message = Null
        BY <1>3, <1>4, <1>7 DEF Changes, Fields
    <2>2. /\ ~C.change_cipher_spec /\ OldKeys(C) /\ C.n >= 1 /\ C.cr = C.n /\ ~C.frozen
          /\ C.session.id = Null => C.session.master = Null
        BY <1>2, <1>7 DEF ClientHoping
    <2>3. PICK hello : C.handshake_transcript = Some(<<hello>>) /\ hello.body.cr = C.n
        BY <1>2 DEF ClientHoping
    <2> DEFINE h == <<hello, Digest(m)>>
    <2>4. t.handshake_hash = Some(h)
        <3>1. t.handshake_hash = Hashed(Some(<<hello>>), m)
            BY <1>3, <1>7, <2>2, <2>3 DEF Kept
        <3>2. Append(<<hello>>, Digest(m)) = h
            BY AppendTwo, ZenonT(60)
        <3> QED BY <3>1, <3>2, HashedSome
    <2>5. Hellos(t, h) /\ Len(h) = 2
        <3>1. h[1] = hello /\ h[2] = Digest(m) /\ Len(h) = 2 /\ IsSeq(h)
            BY AppendTwo
        <3> HIDE DEF h
        <3> QED BY <1>7, <2>1, <2>2, <2>3, <3>1 DEF Hellos
    <2> HIDE DEF h
    <2>6. CASE t.hit
        <3>1. Before(t, h)
            BY <2>5, <2>6 DEF Before
        <3>2. HashIs(t, h)
            BY <2>1, <2>4 DEF HashIs
        <3>3. ClientAwaiting(t)
            BY <2>1, <2>2, <2>6, <3>1, <3>2 DEF ClientAwaiting, OldKeys, Ready
        <3> QED BY <1>2, <1>7, <2>1, <2>6, <3>3, PlaceIs, ClientStateIs
    <2>7. CASE ~t.hit
        <3>1. t.session.master = Null
            BY <1>4, <1>7, <2>2, <2>7 DEF ClientMiss, NoSession
        <3>2. ClientAsking(t)
            BY <2>1, <2>2, <2>4, <2>5, <2>7, <3>1 DEF ClientAsking, OldKeys, HasHashed
        <3>3. ClientPlace(t) \in ClientAsks
            BY <1>7, <2>1, <2>7 DEF ClientPlace, Verifying, Position, ClientAsks
        <3> QED BY <1>2, <2>1, <3>2, <3>3, ClientStateIs
    <2> QED BY <2>6, <2>7
<1> QED BY <1>3, <1>5, <1>6, <1>7, ServerHelloSheet

LEMMA AgreeClientKeyExchange ==
    ASSUME NEW C, ClientAt(C, "CW_KEY_EXCH")
    PROVE  ClientState(cfg, ssl3_send_client_key_exchange(C))
<1> DEFINE t == ssl3_send_client_key_exchange(C)
           m == Message("ClientKeyExchange", [pre |-> C.n])
<1>1. ClientPlace(C) = "CW_KEY_EXCH" /\ DOMAIN C = Fields
    BY PlaceIs DEF ClientAt, IsSsl
<1>2. ClientAsking(C) /\ C.n \in Nat /\ (cfg.dtls => C.n <= 1)
    BY <1>1 DEF ClientAt, ClientState, ClientAsks
<1>3. /\ Changes(C, t, {"state", "ccs_ok", "wbuf", "handshake_hash", "handshake_transcript", "session",
                        "change_cipher_spec"})
      /\ t.state \in {"CW_CERT_VRFY", "CW_CHANGE"}
      /\ t.change_cipher_spec => C.change_cipher_spec
      /\ t.handshake_hash = Hashed(C.handshake_hash, m)
    BY <1>1, ClientKeyExchangeSheet
<1> HIDE DEF t, m
<1>4. /\ t.n = C.n /\ t.rkey = C.rkey /\ t.wkey = C.wkey /\ t.key_block = C.key_block /\ t.cr = C.cr /\ t.sr = C.sr
      /\ t.hit = C.hit
    BY <1>3 DEF Changes, Fields
<1>5. HasHashed(t)
    BY <1>2, <1>3, <1>4, HasHashedMore DEF ClientAsking
<1>6. ClientKeyed(t)
    BY <1>2, <1>3, <1>4, <1>5 DEF ClientAsking, ClientKeyed, OldKeys
<1>7. ~t.hit /\ ClientPlace(t) \in {"CW_CERT_VRFY", "CW_CHANGE", "CW_FINISHED"}
    BY <1>2, <1>3, <1>4, PlaceIs DEF ClientAsking
<1> QED BY <1>2, <1>4, <1>6, <1>7, ClientStateIs DEF t

LEMMA AgreeClientVerify ==
    ASSUME NEW C, ClientAt(C, "CW_CERT_VRFY")
    PROVE  LET t == ssl3_send_client_verify(C) IN Fails(C, t) \/ ClientState(cfg, t)
<1> DEFINE t == ssl3_send_client_verify(C)
<1>1. ClientPlace(C) = "CW_CERT_VRFY" /\ DOMAIN C = Fields
    BY PlaceIs DEF ClientAt, IsSsl
<1>2. ClientKeyed(C) /\ C.n \in Nat /\ (cfg.dtls => C.n <= 1)
    BY <1>1 DEF ClientAt, ClientState
<1>3. SUFFICES ASSUME ~Fails(C, t) PROVE ClientState(cfg, t)
    OBVIOUS
<1>4. /\ Changes(C, t, {"state", "ccs_ok", "wbuf", "handshake_hash", "handshake_transcript", "change_cipher_spec"})
      /\ t.state = "CW_CHANGE" /\ ~t.change_cipher_spec /\ \E m : t.handshake_hash = Hashed(C.handshake_hash, m)
    BY <1>1, <1>3, ClientVerifySheet
<1> HIDE DEF t
<1>5. /\ t.n = C.n /\ t.rkey = C.rkey /\ t.wkey = C.wkey /\ t.key_block = C.key_block /\ t.cr = C.cr /\ t.sr = C.sr
      /\ t.hit = C.hit
    BY <1>4 DEF Changes, Fields
<1>6. HasHashed(t)
    BY <1>2, <1>4, <1>5, HasHashedMore DEF ClientKeyed
<1>7. ClientKeyed(t)
    BY <1>2, <1>4, <1>5, <1>6 DEF ClientKeyed, ClientAt
<1>8. ~t.hit /\ ClientPlace(t) \in {"CW_CERT_VRFY", "CW_CHANGE", "CW_FINISHED"}
    BY <1>2, <1>4, <1>5, PlaceIs DEF ClientKeyed
<1> QED BY <1>2, <1>5, <1>7, <1>8, ClientStateIs

LEMMA SameComplete ==
    ASSUME NEW x, NEW y, Same(x, y), Complete(x), y.who = x.who, y.rkey = x.rkey, y.wkey = x.wkey,
           y.previous_server_finished = x.previous_server_finished,
           y.previous_client_finished = x.previous_client_finished, y.handshake_hash = x.handshake_hash
    PROVE  Complete(y)
<1>1. PICK h : /\ Ready(x, h)
               /\ x.previous_server_finished = Some(Fin("server", x, h))
               /\ ~x.hit => x.handshake_hash = Some(Ended("server", x, h))
               /\ x.hit => LET g == Ended("server", x, h)
                           IN  /\ x.previous_client_finished = Some(Fin("client", x, g))
                               /\ x.handshake_hash = Some(Ended("client", x, g))
    BY DEF Complete
<1>2. Ready(y, h)
    BY <1>1, SameReady
<1>3. /\ \A who : KeyOf(who, y) = KeyOf(who, x)
      /\ \A who, k : Fin(who, y, k) = Fin(who, x, k) /\ Ended(who, y, k) = Ended(who, x, k)
    BY SameKeys
<1>4. y.hit = x.hit
    BY DEF Same
<1> QED BY <1>1, <1>2, <1>3, <1>4 DEF Complete

LEMMA AgreeClientChange ==
    ASSUME NEW C, ClientAt(C, "CW_CHANGE")
    PROVE  ClientState(cfg, ssl3_send_client_change_cipher_spec(C))
<1> DEFINE t == ssl3_send_client_change_cipher_spec(C)
<1>1. ClientPlace(C) = "CW_CHANGE" /\ DOMAIN C = Fields /\ C.who = "client" /\ C.n \in Nat /\ (cfg.dtls => C.n <= 1)
    BY PlaceIs DEF ClientAt, IsSsl, ClientState
<1>2. /\ Changes(C, t, {"state", "wbuf", "key_block", "wkey"}) /\ t.state = "CW_FINISHED"
      /\ t.key_block = IF C.key_block = Null THEN Keys(C) ELSE C.key_block
      /\ t.wkey = <<C.who>> \o t.key_block
    BY <1>1, ChangeCipherSpecSheet DEF ssl3_send_client_change_cipher_spec
<1> HIDE DEF t
<1>3. /\ t.n = C.n /\ t.rkey = C.rkey /\ t.cr = C.cr /\ t.sr = C.sr /\ t.hit = C.hit /\ t.session = C.session
      /\ t.change_cipher_spec = C.change_cipher_spec /\ t.handshake_hash = C.handshake_hash
      /\ t.previous_server_finished = C.previous_server_finished
      /\ t.previous_client_finished = C.previous_client_finished
    BY <1>2 DEF Changes, Fields
<1>4. Same(C, t)
    BY <1>3 DEF Same
<1>5. CASE ~C.hit
    <2>1. ClientKeyed(C)
        BY <1>1, <1>5 DEF ClientAt, ClientState
    <2>2. t.key_block = Keys(t) /\ t.wkey = KeyOf("client", t)
        BY <1>1, <1>2, <1>4, <2>1, SameKeys DEF ClientKeyed, ClientAt, KeyOf
    <2>3. ClientKeyed(t)
        BY <1>2, <1>3, <1>4, <2>1, <2>2, SameHasHashed DEF ClientKeyed
    <2> QED BY <1>1, <1>2, <1>3, <1>5, <2>3, PlaceIs, ClientStateIs DEF t
<1>6. CASE C.hit
    <2>1. ClientAnswering(C)
        BY <1>1, <1>6 DEF ClientAt, ClientState
    <2>2. t.key_block = Keys(t) /\ t.wkey = KeyOf("client", t) /\ t.rkey = KeyOf("server", t)
        BY <1>1, <1>2, <1>3, <1>4, <2>1, SameKeys, NoKeys DEF ClientAnswering, KeyOf
    <2>3. PICK h : /\ Ready(C, h) /\ C.previous_server_finished = Some(Fin("server", C, h))
                   /\ C.handshake_hash = Some(Ended("server", C, h))
        BY <2>1 DEF ClientAnswering
    <2>4. /\ Ready(t, h) /\ t.previous_server_finished = Some(Fin("server", t, h))
          /\ t.handshake_hash = Some(Ended("server", t, h))
        BY <1>3, <1>4, <2>3, SameKeys, SameReady
    <2>5. ClientAnswering(t)
        BY <1>2, <1>3, <1>6, <2>1, <2>2, <2>4 DEF ClientAnswering
    <2> QED BY <1>1, <1>2, <1>3, <1>6, <2>5, PlaceIs, ClientStateIs DEF t
<1> QED BY <1>5, <1>6

LEMMA AgreeClientFinished ==
    ASSUME NEW C, ClientAt(C, "CW_FINISHED"), C.reuse_message = Null
    PROVE  ClientState(cfg, ssl3_send_client_finished(C))
<1> DEFINE t == ssl3_send_client_finished(C)
           m == VerifyData(C, "client")
<1>1. ClientPlace(C) = "CW_FINISHED" /\ DOMAIN C = Fields /\ C.who = "client" /\ C.n \in Nat /\ (cfg.dtls => C.n <= 1)
    BY PlaceIs DEF ClientAt, IsSsl, ClientState
<1>2. /\ Changes(C, t, {"wbuf", "handshake_hash", "handshake_transcript", "previous_client_finished", "ccs_ok",
                        "state", "next_state"})
      /\ t.handshake_hash = Hashed(C.handshake_hash, m)
      /\ t.previous_client_finished = Some(m)
      /\ t.state = "FLUSH"
      /\ t.next_state = IF C.hit THEN "ST_OK" ELSE IF C.ticket_expected THEN "CR_SESSION_TICKET" ELSE "CR_FINISHED"
    BY <1>1, ClientFinishedSheet
<1> HIDE DEF t
<1>3. /\ t.n = C.n /\ t.rkey = C.rkey /\ t.wkey = C.wkey /\ t.key_block = C.key_block
      /\ t.cr = C.cr /\ t.sr = C.sr /\ t.hit = C.hit /\ t.session = C.session /\ t.who = C.who
      /\ t.change_cipher_spec = C.change_cipher_spec /\ t.reuse_message = Null
      /\ t.previous_server_finished = C.previous_server_finished
    BY <1>2 DEF Changes, Fields
<1>4. Same(C, t)
    BY <1>3 DEF Same
<1>5. /\ Keys(t) = Keys(C) /\ \A who : KeyOf(who, t) = KeyOf(who, C)
      /\ \A who, h : Fin(who, t, h) = Fin(who, C, h) /\ Ended(who, t, h) = Ended(who, C, h)
      /\ \A h : Hellos(t, h) <=> Hellos(C, h)
    BY <1>4, SameKeys
<1>6. CASE ~C.hit
    <2>1. ClientKeyed(C)
        BY <1>1, <1>6 DEF ClientAt, ClientState
    <2>2. PICK h : Hellos(C, h) /\ C.handshake_hash = Some(h)
        BY <2>1 DEF ClientKeyed, HasHashed
    <2>3. m = Fin("client", C, h)
        BY <2>2, VerifyDataIs
    <2>4. t.handshake_hash = Some(Ended("client", t, h)) /\ t.previous_client_finished = Some(Fin("client", t, h))
        BY <1>2, <1>5, <2>2, <2>3, HashedSome, DigestFin DEF Ended
    <2>5. Before(t, Ended("client", t, h))
        <3>1. Hellos(t, h) /\ Hellos(t, Ended("client", t, h))
            BY <1>5, <2>2, HellosAppend DEF Ended
        <3> QED BY <1>3, <1>6, <2>4, <3>1 DEF Before
    <2>6. HashIs(t, Ended("client", t, h))
        BY <1>3, <2>4 DEF HashIs
    <2>7. t.wkey = KeyOf("client", t) /\ t.key_block = Keys(t)
        BY <1>3, <1>5, <2>1 DEF ClientKeyed, ClientAt
    <2>8. ClientAwaiting(t)
        BY <1>3, <1>6, <2>1, <2>5, <2>6, <2>7 DEF ClientAwaiting, ClientKeyed, Ready
    <2>9. ClientPlace(t) \in {"CR_SESSION_TICKET", "CR_FINISHED"}
        BY <1>2, <1>6, PlaceIs
    <2> QED BY <1>1, <1>3, <2>8, <2>9, ClientStateIs DEF t
<1>7. CASE C.hit
    <2>1. ClientAnswering(C)
        BY <1>1, <1>7 DEF ClientAt, ClientState
    <2>2. PICK h : /\ Ready(C, h) /\ C.previous_server_finished = Some(Fin("server", C, h))
                   /\ C.handshake_hash = Some(Ended("server", C, h))
        BY <2>1 DEF ClientAnswering
    <2> DEFINE g == Ended("server", t, h)
    <2>3. m = Fin("client", t, g)
        BY <1>5, <2>2, VerifyDataIs
    <2>4. t.handshake_hash = Some(Ended("client", t, g)) /\ t.previous_client_finished = Some(Fin("client", t, g))
        BY <1>2, <1>5, <2>2, <2>3, HashedSome, DigestFin DEF Ended
    <2>5. Ready(t, h)
        BY <1>4, <1>7, <2>2, SameReady
    <2>6. t.rkey = KeyOf("server", t) /\ t.wkey = KeyOf("client", t)
        BY <1>3, <1>5, <2>1 DEF ClientAnswering, ClientAt
    <2>7. Complete(t)
        BY <1>1, <1>3, <1>5, <1>7, <2>2, <2>4, <2>5, <2>6 DEF Complete, Peer
    <2>8. ClientPlace(t) = "ST_OK" /\ Position(t) = "ST_OK"
        BY <1>2, <1>7, PlaceIs
    <2>9. ClientDone(t)
        BY <1>3, <2>1, <2>7, <2>8 DEF ClientDone, ClientAnswering
    <2> QED BY <1>1, <1>3, <2>8, <2>9, ClientStateIs DEF t
<1> QED BY <1>6, <1>7

(* Reading a message hashes it, whether it was kept or comes now. *)
LEMMA ReadHash ==
    ASSUME NEW C, NEW s, NEW m, NEW h, HashIs(C, h), HasRead(C, s, m)
    PROVE  s.handshake_hash = Some(Append(h, Digest(m)))
<1>1. CASE C.reuse_message # Null /\ m = C.reuse_message[1] /\ Changes(C, s, {"reuse_message"})
    <2>1. s.handshake_hash = C.handshake_hash
        BY <1>1 DEF Changes, Fields
    <2> QED BY <1>1, <2>1 DEF HashIs
<1>2. CASE C.reuse_message = Null /\ s.handshake_hash = Hashed(C.handshake_hash, m)
    BY <1>2, HashedSome DEF HashIs
<1> QED BY <1>1, <1>2 DEF HasRead

LEMMA ReadKeeps ==
    ASSUME NEW C, NEW s, NEW m, HasRead(C, s, m), DOMAIN C = Fields
    PROVE  /\ Changes(C, s, {"reuse_message", "handshake_hash", "handshake_transcript"})
           /\ s.reuse_message = Null /\ DOMAIN s = Fields
           /\ s.n = C.n /\ s.rkey = C.rkey /\ s.wkey = C.wkey /\ s.key_block = C.key_block
           /\ s.cr = C.cr /\ s.sr = C.sr /\ s.hit = C.hit /\ s.session = C.session /\ s.who = C.who
           /\ s.change_cipher_spec = C.change_cipher_spec /\ s.peer_finished = C.peer_finished
           /\ s.previous_client_finished = C.previous_client_finished
           /\ s.previous_server_finished = C.previous_server_finished /\ s.wbuf = C.wbuf /\ s.state = C.state
    BY DEF HasRead, Changes, Fields

LEMMA AgreeTicket ==
    ASSUME NEW C, NEW s, NEW m, ClientAt(C, "CR_SESSION_TICKET"), HasRead(C, s, m), C.reuse_message = Null,
           m.mt = "NewSessionTicket" => ~C.change_cipher_spec
    PROVE  LET t == ssl3_get_new_session_ticket(s, m) IN Fails(s, t) \/ ClientState(cfg, t)
<1> DEFINE t == ssl3_get_new_session_ticket(s, m)
<1>1. /\ ClientPlace(C) = "CR_SESSION_TICKET" /\ Position(C) = "CR_SESSION_TICKET" /\ DOMAIN C = Fields
      /\ C.who = "client" /\ C.n \in Nat /\ (cfg.dtls => C.n <= 1) /\ DOMAIN C.session = SessionFields
    BY PlaceIs DEF ClientAt, IsSsl, ClientState
<1>2. ClientAwaiting(C)
    BY <1>1 DEF ClientAt, ClientState
<1>3. PICK h : Before(C, h) /\ HashIs(C, h) /\ (C.change_cipher_spec => CcsRead(C, h))
    BY <1>1, <1>2 DEF ClientAwaiting
<1>4. /\ Changes(C, s, {"reuse_message", "handshake_hash", "handshake_transcript"})
      /\ s.reuse_message = Null /\ DOMAIN s = Fields
      /\ s.n = C.n /\ s.rkey = C.rkey /\ s.wkey = C.wkey /\ s.key_block = C.key_block
      /\ s.cr = C.cr /\ s.sr = C.sr /\ s.hit = C.hit /\ s.session = C.session /\ s.who = C.who
      /\ s.change_cipher_spec = C.change_cipher_spec /\ s.peer_finished = C.peer_finished
      /\ s.previous_client_finished = C.previous_client_finished
    BY <1>1, ReadKeeps
<1>5. s.handshake_hash = Some(Append(h, Digest(m)))
    BY <1>3, ReadHash
<1>6. SUFFICES ASSUME ~Fails(s, t) PROVE ClientState(cfg, t)
    OBVIOUS
<1>7. /\ t.state = "CR_FINISHED"
      /\ \/ m.mt = "Finished" /\ t.reuse_message = Some(m) /\ Changes(s, t, {"state", "ccs_ok", "reuse_message"})
         \/ /\ m.mt = "NewSessionTicket" /\ Changes(s, t, {"state", "ccs_ok", "session"})
            /\ t.session.master = s.session.master
    BY <1>1, <1>4, <1>6, NewSessionTicketSheet
<1> HIDE DEF t
<1>8. /\ t.n = C.n /\ t.rkey = C.rkey /\ t.wkey = C.wkey /\ t.key_block = C.key_block
      /\ t.cr = C.cr /\ t.sr = C.sr /\ t.hit = C.hit /\ t.session.master = C.session.master /\ t.who = C.who
      /\ t.change_cipher_spec = C.change_cipher_spec /\ t.peer_finished = C.peer_finished
      /\ t.previous_client_finished = C.previous_client_finished /\ t.handshake_hash = s.handshake_hash
    BY <1>4, <1>7 DEF Changes, Fields
<1>9. Same(C, t)
    BY <1>8 DEF Same
<1>10. Before(t, h)
    BY <1>3, <1>8, <1>9, SameReady
<1>11. /\ Keys(t) = Keys(C) /\ \A who : KeyOf(who, t) = KeyOf(who, C)
       /\ \A who, k : Fin(who, t, k) = Fin(who, C, k)
    BY <1>9, SameKeys
<1>12. ClientPlace(t) = "CR_FINISHED" /\ Position(t) = "CR_FINISHED"
    BY <1>7, PlaceIs
<1>13. CASE m.mt = "Finished" /\ t.reuse_message = Some(m)
    <2>1. HashIs(t, h)
        BY <1>5, <1>8, <1>13, SomeIs DEF HashIs
    <2>2. t.change_cipher_spec => CcsRead(t, h)
        BY <1>3, <1>8, <1>11 DEF CcsRead
    <2>3. ClientAwaiting(t)
        BY <1>2, <1>8, <1>10, <1>11, <1>12, <2>1, <2>2 DEF ClientAwaiting, Ready
    <2> QED BY <1>1, <1>8, <1>12, <2>3, ClientStateIs
<1>14. CASE m.mt = "NewSessionTicket" /\ Changes(s, t, {"state", "ccs_ok", "session"})
    <2>1. t.reuse_message = Null
        BY <1>4, <1>14 DEF Changes, Fields
    <2>2. Digest(m) = m
        BY <1>14 DEF Digest
    <2>3. HashIs(t, Append(h, m))
        BY <1>5, <1>8, <2>1, <2>2 DEF HashIs
    <2>4. Ready(t, Append(h, m))
        BY <1>10, <1>14 DEF Ready
    <2>5. ~t.change_cipher_spec
        BY <1>8, <1>14
    <2>6. ClientAwaiting(t)
        BY <1>2, <1>8, <1>11, <1>12, <2>3, <2>4, <2>5 DEF ClientAwaiting
    <2> QED BY <1>1, <1>8, <1>12, <2>6, ClientStateIs
<1> QED BY <1>7, <1>13, <1>14

LEMMA AgreeServerFinished ==
    ASSUME NEW C, NEW s, NEW m, ClientAt(C, "CR_FINISHED"), HasRead(C, s, m)
    PROVE  LET t == ssl3_get_server_finished(s, m) IN Fails(s, t) \/ ClientState(cfg, t)
<1> DEFINE t == ssl3_get_server_finished(s, m)
<1>1. /\ ClientPlace(C) = "CR_FINISHED" /\ Position(C) = "CR_FINISHED" /\ DOMAIN C = Fields
      /\ C.who = "client" /\ C.n \in Nat /\ (cfg.dtls => C.n <= 1)
    BY PlaceIs DEF ClientAt, IsSsl, ClientState
<1>2. ClientAwaiting(C)
    BY <1>1 DEF ClientAt, ClientState
<1>3. PICK h : Ready(C, h) /\ HashIs(C, h) /\ (C.change_cipher_spec => CcsRead(C, h))
    BY <1>1, <1>2 DEF ClientAwaiting
<1>4. /\ DOMAIN s = Fields
      /\ s.n = C.n /\ s.rkey = C.rkey /\ s.wkey = C.wkey /\ s.key_block = C.key_block
      /\ s.cr = C.cr /\ s.sr = C.sr /\ s.hit = C.hit /\ s.session = C.session /\ s.who = C.who
      /\ s.change_cipher_spec = C.change_cipher_spec /\ s.peer_finished = C.peer_finished
      /\ s.previous_client_finished = C.previous_client_finished
    BY <1>1, ReadKeeps
<1>5. s.handshake_hash = Some(Append(h, Digest(m)))
    BY <1>3, ReadHash
<1>6. SUFFICES ASSUME ~Fails(s, t) PROVE ClientState(cfg, t)
    OBVIOUS
<1>7. /\ FinishedIsRight(s, m) /\ Changes(s, t, {"change_cipher_spec", "state", "previous_server_finished"})
      /\ t.previous_server_finished = Some(m) /\ ~t.change_cipher_spec
      /\ t.state = IF s.hit THEN "CW_CHANGE" ELSE "ST_OK"
    BY <1>1, <1>4, <1>6, GetFinishedSheet DEF ssl3_get_server_finished, Endpoint
<1> HIDE DEF t
<1>8. /\ t.n = C.n /\ t.rkey = C.rkey /\ t.wkey = C.wkey /\ t.key_block = C.key_block
      /\ t.cr = C.cr /\ t.sr = C.sr /\ t.hit = C.hit /\ t.session = C.session /\ t.who = C.who
      /\ t.previous_client_finished = C.previous_client_finished /\ t.handshake_hash = s.handshake_hash
    BY <1>4, <1>7 DEF Changes, Fields
<1>9. Same(C, t)
    BY <1>8 DEF Same
<1>10. /\ Keys(t) = Keys(C) /\ \A who : KeyOf(who, t) = KeyOf(who, C)
       /\ \A who, k : Fin(who, t, k) = Fin(who, C, k) /\ Ended(who, t, k) = Ended(who, C, k)
    BY <1>9, SameKeys
<1>11. C.change_cipher_spec /\ CcsRead(C, h) /\ m = Fin("server", C, h)
    <2>1. C.change_cipher_spec /\ C.peer_finished = Some(m)
        BY <1>4, <1>7 DEF FinishedIsRight
    <2>2. C.peer_finished = Some(Fin("server", C, h))
        BY <1>1, <1>3, <2>1 DEF CcsRead, Peer
    <2> QED BY <1>3, <2>1, <2>2, SomeIs
<1>12. t.handshake_hash = Some(Ended("server", t, h)) /\ t.previous_server_finished = Some(Fin("server", t, h))
    BY <1>5, <1>7, <1>8, <1>10, <1>11, DigestFin DEF Ended
<1>13. Ready(t, h)
    BY <1>3, <1>8, <1>9, SameReady
<1>14. t.rkey = KeyOf("server", t) /\ t.key_block = Keys(t)
    BY <1>1, <1>8, <1>10, <1>11 DEF CcsRead, Peer
<1>15. CASE t.hit
    <2>1. t.state = "CW_CHANGE"
        BY <1>4, <1>7, <1>8, <1>15
    <2>2. ClientAnswering(t)
        BY <1>2, <1>7, <1>8, <1>12, <1>13, <1>14, <1>15, <2>1 DEF ClientAnswering, ClientAwaiting
    <2> QED BY <1>1, <1>8, <1>15, <2>1, <2>2, PlaceIs, ClientStateIs
<1>16. CASE ~t.hit
    <2>1. t.state = "ST_OK" /\ ClientPlace(t) = "ST_OK" /\ Position(t) = "ST_OK"
        BY <1>4, <1>7, <1>8, <1>16, PlaceIs
    <2>2. t.wkey = KeyOf("client", t)
        BY <1>2, <1>8, <1>10, <1>16 DEF ClientAwaiting
    <2>3. Complete(t)
        BY <1>1, <1>8, <1>12, <1>13, <1>14, <1>16, <2>2 DEF Complete, Peer
    <2>4. ClientDone(t)
        BY <1>2, <1>7, <1>8, <2>1, <2>3 DEF ClientDone, ClientAwaiting
    <2> QED BY <1>1, <1>8, <2>1, <2>4, ClientStateIs
<1> QED BY <1>15, <1>16

(* Fields that the state of the client does not depend on. *)
Aside ==
    {"state", "next_state", "done", "cert_verify", "ccs_ok", "ticket_expected", "status_expected", "cert_request",
     "send_cookie", "renegotiate", "new_session", "total_renegotiations", "bbio", "wbuf", "flush", "data"}

LEMMA AsideKeeps ==
    ASSUME NEW x, NEW y, Changes(x, y, Aside)
    PROVE  /\ y.n = x.n /\ y.rkey = x.rkey /\ y.wkey = x.wkey /\ y.key_block = x.key_block /\ y.who = x.who
           /\ y.cr = x.cr /\ y.sr = x.sr /\ y.hit = x.hit /\ y.session = x.session /\ y.cipher = x.cipher
           /\ y.change_cipher_spec = x.change_cipher_spec /\ y.peer_finished = x.peer_finished
           /\ y.previous_client_finished = x.previous_client_finished
           /\ y.previous_server_finished = x.previous_server_finished
           /\ y.handshake_hash = x.handshake_hash /\ y.handshake_transcript = x.handshake_transcript
           /\ y.frozen = x.frozen /\ y.reuse_message = x.reuse_message /\ Same(x, y)
    BY DEF Changes, Aside, Fields, Same

LEMMA SameHash ==
    ASSUME NEW x, NEW y, Same(x, y), y.handshake_hash = x.handshake_hash, y.reuse_message = x.reuse_message,
           y.who = x.who, y.key_block = x.key_block, y.rkey = x.rkey, y.peer_finished = x.peer_finished
    PROVE  \A h : (HashIs(x, h) => HashIs(y, h)) /\ (CcsRead(x, h) => CcsRead(y, h))
<1>1. Keys(y) = Keys(x) /\ \A who : KeyOf(who, y) = KeyOf(who, x)
    BY SameKeys
<1>2. \A who, h : Fin(who, y, h) = Fin(who, x, h)
    BY SameKeys
<1> QED BY <1>1, <1>2 DEF HashIs, CcsRead

LEMMA ClientFrame ==
    ASSUME NEW c, NEW C, NEW t, ClientState(c, C), Changes(C, t, Aside), ClientPlace(t) = ClientPlace(C),
           Position(t) = Position(C), t.state = "CW_FINISHED" <=> C.state = "CW_FINISHED"
    PROVE  ClientState(c, t)
<1>1. /\ t.n = C.n /\ t.rkey = C.rkey /\ t.wkey = C.wkey /\ t.key_block = C.key_block /\ t.who = C.who
      /\ t.cr = C.cr /\ t.sr = C.sr /\ t.hit = C.hit /\ t.session = C.session /\ t.cipher = C.cipher
      /\ t.change_cipher_spec = C.change_cipher_spec /\ t.peer_finished = C.peer_finished
      /\ t.previous_client_finished = C.previous_client_finished
      /\ t.previous_server_finished = C.previous_server_finished
      /\ t.handshake_hash = C.handshake_hash /\ t.handshake_transcript = C.handshake_transcript
      /\ t.frozen = C.frozen /\ t.reuse_message = C.reuse_message /\ Same(C, t)
    BY AsideKeeps
<1>2. HasHashed(C) => HasHashed(t)
    BY <1>1, SameHasHashed
<1>3. \A h : (HashIs(C, h) => HashIs(t, h)) /\ (CcsRead(C, h) => CcsRead(t, h))
    BY <1>1, SameHash
<1>4. \A h : (Before(t, h) <=> Before(C, h)) /\ (Ready(t, h) <=> Ready(C, h))
    BY <1>1, SameReady
<1>5. /\ Keys(t) = Keys(C) /\ \A who : KeyOf(who, t) = KeyOf(who, C)
      /\ \A who, h : Fin(who, t, h) = Fin(who, C, h) /\ Ended(who, t, h) = Ended(who, C, h)
    BY <1>1, SameKeys
<1>6. OldKeys(C) <=> OldKeys(t)
    BY <1>1 DEF OldKeys
<1>7. ClientGreeting(c, C) => ClientGreeting(c, t)
    BY <1>1, <1>6 DEF ClientGreeting
<1>8. ClientHoping(C) => ClientHoping(t)
    BY <1>1, <1>6 DEF ClientHoping
<1>9. ClientAsking(C) => ClientAsking(t)
    BY <1>1, <1>2, <1>6 DEF ClientAsking
<1>10. ClientKeyed(C) => ClientKeyed(t)
    BY <1>1, <1>2, <1>5 DEF ClientKeyed
<1>11. ClientAwaiting(C) => ClientAwaiting(t)
    <2>1. SUFFICES ASSUME ClientAwaiting(C) PROVE ClientAwaiting(t)
        OBVIOUS
    <2>2. PICK h : /\ IF Position(C) = "CR_SESSION_TICKET" THEN Before(C, h) ELSE Ready(C, h)
                   /\ HashIs(C, h)
                   /\ C.change_cipher_spec => CcsRead(C, h)
        BY <2>1 DEF ClientAwaiting
    <2>3. /\ IF Position(t) = "CR_SESSION_TICKET" THEN Before(t, h) ELSE Ready(t, h)
          /\ HashIs(t, h)
          /\ t.change_cipher_spec => CcsRead(t, h)
        BY <1>1, <1>3, <1>4, <2>2
    <2> QED BY <1>1, <1>5, <2>1, <2>3 DEF ClientAwaiting
<1>12. ClientAnswering(C) => ClientAnswering(t)
    <2>1. SUFFICES ASSUME ClientAnswering(C) PROVE ClientAnswering(t)
        OBVIOUS
    <2>2. PICK h : /\ Ready(C, h) /\ C.previous_server_finished = Some(Fin("server", C, h))
                   /\ C.handshake_hash = Some(Ended("server", C, h))
        BY <2>1 DEF ClientAnswering
    <2>3. /\ Ready(t, h) /\ t.previous_server_finished = Some(Fin("server", t, h))
          /\ t.handshake_hash = Some(Ended("server", t, h))
        BY <1>1, <1>4, <1>5, <2>2
    <2> QED BY <1>1, <1>5, <2>1, <2>3 DEF ClientAnswering
<1>13. ClientDone(C) => ClientDone(t)
    BY <1>1, SameComplete DEF ClientDone
<1> QED BY <1>1, <1>7, <1>8, <1>9, <1>10, <1>11, <1>12, <1>13 DEF ClientState

LEMMA AgreeConnected ==
    ASSUME NEW C, ClientAt(C, "ST_OK")
    PROVE  LET t == Connected(C) IN Fails(C, t) \/ ClientState(cfg, t)
<1> DEFINE t == Connected(C)
<1>1. /\ ClientPlace(C) = "ST_OK" /\ DOMAIN C = Fields /\ ClientDone(C) /\ C.n \in Nat /\ (cfg.dtls => C.n <= 1)
    BY PlaceIs DEF ClientAt, IsSsl, ClientState
<1>2. \/ Fails(C, t)
      \/ /\ Changes(C, t, {"state", "key_block", "bbio", "wbuf", "renegotiate", "new_session", "done"})
         /\ t.state = "Established" /\ t.key_block = Null
    BY <1>1, ConnectedSheet
<1> HIDE DEF t
<1>3. CASE Changes(C, t, {"state", "key_block", "bbio", "wbuf", "renegotiate", "new_session", "done"})
           /\ t.state = "Established" /\ t.key_block = Null
    <2>1. /\ t.n = C.n /\ t.rkey = C.rkey /\ t.wkey = C.wkey /\ t.who = C.who /\ t.cr = C.cr
          /\ t.change_cipher_spec = C.change_cipher_spec /\ Same(C, t)
          /\ t.previous_client_finished = C.previous_client_finished
          /\ t.previous_server_finished = C.previous_server_finished
          /\ t.handshake_hash = C.handshake_hash
        BY <1>3 DEF Changes, Fields, Same
    <2>2. ClientDone(t)
        BY <1>1, <1>3, <2>1, SameComplete DEF ClientDone
    <2> QED BY <1>1, <1>3, <2>1, <2>2, PlaceIs, ClientStateIs DEF t
<1> QED BY <1>2, <1>3 DEF t

LEMMA AgreeRenegotiate ==
    ASSUME NEW C, NEW t, ClientAt(C, "Established"), Changes(C, t, Aside), t.state = "RENEGOTIATE"
    PROVE  ClientState(cfg, t)
<1>1. /\ ClientPlace(C) = "Established" /\ Position(C) = "Established" /\ ClientDone(C) /\ C.n \in Nat
      /\ cfg.dtls => C.n <= 1
    BY PlaceIs DEF ClientAt, ClientState
<1>2. /\ t.n = C.n /\ t.rkey = C.rkey /\ t.wkey = C.wkey /\ t.key_block = C.key_block /\ t.who = C.who
      /\ t.cr = C.cr /\ t.change_cipher_spec = C.change_cipher_spec
      /\ t.previous_client_finished = C.previous_client_finished
      /\ t.previous_server_finished = C.previous_server_finished
      /\ t.handshake_hash = C.handshake_hash /\ Same(C, t)
    BY AsideKeeps
<1>3. ClientDone(t)
    BY <1>1, <1>2, SameComplete DEF ClientDone
<1> QED BY <1>1, <1>2, <1>3, PlaceIs, ClientStateIs

LEMMA AgreeReadCcs ==
    ASSUME NEW C, NEW state \in ReadStates, ClientAt(C, state), C.reuse_message = Null, Number(C.rkey) < C.n
    PROVE  LET t == ReadCcs(C) IN t.state = "Failed" \/ ClientState(cfg, t)
<1> DEFINE t == ReadCcs(C)
<1>1. /\ DOMAIN C = Fields /\ C.who = "client" /\ C.n \in Nat /\ (cfg.dtls => C.n <= 1) /\ C.state = state
      /\ ClientState(cfg, C)
    BY DEF ClientAt, IsSsl, ClientState
<1>2. ~Verifying(C) /\ ClientPlace(C) = state /\ Position(C) = state
    BY <1>1 DEF Verifying, ClientPlace, Position, ReadStates
<1>3. \/ t.state = "Failed"
      \/ t = C
      \/ /\ Changes(C, t, {"ccs_ok", "change_cipher_spec", "key_block", "rkey", "peer_finished"})
         /\ C.ccs_ok /\ ~C.change_cipher_spec /\ C.cipher
         /\ ~t.ccs_ok /\ t.change_cipher_spec
         /\ t.key_block = IF C.key_block = Null THEN Keys(C) ELSE C.key_block
         /\ t.rkey = <<Peer(C.who)>> \o t.key_block
         /\ t.peer_finished = Some(VerifyData(C, Peer(C.who)))
         /\ C.key_block # Null \/ C.session.master # Null
    BY <1>1, ReadCcsSheet
<1> HIDE DEF t
<1>4. ASSUME /\ Changes(C, t, {"ccs_ok", "change_cipher_spec", "key_block", "rkey", "peer_finished"})
             /\ C.ccs_ok /\ ~C.change_cipher_spec /\ C.cipher
             /\ ~t.ccs_ok /\ t.change_cipher_spec
             /\ t.key_block = IF C.key_block = Null THEN Keys(C) ELSE C.key_block
             /\ t.rkey = <<Peer(C.who)>> \o t.key_block
             /\ t.peer_finished = Some(VerifyData(C, Peer(C.who)))
             /\ C.key_block # Null \/ C.session.master # Null
      PROVE  ClientState(cfg, t)
    <2>1. /\ t.n = C.n /\ t.wkey = C.wkey /\ t.who = "client" /\ t.state = state /\ t.next_state = C.next_state
          /\ t.cr = C.cr /\ t.sr = C.sr /\ t.hit = C.hit /\ t.session = C.session /\ t.cipher = C.cipher
          /\ t.previous_client_finished = C.previous_client_finished
          /\ t.previous_server_finished = C.previous_server_finished
          /\ t.handshake_hash = C.handshake_hash /\ t.handshake_transcript = C.handshake_transcript
          /\ t.frozen = C.frozen /\ t.reuse_message = Null /\ Same(C, t)
        <3>1. /\ t.n = C.n /\ t.wkey = C.wkey /\ t.who = C.who /\ t.state = C.state /\ t.next_state = C.next_state
              /\ t.cr = C.cr /\ t.sr = C.sr /\ t.hit = C.hit /\ t.session = C.session /\ t.cipher = C.cipher
            BY <1>4, ZenonT(60) DEF Changes, Fields
        <3>2. /\ t.previous_client_finished = C.previous_client_finished
              /\ t.previous_server_finished = C.previous_server_finished
              /\ t.handshake_hash = C.handshake_hash /\ t.handshake_transcript = C.handshake_transcript
              /\ t.frozen = C.frozen /\ t.reuse_message = C.reuse_message
            BY <1>4 DEF Changes, Fields
        <3> QED BY <1>1, <3>1, <3>2 DEF Same
    <2>2. ClientPlace(t) = state /\ Position(t) = state
        BY <1>2, <2>1 DEF Verifying, ClientPlace, Position, ReadStates
    <2>3. Peer(C.who) = "server"
        BY <1>1 DEF Peer, Endpoint
    <2>4. CASE state = "CR_SRVR_HELLO"
        <3>1. ClientHoping(C)
            BY <1>1, <1>2, <2>4 DEF ClientState
        <3>2. OldKeys(C) /\ C.n # 1 /\ C.n >= 1 /\ C.cr = C.n
            BY <1>4, <3>1 DEF ClientHoping
        <3>3. t.rkey = KeyOf("server", C)
            BY <1>4, <2>3, <3>2 DEF OldKeys, KeyOf
        <3>4. Number(t.rkey) = t.n /\ t.n >= 2
            BY <1>1, <2>1, <3>2, <3>3, NumberOf
        <3>5. ClientHoping(t)
            BY <1>4, <2>1, <3>1, <3>4 DEF ClientHoping
        <3> QED BY <1>1, <2>1, <2>2, <2>4, <3>5, ClientStateIs
    <2>5. CASE state \in ClientAsks
        <3>1. ClientAsking(C)
            BY <1>1, <1>2, <2>5 DEF ClientState
        <3> QED BY <1>4, <3>1 DEF ClientAsking, OldKeys
    <2>6. CASE state \in {"CR_SESSION_TICKET", "CR_FINISHED"}
        <3>1. ClientAwaiting(C)
            BY <1>1, <1>2, <2>6 DEF ClientState
        <3>2. PICK h : (IF Position(C) = "CR_SESSION_TICKET" THEN Before(C, h) ELSE Ready(C, h)) /\ HashIs(C, h)
            BY <3>1 DEF ClientAwaiting
        <3>3. C.handshake_hash = Some(h)
            BY <3>2 DEF HashIs
        <3>4. VerifyData(C, "server") = Fin("server", C, h)
            BY <3>3, VerifyDataIs
        <3>5. /\ Keys(t) = Keys(C) /\ \A who : KeyOf(who, t) = KeyOf(who, C)
              /\ \A who, k : Fin(who, t, k) = Fin(who, C, k)
            BY <2>1, SameKeys
        <3>6. t.key_block = Keys(t) /\ t.rkey = KeyOf("server", t)
            BY <1>4, <2>3, <3>1, <3>5, NoKeys DEF ClientAwaiting, KeyOf
        <3>7. CcsRead(t, h)
            BY <1>1, <1>4, <2>1, <2>3, <3>4, <3>5, <3>6 DEF CcsRead
        <3>8. (IF Position(t) = "CR_SESSION_TICKET" THEN Before(t, h) ELSE Ready(t, h)) /\ HashIs(t, h)
            BY <1>2, <2>1, <2>2, <3>2, <3>3, SameReady DEF HashIs
        <3>9. ClientAwaiting(t)
            BY <1>4, <2>1, <3>1, <3>5, <3>7, <3>8 DEF ClientAwaiting
        <3> QED BY <1>1, <2>1, <2>2, <2>6, <3>9, ClientStateIs
    <2>7. CASE state = "Established"
        <3>1. ClientDone(C)
            BY <1>1, <1>2, <2>7 DEF ClientState
        <3>2. Number(C.rkey) = C.n
            BY <3>1, NumberOf DEF ClientDone, Complete
        <3> QED BY <1>1, <3>2
    <2>8. CASE state \in {"SR_CLNT_HELLO", "SR_CERT", "SR_KEY_EXCH", "SR_CERT_VRFY", "SR_FINISHED"}
        BY <1>1, <2>1, <2>2, <2>8, ClientStateIs
    <2> QED BY <2>4, <2>5, <2>6, <2>7, <2>8 DEF ReadStates, ClientAsks
<1> QED BY <1>1, <1>3, <1>4 DEF t

-----------------------------------------------------------------------------
(* The server, handler by handler. *)

LEMMA PositionIs ==
    ASSUME NEW x
    PROVE  /\ x.state # "FLUSH" => Position(x) = x.state
           /\ x.state = "FLUSH" => Position(x) = x.next_state
    BY DEF Position

LEMMA ServerStateIs ==
    ASSUME NEW x, x.cr \in Nat, NEW p, p = Position(x),
           \/ p \in {"BEFORE", "ACCEPT", "SR_CLNT_HELLO", "SW_HELLO_VERIFY"} /\ ServerHearing(x)
           \/ p = "SW_SRVR_HELLO" /\ ServerGreeting(x)
           \/ p \in ServerAsksFor /\ ServerAsking(x)
           \/ p \in {"SR_CERT_VRFY", "SR_FINISHED"} /\ ~x.hit /\ ServerAwaiting(x)
           \/ p \in {"SW_SESSION_TICKET", "SW_CHANGE", "SW_FINISHED"} /\ ServerAnswering(x)
           \/ p = "SR_FINISHED" /\ x.hit /\ ServerResuming(x)
           \/ p \in {"ST_OK", "Established", "RENEGOTIATE", "SW_HELLO_REQ"} /\ ServerDone(x)
           \/ p \in {"CR_SRVR_HELLO", "CR_HELLO_VERIFY", "CR_CERT", "CR_CERT_STATUS", "CR_KEY_EXCH", "CR_CERT_REQ",
                     "CR_SRVR_DONE", "CR_SESSION_TICKET", "CR_FINISHED"}
    PROVE  ServerState(x)
    BY DEF ServerState, ServerAsksFor

ServerAt(S, state) == IsSsl(S, "server") /\ S.state = state /\ ServerState(S)

LEMMA ReadyHellos ==
    ASSUME NEW x, NEW h, Ready(x, h)
    PROVE  Hellos(x, h)
<1>1. CASE Before(x, h)
    BY <1>1 DEF Before
<1>2. CASE \E g, m : Before(x, g) /\ m.mt = "NewSessionTicket" /\ h = Append(g, m)
    <2>1. PICK g, m : Before(x, g) /\ h = Append(g, m)
        BY <1>2
    <2> QED BY <2>1, HellosAppend DEF Before
<1> QED BY <1>1, <1>2 DEF Ready

LEMMA CrFin ==
    ASSUME NEW who, NEW x, NEW h
    PROVE  Cr(Fin(who, x, h)) = h[1].body.cr
    BY DEF Cr, Fin, Message, Some

LEMMA CompleteCr ==
    ASSUME NEW x, Complete(x)
    PROVE  /\ Number(x.rkey) = x.cr /\ Number(x.wkey) = x.cr
           /\ Cr(x.previous_server_finished[1]) = x.cr
<1>1. PICK h : Ready(x, h) /\ x.previous_server_finished = Some(Fin("server", x, h))
    BY DEF Complete
<1>2. h[1].body.cr = x.cr
    BY <1>1, ReadyHellos DEF Hellos
<1>3. Cr(x.previous_server_finished[1]) = x.cr
    BY <1>1, <1>2, CrFin, SomeIs
<1> QED BY <1>3, NumberOf DEF Complete

LEMMA ServerFrame ==
    ASSUME NEW S, NEW t, ServerState(S), Changes(S, t, Aside), Position(t) = Position(S),
           t.state = "SW_FINISHED" <=> S.state = "SW_FINISHED",
           t.state = "SW_SESSION_TICKET" <=> S.state = "SW_SESSION_TICKET"
    PROVE  ServerState(t)
<1>1. /\ t.n = S.n /\ t.rkey = S.rkey /\ t.wkey = S.wkey /\ t.key_block = S.key_block /\ t.who = S.who
      /\ t.cr = S.cr /\ t.sr = S.sr /\ t.hit = S.hit /\ t.session = S.session /\ t.cipher = S.cipher
      /\ t.change_cipher_spec = S.change_cipher_spec /\ t.peer_finished = S.peer_finished
      /\ t.previous_client_finished = S.previous_client_finished
      /\ t.previous_server_finished = S.previous_server_finished
      /\ t.handshake_hash = S.handshake_hash /\ t.handshake_transcript = S.handshake_transcript
      /\ t.frozen = S.frozen /\ t.reuse_message = S.reuse_message /\ Same(S, t)
    BY AsideKeeps
<1>2. HasHashed(S) => HasHashed(t)
    BY <1>1, SameHasHashed
<1>3. \A h : (HashIs(S, h) => HashIs(t, h)) /\ (CcsRead(S, h) => CcsRead(t, h))
    BY <1>1, SameHash
<1>4. \A h : (Before(t, h) <=> Before(S, h)) /\ (Ready(t, h) <=> Ready(S, h))
    BY <1>1, SameReady
<1>5. /\ Keys(t) = Keys(S) /\ \A who : KeyOf(who, t) = KeyOf(who, S)
      /\ \A who, h : Fin(who, t, h) = Fin(who, S, h) /\ Ended(who, t, h) = Ended(who, S, h)
      /\ \A h : Hellos(t, h) <=> Hellos(S, h)
    BY <1>1, SameKeys
<1>6. ServerOld(S) => ServerOld(t)
    BY <1>1 DEF ServerOld
<1>7. ServerBehind(S) => ServerBehind(t)
    BY <1>1 DEF ServerBehind
<1>8. ServerHearing(S) => ServerHearing(t)
    BY <1>1 DEF ServerHearing
<1>9. ServerGreeting(S) => ServerGreeting(t)
    BY <1>1, <1>6, <1>7 DEF ServerGreeting
<1>10. ServerAsking(S) => ServerAsking(t)
    BY <1>1, <1>2, <1>6, <1>7 DEF ServerAsking
<1>11. ServerAwaiting(S) => ServerAwaiting(t)
    <2>1. SUFFICES ASSUME ServerAwaiting(S) PROVE ServerAwaiting(t)
        OBVIOUS
    <2>2. PICK h : Hellos(S, h) /\ HashIs(S, h) /\ (S.change_cipher_spec => CcsRead(S, h))
        BY <2>1 DEF ServerAwaiting
    <2>3. Hellos(t, h) /\ HashIs(t, h) /\ (t.change_cipher_spec => CcsRead(t, h))
        BY <1>1, <1>3, <1>5, <2>2
    <2> QED BY <1>1, <1>6, <2>1, <2>3 DEF ServerAwaiting
<1>12. ServerAnswering(S) => ServerAnswering(t)
    <2>1. SUFFICES ASSUME ServerAnswering(S) PROVE ServerAnswering(t)
        OBVIOUS
    <2>2. PICK h : /\ IF S.state = "SW_SESSION_TICKET" THEN Before(S, h) ELSE Ready(S, h)
                   /\ S.handshake_hash = Some(h)
        BY <2>1 DEF ServerAnswering
    <2>3. /\ IF t.state = "SW_SESSION_TICKET" THEN Before(t, h) ELSE Ready(t, h)
          /\ t.handshake_hash = Some(h)
        BY <1>1, <1>4, <2>2
    <2> QED BY <1>1, <1>5, <1>6, <2>1, <2>3 DEF ServerAnswering
<1>13. ServerResuming(S) => ServerResuming(t)
    <2>1. SUFFICES ASSUME ServerResuming(S) PROVE ServerResuming(t)
        OBVIOUS
    <2>2. PICK h : /\ Ready(S, h) /\ S.previous_server_finished = Some(Fin("server", S, h))
                   /\ HashIs(S, Ended("server", S, h))
                   /\ S.change_cipher_spec => CcsRead(S, Ended("server", S, h))
        BY <2>1 DEF ServerResuming
    <2>3. /\ Ready(t, h) /\ t.previous_server_finished = Some(Fin("server", t, h))
          /\ HashIs(t, Ended("server", t, h))
          /\ t.change_cipher_spec => CcsRead(t, Ended("server", t, h))
        BY <1>1, <1>3, <1>4, <1>5, <2>2
    <2> QED BY <1>1, <1>5, <2>1, <2>3 DEF ServerResuming
<1>14. ServerDone(S) => ServerDone(t)
    BY <1>1, SameComplete DEF ServerDone
<1> QED BY <1>1, <1>8, <1>9, <1>10, <1>11, <1>12, <1>13, <1>14 DEF ServerState

(* A completed handshake. *)
LEMMA DoneOn ==
    ASSUME NEW S, NEW t, ServerDone(S), S.cr \in Nat, Changes(S, t, Aside \union {"key_block"}),
           Position(t) \in {"ST_OK", "Established", "RENEGOTIATE", "SW_HELLO_REQ"},
           Position(t) # "ST_OK" => t.key_block = Null
    PROVE  ServerState(t)
<1>1. /\ t.rkey = S.rkey /\ t.wkey = S.wkey /\ t.who = S.who
      /\ t.cr = S.cr /\ t.change_cipher_spec = S.change_cipher_spec
      /\ t.previous_client_finished = S.previous_client_finished
      /\ t.previous_server_finished = S.previous_server_finished
      /\ t.handshake_hash = S.handshake_hash /\ Same(S, t)
    BY DEF Changes, Fields, Aside, Same
<1>2. ServerDone(t)
    BY <1>1, SameComplete DEF ServerDone
<1> QED BY <1>1, <1>2, ServerStateIs

LEMMA AgreeAccept ==
    ASSUME NEW S, NEW state \in {"BEFORE", "ACCEPT", "RENEGOTIATE"}, ServerAt(S, state)
    PROVE  LET t == Accept(S) IN Fails(S, t) \/ ServerState(t)
<1> DEFINE t == Accept(S)
<1>1. Position(S) = state /\ DOMAIN S = Fields /\ S.cr \in Nat /\ S.state = state
    BY PositionIs DEF ServerAt, IsSsl, ServerState
<1>2. \/ Fails(S, t)
      \/ /\ S.state = "RENEGOTIATE" /\ Changes(S, t, {"renegotiate", "state"}) /\ t.state = "SW_HELLO_REQ"
      \/ /\ S.state # "RENEGOTIATE" /\ Changes(S, t, {"handshake_transcript", "frozen", "state", "n", "bbio"})
         /\ t.handshake_transcript = Some(<< >>) /\ ~t.frozen /\ t.state = "SR_CLNT_HELLO"
    BY <1>1, AcceptSheet
<1> HIDE DEF t
<1>3. CASE S.state = "RENEGOTIATE" /\ Changes(S, t, {"renegotiate", "state"}) /\ t.state = "SW_HELLO_REQ"
    <2>1. ServerDone(S) /\ S.key_block = Null
        BY <1>1, <1>3 DEF ServerAt, ServerState, ServerDone
    <2>2. Changes(S, t, Aside \union {"key_block"}) /\ t.key_block = Null
        BY <1>3, <2>1 DEF Changes, Fields, Aside
    <2>3. Position(t) = "SW_HELLO_REQ"
        BY <1>3, PositionIs
    <2> QED BY <1>1, <2>1, <2>2, <2>3, DoneOn DEF t
<1>4. CASE /\ S.state # "RENEGOTIATE" /\ Changes(S, t, {"handshake_transcript", "frozen", "state", "n", "bbio"})
           /\ t.handshake_transcript = Some(<< >>) /\ ~t.frozen /\ t.state = "SR_CLNT_HELLO"
    <2>1. ServerHearing(S)
        BY <1>1, <1>4 DEF ServerAt, ServerState
    <2>2. /\ t.rkey = S.rkey /\ t.wkey = S.wkey /\ t.key_block = S.key_block /\ t.cr = S.cr
          /\ t.change_cipher_spec = S.change_cipher_spec
          /\ t.previous_server_finished = S.previous_server_finished
        BY <1>4 DEF Changes, Fields
    <2>3. ServerHearing(t) /\ Position(t) = "SR_CLNT_HELLO"
        BY <1>4, <2>1, <2>2, PositionIs DEF ServerHearing
    <2> QED BY <1>1, <2>2, <2>3, ServerStateIs DEF t
<1> QED BY <1>2, <1>3, <1>4 DEF t

LEMMA AgreeHelloRequest ==
    ASSUME NEW S, ServerAt(S, "SW_HELLO_REQ")
    PROVE  ServerState(ssl3_send_hello_request(S))
<1> DEFINE t == ssl3_send_hello_request(S)
<1>1. Position(S) = "SW_HELLO_REQ" /\ DOMAIN S = Fields /\ S.cr \in Nat /\ ServerDone(S)
    BY PositionIs DEF ServerAt, IsSsl, ServerState
<1>2. Changes(S, t, {"wbuf", "state", "next_state"}) /\ t.state = "FLUSH" /\ t.next_state = "ST_OK"
    BY <1>1, HelloRequestSheet
<1> HIDE DEF t
<1>3. Changes(S, t, Aside \union {"key_block"}) /\ Position(t) = "ST_OK"
    BY <1>2, PositionIs DEF Changes, Fields, Aside
<1> QED BY <1>1, <1>3, DoneOn DEF t

LEMMA AgreeAccepted ==
    ASSUME NEW S, ServerAt(S, "ST_OK")
    PROVE  LET t == Accepted(S) IN Fails(S, t) \/ ServerState(t)
<1> DEFINE t == Accepted(S)
<1>1. Position(S) = "ST_OK" /\ DOMAIN S = Fields /\ S.cr \in Nat /\ ServerDone(S)
    BY PositionIs DEF ServerAt, IsSsl, ServerState
<1>2. \/ Fails(S, t)
      \/ /\ Changes(S, t, {"state", "key_block", "bbio", "wbuf", "renegotiate", "new_session", "done"})
         /\ t.state = "Established" /\ t.key_block = Null
    BY <1>1, AcceptedSheet
<1> HIDE DEF t
<1>3. CASE /\ Changes(S, t, {"state", "key_block", "bbio", "wbuf", "renegotiate", "new_session", "done"})
           /\ t.state = "Established" /\ t.key_block = Null
    <2>1. Changes(S, t, Aside \union {"key_block"}) /\ Position(t) = "Established"
        BY <1>3, PositionIs DEF Changes, Fields, Aside
    <2> QED BY <1>1, <1>3, <2>1, DoneOn DEF t
<1> QED BY <1>2, <1>3 DEF t

(* Renegotiation: of the application, or of the client. *)
LEMMA AgreeServerRenegotiate ==
    ASSUME NEW S, NEW t, ServerAt(S, "Established"), Changes(S, t, Aside), t.state \in {"RENEGOTIATE", "ACCEPT"}
    PROVE  ServerState(t)
<1>1. Position(S) = "Established" /\ S.cr \in Nat /\ ServerDone(S) /\ S.key_block = Null
    BY PositionIs DEF ServerAt, ServerState, ServerDone
<1>2. /\ t.rkey = S.rkey /\ t.wkey = S.wkey /\ t.key_block = S.key_block /\ t.cr = S.cr
      /\ t.change_cipher_spec = S.change_cipher_spec
      /\ t.previous_server_finished = S.previous_server_finished
    BY AsideKeeps
<1>3. Position(t) = t.state
    BY PositionIs
<1>4. CASE t.state = "RENEGOTIATE"
    <2>1. Changes(S, t, Aside \union {"key_block"})
        BY DEF Changes
    <2> QED BY <1>1, <1>2, <1>3, <1>4, <2>1, DoneOn
<1>5. CASE t.state = "ACCEPT"
    <2>1. Number(S.rkey) = S.cr /\ Number(S.wkey) = S.cr /\ Cr(S.previous_server_finished[1]) = S.cr
        BY <1>1, CompleteCr DEF ServerDone
    <2>2. ServerHearing(t)
        BY <1>1, <1>2, <1>3, <1>5, <2>1 DEF ServerHearing, ServerDone
    <2> QED BY <1>1, <1>2, <1>3, <1>5, <2>2, ServerStateIs
<1> QED BY <1>4, <1>5

LEMMA AgreeGetClientHello ==
    ASSUME NEW S, NEW s, NEW m, ServerAt(S, "SR_CLNT_HELLO"), HasRead(S, s, m), S.reuse_message = Null,
           m.mt = "ClientHello" => m.body.cr \in Nat /\ S.cr < m.body.cr /\ Digest(m).body.cr = m.body.cr
    PROVE  LET t == ssl3_get_client_hello(s, m) IN Fails(s, t) \/ ServerState(t)
<1> DEFINE t == ssl3_get_client_hello(s, m)
<1>1. Position(S) = "SR_CLNT_HELLO" /\ DOMAIN S = Fields /\ S.cr \in Nat /\ ServerHearing(S)
    BY PositionIs DEF ServerAt, IsSsl, ServerState
<1>2. /\ DOMAIN s = Fields /\ s.rkey = S.rkey /\ s.wkey = S.wkey /\ s.key_block = S.key_block /\ s.cr = S.cr
      /\ s.change_cipher_spec = S.change_cipher_spec
      /\ s.previous_server_finished = S.previous_server_finished
    BY <1>1, ReadKeeps
<1>3. s.handshake_transcript = Some(<<Digest(m)>>)
    <2>1. s.handshake_transcript = Kept(S, m) /\ S.handshake_transcript = Some(<< >>) /\ ~S.frozen
        BY <1>1 DEF HasRead, ServerHearing
    <2> QED BY <2>1, HashedSome, AppendOne DEF Kept
<1>4. SUFFICES ASSUME ~Fails(s, t) PROVE ServerState(t)
    OBVIOUS
<1>5. /\ m.mt = "ClientHello"
      /\ \/ Changes(s, t, {"state", "ccs_ok"}) /\ t.state = "SW_HELLO_VERIFY"
         \/ /\ Changes(s, t, {"cr", "sr", "cipher", "ticket_expected", "hit", "session", "handshake_hash",
                              "status_expected", "renegotiate", "handshake_transcript", "state", "ccs_ok"})
            /\ t.state = "SW_SRVR_HELLO" /\ t.cr = m.body.cr /\ t.handshake_hash = s.handshake_transcript
            /\ ~t.hit => t.session.master = Null
    BY <1>2, <1>4, GetClientHelloSheet, ZenonT(60) DEF NoSession
<1> HIDE DEF t
<1>6. CASE Changes(s, t, {"state", "ccs_ok"}) /\ t.state = "SW_HELLO_VERIFY"
    <2>1. /\ t.rkey = S.rkey /\ t.wkey = S.wkey /\ t.key_block = S.key_block /\ t.cr = S.cr
          /\ t.change_cipher_spec = S.change_cipher_spec
          /\ t.previous_server_finished = S.previous_server_finished
        BY <1>2, <1>6 DEF Changes, Fields
    <2>2. ServerHearing(t) /\ Position(t) = "SW_HELLO_VERIFY"
        BY <1>1, <1>6, <2>1, PositionIs DEF ServerHearing
    <2> QED BY <1>1, <2>1, <2>2, ServerStateIs
<1>7. CASE /\ Changes(s, t, {"cr", "sr", "cipher", "ticket_expected", "hit", "session", "handshake_hash",
                             "status_expected", "renegotiate", "handshake_transcript", "state", "ccs_ok"})
           /\ t.state = "SW_SRVR_HELLO" /\ t.cr = m.body.cr /\ t.handshake_hash = s.handshake_transcript
           /\ ~t.hit => t.session.master = Null
    <2>1. /\ t.rkey = S.rkey /\ t.wkey = S.wkey /\ t.key_block = S.key_block
          /\ t.change_cipher_spec = S.change_cipher_spec
          /\ t.previous_server_finished = S.previous_server_finished
        BY <1>2, <1>7 DEF Changes, Fields
    <2>2. t.cr \in Nat /\ S.cr < t.cr /\ t.cr >= 1
        BY <1>1, <1>5, <1>7
    <2>3. ServerOld(t) /\ ServerBehind(t) /\ t.key_block = Null /\ ~t.change_cipher_spec
        BY <1>1, <2>1, <2>2 DEF ServerHearing, ServerOld, ServerBehind
    <2>4. t.handshake_hash = Some(<<Digest(m)>>) /\ Digest(m).body.cr = t.cr
        BY <1>3, <1>5, <1>7
    <2>5. ServerGreeting(t) /\ Position(t) = "SW_SRVR_HELLO"
        BY <1>7, <2>3, <2>4, PositionIs DEF ServerGreeting
    <2> QED BY <2>2, <2>5, ServerStateIs
<1> QED BY <1>5, <1>6, <1>7

LEMMA AgreeVerifyRequest ==
    ASSUME NEW S, ServerAt(S, "SW_HELLO_VERIFY")
    PROVE  ServerState(ssl3_send_dtls_hello_verify_request(S))
<1> DEFINE t == ssl3_send_dtls_hello_verify_request(S)
<1>1. Position(S) = "SW_HELLO_VERIFY" /\ DOMAIN S = Fields /\ S.cr \in Nat /\ ServerHearing(S)
    BY PositionIs DEF ServerAt, IsSsl, ServerState
<1>2. /\ Changes(S, t, {"wbuf", "handshake_hash", "handshake_transcript", "frozen", "state", "next_state"})
      /\ t.handshake_transcript = Some(<< >>) /\ ~t.frozen
      /\ t.state = "FLUSH" /\ t.next_state = "SR_CLNT_HELLO"
    BY <1>1, VerifyRequestSheet
<1> HIDE DEF t
<1>3. /\ t.rkey = S.rkey /\ t.wkey = S.wkey /\ t.key_block = S.key_block /\ t.cr = S.cr
      /\ t.change_cipher_spec = S.change_cipher_spec
      /\ t.previous_server_finished = S.previous_server_finished
    BY <1>2 DEF Changes, Fields
<1>4. ServerHearing(t) /\ Position(t) = "SR_CLNT_HELLO"
    BY <1>1, <1>2, <1>3, PositionIs DEF ServerHearing
<1> QED BY <1>1, <1>3, <1>4, ServerStateIs DEF t

LEMMA AgreeSendServerHello ==
    ASSUME NEW S, ServerAt(S, "SW_SRVR_HELLO")
    PROVE  ServerState(ssl3_send_server_hello(S))
<1> DEFINE t == ssl3_send_server_hello(S)
           d == Digest(ServerHello(S))
<1>1. Position(S) = "SW_SRVR_HELLO" /\ DOMAIN S = Fields /\ S.cr \in Nat /\ ServerGreeting(S)
    BY PositionIs DEF ServerAt, IsSsl, ServerState
<1>2. /\ Changes(S, t, {"wbuf", "handshake_hash", "handshake_transcript", "renegotiate", "state", "ccs_ok"})
      /\ t.handshake_hash = Hashed(S.handshake_hash, ServerHello(S))
      /\ ~S.hit => t.state = "SW_CERT"
      /\ S.hit => t.state \in {"SW_SESSION_TICKET", "SW_CHANGE"}
    BY <1>1, SendServerHelloSheet
<1> HIDE DEF t
<1>3. /\ t.rkey = S.rkey /\ t.wkey = S.wkey /\ t.key_block = S.key_block /\ t.cr = S.cr /\ t.sr = S.sr
      /\ t.change_cipher_spec = S.change_cipher_spec /\ t.hit = S.hit /\ t.session = S.session
      /\ t.previous_server_finished = S.previous_server_finished
    BY <1>2 DEF Changes, Fields
<1>4. PICK hello : S.handshake_hash = Some(<<hello>>) /\ hello.body.cr = S.cr
    BY <1>1 DEF ServerGreeting
<1>5. t.handshake_hash = Some(<<hello, d>>)
    <2>1. Hashed(Some(<<hello>>), ServerHello(S)) = Some(Append(<<hello>>, d))
        BY HashedSome
    <2>2. Append(<<hello>>, d) = <<hello, d>>
        BY AppendTwo
    <2> QED BY <1>2, <1>4, <2>1, <2>2
<1>6. d.body.sr = S.sr
    BY DigestHello
<1>7. Hellos(t, <<hello, d>>) /\ Len(<<hello, d>>) = 2
    BY <1>3, <1>4, <1>6, AppendTwo DEF Hellos
<1>8. ServerOld(t) /\ ServerBehind(t) /\ t.key_block = Null /\ ~t.change_cipher_spec
    BY <1>1, <1>3 DEF ServerGreeting, ServerOld, ServerBehind
<1>9. CASE ~S.hit
    <2>1. ServerAsking(t)
        BY <1>1, <1>3, <1>5, <1>7, <1>8, <1>9 DEF ServerAsking, HasHashed, ServerGreeting
    <2>2. Position(t) = "SW_CERT"
        BY <1>2, <1>9, PositionIs
    <2> QED BY <1>1, <1>3, <2>1, <2>2, ServerStateIs DEF t, ServerAsksFor
<1>10. CASE S.hit
    <2>1. Before(t, <<hello, d>>)
        BY <1>3, <1>7, <1>10 DEF Before
    <2>2. ServerAnswering(t)
        BY <1>2, <1>3, <1>5, <1>8, <1>10, <2>1 DEF ServerAnswering, ServerBehind, Ready
    <2>3. Position(t) \in {"SW_SESSION_TICKET", "SW_CHANGE"}
        BY <1>2, <1>10, PositionIs
    <2> QED BY <1>1, <1>3, <2>2, <2>3, ServerStateIs DEF t
<1> QED BY <1>9, <1>10

(* The certificates and the key exchange. *)
LEMMA StillAsking ==
    ASSUME NEW S, NEW t, ServerAsking(S), S.cr \in Nat, HasHashed(t), Position(t) \in ServerAsksFor,
           Changes(S, t, {"state", "next_state", "ccs_ok", "handshake_transcript", "wbuf", "handshake_hash",
                          "cert_request", "reuse_message", "session"}),
           t.session.master = S.session.master
    PROVE  ServerState(t)
<1>1. /\ t.rkey = S.rkey /\ t.wkey = S.wkey /\ t.key_block = S.key_block /\ t.cr = S.cr /\ t.hit = S.hit
      /\ t.change_cipher_spec = S.change_cipher_spec
      /\ t.previous_server_finished = S.previous_server_finished
    BY DEF Changes, Fields
<1>2. ServerOld(t) /\ ServerBehind(t)
    BY <1>1 DEF ServerAsking, ServerOld, ServerBehind
<1>3. ServerAsking(t)
    BY <1>1, <1>2 DEF ServerAsking
<1>4. Position(t) \in ServerAsksFor /\ t.cr \in Nat
    BY <1>1
<1> QED BY <1>3, <1>4, ServerStateIs

LEMMA AgreeSendsOr ==
    ASSUME NEW S, NEW t, NEW m, NEW state \in ServerAsksFor, ServerAt(S, state), SendsOr(S, t, m),
           t.state \in ServerAsksFor
    PROVE  ServerState(t)
<1>1. Position(S) = state /\ S.cr \in Nat /\ ServerAsking(S)
    BY PositionIs DEF ServerAt, ServerState, ServerAsksFor
<1>2. Position(t) = t.state
    BY PositionIs DEF ServerAsksFor
<1>3. /\ Changes(S, t, {"state", "next_state", "ccs_ok", "handshake_transcript", "wbuf", "handshake_hash",
                        "cert_request", "reuse_message", "session"})
      /\ t.session = S.session /\ t.cr = S.cr /\ t.sr = S.sr
      /\ t.handshake_hash = S.handshake_hash \/ t.handshake_hash = Hashed(S.handshake_hash, m)
    BY DEF SendsOr, Changes, Fields
<1>4. HasHashed(t)
    <2>1. CASE t.handshake_hash = S.handshake_hash
        BY <1>1, <1>3, <2>1 DEF ServerAsking, HasHashed, Hellos
    <2>2. CASE t.handshake_hash = Hashed(S.handshake_hash, m)
        BY <1>1, <1>3, <2>2, HasHashedMore DEF ServerAsking
    <2> QED BY <1>3, <2>1, <2>2
<1> QED BY <1>1, <1>2, <1>3, <1>4, StillAsking

LEMMA AgreeSendServerDone ==
    ASSUME NEW S, ServerAt(S, "SW_SRVR_DONE")
    PROVE  ServerState(ssl3_send_server_done(S))
<1> DEFINE t == ssl3_send_server_done(S)
           m == Message("ServerDone", [none |-> TRUE])
<1>1. Position(S) = "SW_SRVR_DONE" /\ DOMAIN S = Fields /\ S.cr \in Nat /\ ServerAsking(S)
    BY PositionIs DEF ServerAt, IsSsl, ServerState, ServerAsksFor
<1>2. /\ Changes(S, t, {"state", "next_state", "handshake_transcript", "wbuf", "handshake_hash"})
      /\ t.handshake_hash = Hashed(S.handshake_hash, m)
      /\ t.state = "FLUSH" /\ t.next_state = "SR_CERT"
    BY <1>1, SendServerDoneSheet
<1> HIDE DEF t, m
<1>3. /\ Changes(S, t, {"state", "next_state", "ccs_ok", "handshake_transcript", "wbuf", "handshake_hash",
                        "cert_request", "reuse_message", "session"})
      /\ t.session = S.session /\ t.cr = S.cr /\ t.sr = S.sr /\ Position(t) = "SR_CERT"
    BY <1>2, PositionIs DEF Changes, Fields
<1>4. HasHashed(t)
    BY <1>1, <1>2, <1>3, HasHashedMore DEF ServerAsking
<1> QED BY <1>1, <1>3, <1>4, StillAsking DEF ServerAsksFor, t

LEMMA AgreeSkipClient ==
    ASSUME NEW S, ServerAt(S, "SR_CERT")
    PROVE  ServerState(SkipClientCertificate(S))
<1> DEFINE t == SkipClientCertificate(S)
<1>1. DOMAIN S = Fields
    BY DEF ServerAt, IsSsl
<1>2. Changes(S, t, {"state", "ccs_ok"}) /\ t.state = "SR_KEY_EXCH"
    BY <1>1, SkipClientCertificateSheet
<1> HIDE DEF t
<1>3. SendsOr(S, t, NoMessage)
    BY <1>2 DEF SendsOr, Changes
<1> QED BY <1>2, <1>3, AgreeSendsOr DEF ServerAsksFor, t

LEMMA AgreeGetClientCertificate ==
    ASSUME NEW S, NEW s, NEW m, ServerAt(S, "SR_CERT"), HasRead(S, s, m)
    PROVE  LET t == ssl3_get_client_certificate(s, m) IN Fails(s, t) \/ ServerState(t)
<1> DEFINE t == ssl3_get_client_certificate(s, m)
<1>1. /\ Position(S) = "SR_CERT" /\ DOMAIN S = Fields /\ DOMAIN S.session = SessionFields /\ S.cr \in Nat
      /\ ServerAsking(S)
    BY PositionIs DEF ServerAt, IsSsl, ServerState, ServerAsksFor
<1>2. /\ DOMAIN s = Fields /\ s.session = S.session /\ s.cr = S.cr /\ s.sr = S.sr
      /\ Changes(S, s, {"reuse_message", "handshake_hash", "handshake_transcript"})
    BY <1>1, ReadKeeps
<1>3. SUFFICES ASSUME ~Fails(s, t) PROVE ServerState(t)
    OBVIOUS
<1>4. /\ Changes(s, t, {"state", "ccs_ok", "session", "handshake_transcript"}) /\ t.state = "SR_KEY_EXCH"
      /\ t.session = IF m.body.chain THEN [s.session EXCEPT !.peer = TRUE] ELSE s.session
    BY <1>1, <1>2, <1>3, GetClientCertificateSheet
<1> HIDE DEF t
<1>5. t.session.master = S.session.master
    BY <1>1, <1>2, <1>4 DEF SessionFields
<1>6. Changes(S, t, {"state", "next_state", "ccs_ok", "handshake_transcript", "wbuf", "handshake_hash",
                     "cert_request", "reuse_message", "session"})
    BY <1>2, <1>4 DEF Changes
<1>7. HasHashed(t)
    <2>1. HasHashed(s)
        BY <1>1, HasHashedRead DEF ServerAsking
    <2>2. t.handshake_hash = s.handshake_hash /\ t.cr = s.cr /\ t.sr = s.sr
        BY <1>4 DEF Changes, Fields
    <2> QED BY <2>1, <2>2 DEF HasHashed, Hellos
<1>8. Position(t) = "SR_KEY_EXCH"
    BY <1>4, PositionIs
<1> QED BY <1>1, <1>5, <1>6, <1>7, <1>8, StillAsking DEF ServerAsksFor

LEMMA AgreeGetClientKeyExchange ==
    ASSUME NEW S, NEW s, NEW m, ServerAt(S, "SR_KEY_EXCH"), HasRead(S, s, m)
    PROVE  LET t == ssl3_get_client_key_exchange(s, m) IN Fails(s, t) \/ ServerState(t)
<1> DEFINE t == ssl3_get_client_key_exchange(s, m)
<1>1. /\ Position(S) = "SR_KEY_EXCH" /\ DOMAIN S = Fields /\ DOMAIN S.session = SessionFields /\ S.cr \in Nat
      /\ ServerAsking(S)
    BY PositionIs DEF ServerAt, IsSsl, ServerState, ServerAsksFor
<1>2. /\ DOMAIN s = Fields /\ s.session = S.session /\ s.cr = S.cr /\ s.sr = S.sr /\ s.reuse_message = Null
      /\ s.rkey = S.rkey /\ s.wkey = S.wkey /\ s.key_block = S.key_block /\ s.hit = S.hit
      /\ s.change_cipher_spec = S.change_cipher_spec
      /\ s.previous_server_finished = S.previous_server_finished
    BY <1>1, ReadKeeps
<1>3. SUFFICES ASSUME ~Fails(s, t) PROVE ServerState(t)
    OBVIOUS
<1>4. /\ Changes(s, t, {"state", "ccs_ok", "session", "handshake_transcript", "frozen", "cert_verify"})
      /\ t.state = "SR_CERT_VRFY"
    BY <1>1, <1>2, <1>3, GetClientKeyExchangeSheet
<1> HIDE DEF t
<1>5. /\ t.rkey = S.rkey /\ t.wkey = S.wkey /\ t.key_block = S.key_block /\ t.cr = S.cr /\ t.hit = S.hit
      /\ t.change_cipher_spec = S.change_cipher_spec /\ t.reuse_message = Null /\ t.sr = s.sr
      /\ t.previous_server_finished = S.previous_server_finished /\ t.handshake_hash = s.handshake_hash
    BY <1>2, <1>4 DEF Changes, Fields
<1>6. HasHashed(s)
    BY <1>1, HasHashedRead DEF ServerAsking
<1>7. PICK h : Hellos(s, h) /\ s.handshake_hash = Some(h)
    BY <1>6 DEF HasHashed
<1>8. Hellos(t, h) /\ HashIs(t, h)
    BY <1>2, <1>5, <1>7 DEF Hellos, HashIs
<1>9. ServerAwaiting(t) /\ ~t.hit
    BY <1>1, <1>5, <1>8 DEF ServerAsking, ServerAwaiting, ServerOld, ServerBehind
<1>10. Position(t) = "SR_CERT_VRFY"
    BY <1>4, PositionIs
<1> QED BY <1>1, <1>5, <1>9, <1>10, ServerStateIs

LEMMA AgreeGetCertVerify ==
    ASSUME NEW S, NEW s, NEW m, ServerAt(S, "SR_CERT_VRFY"), HasRead(S, s, m), S.reuse_message = Null
    PROVE  LET t == ssl3_get_cert_verify(s, m) IN Fails(s, t) \/ ServerState(t)
<1> DEFINE t == ssl3_get_cert_verify(s, m)
<1>1. /\ Position(S) = "SR_CERT_VRFY" /\ DOMAIN S = Fields /\ DOMAIN S.session = SessionFields /\ S.cr \in Nat
      /\ ServerAwaiting(S) /\ ~S.hit
    BY PositionIs DEF ServerAt, IsSsl, ServerState
<1>2. PICK h : Hellos(S, h) /\ HashIs(S, h) /\ (S.change_cipher_spec => CcsRead(S, h))
    BY <1>1 DEF ServerAwaiting
<1>3. /\ DOMAIN s = Fields /\ s.session = S.session /\ s.cr = S.cr /\ s.sr = S.sr /\ s.reuse_message = Null
      /\ s.rkey = S.rkey /\ s.wkey = S.wkey /\ s.key_block = S.key_block /\ s.hit = S.hit /\ s.who = S.who
      /\ s.change_cipher_spec = S.change_cipher_spec /\ s.peer_finished = S.peer_finished
      /\ s.previous_server_finished = S.previous_server_finished
    BY <1>1, ReadKeeps
<1>4. s.handshake_hash = Some(Append(h, Digest(m)))
    BY <1>2, ReadHash
<1>5. SUFFICES ASSUME ~Fails(s, t) PROVE ServerState(t)
    OBVIOUS
<1>6. /\ t.state = "SR_FINISHED"
      /\ \/ /\ Changes(s, t, {"state", "ccs_ok", "handshake_transcript", "reuse_message"})
            /\ t.reuse_message = Some(m)
         \/ /\ ~s.change_cipher_spec /\ Changes(s, t, {"state", "ccs_ok", "handshake_transcript", "session"})
            /\ t.session = [s.session EXCEPT !.proved = TRUE]
    BY <1>1, <1>3, <1>5, GetCertVerifySheet
<1> HIDE DEF t
<1>7. t.session.master = S.session.master
    <2>1. t.session = S.session \/ t.session = [S.session EXCEPT !.proved = TRUE]
        BY <1>3, <1>6 DEF Changes, Fields
    <2> QED BY <1>1, <2>1 DEF SessionFields
<1>8. /\ t.cr = S.cr /\ t.sr = S.sr /\ t.rkey = S.rkey /\ t.wkey = S.wkey /\ t.key_block = S.key_block
      /\ t.hit = S.hit /\ t.who = S.who /\ t.handshake_hash = s.handshake_hash
      /\ t.change_cipher_spec = S.change_cipher_spec /\ t.peer_finished = S.peer_finished
      /\ t.previous_server_finished = S.previous_server_finished
    BY <1>3, <1>6 DEF Changes, Fields
<1>9. Same(S, t)
    BY <1>7, <1>8 DEF Same
<1>10. /\ Keys(t) = Keys(S) /\ \A who : KeyOf(who, t) = KeyOf(who, S)
       /\ \A who, k : Fin(who, t, k) = Fin(who, S, k)
       /\ \A k : Hellos(t, k) <=> Hellos(S, k)
    BY <1>9, SameKeys
<1>11. Position(t) = "SR_FINISHED" /\ ~t.hit
    BY <1>1, <1>6, <1>8, PositionIs
<1>12. ServerOld(t)
    BY <1>1, <1>8 DEF ServerAwaiting, ServerOld
<1>13. CASE t.reuse_message = Some(m)
    <2>1. HashIs(t, h)
        BY <1>4, <1>8, <1>13, SomeIs DEF HashIs
    <2>2. t.change_cipher_spec => CcsRead(t, h)
        BY <1>2, <1>8, <1>10 DEF CcsRead
    <2>3. ServerAwaiting(t)
        BY <1>1, <1>2, <1>8, <1>10, <1>12, <2>1, <2>2 DEF ServerAwaiting
    <2> QED BY <1>1, <1>8, <1>11, <2>3, ServerStateIs
<1>14. CASE ~s.change_cipher_spec /\ Changes(s, t, {"state", "ccs_ok", "handshake_transcript", "session"})
    <2>1. t.reuse_message = Null /\ ~t.change_cipher_spec
        BY <1>3, <1>8, <1>14 DEF Changes, Fields
    <2>2. HashIs(t, Append(h, Digest(m)))
        BY <1>4, <1>8, <2>1 DEF HashIs
    <2>3. Hellos(t, Append(h, Digest(m)))
        BY <1>2, <1>10, HellosAppend
    <2>4. ServerAwaiting(t)
        BY <1>1, <1>8, <1>12, <2>1, <2>2, <2>3 DEF ServerAwaiting
    <2> QED BY <1>1, <1>8, <1>11, <2>4, ServerStateIs
<1> QED BY <1>6, <1>13, <1>14

LEMMA AgreeGetClientFinished ==
    ASSUME NEW S, NEW s, NEW m, ServerAt(S, "SR_FINISHED"), HasRead(S, s, m)
    PROVE  LET t == ssl3_get_client_finished(s, m) IN Fails(s, t) \/ ServerState(t)
<1> DEFINE t == ssl3_get_client_finished(s, m)
<1>1. Position(S) = "SR_FINISHED" /\ DOMAIN S = Fields /\ S.cr \in Nat /\ S.who = "server" /\ Peer("server") = "client"
    BY PositionIs DEF ServerAt, IsSsl, ServerState, Peer
<1>2. /\ DOMAIN s = Fields /\ s.session = S.session /\ s.cr = S.cr /\ s.sr = S.sr
      /\ s.rkey = S.rkey /\ s.wkey = S.wkey /\ s.key_block = S.key_block /\ s.hit = S.hit /\ s.who = S.who
      /\ s.change_cipher_spec = S.change_cipher_spec /\ s.peer_finished = S.peer_finished
      /\ s.previous_server_finished = S.previous_server_finished
    BY <1>1, ReadKeeps
<1>3. SUFFICES ASSUME ~Fails(s, t) PROVE ServerState(t)
    OBVIOUS
<1>4. /\ FinishedIsRight(s, m) /\ Changes(s, t, {"change_cipher_spec", "state", "previous_client_finished"})
      /\ t.previous_client_finished = Some(m) /\ ~t.change_cipher_spec
      /\ t.state = IF s.hit THEN "ST_OK" ELSE IF s.ticket_expected THEN "SW_SESSION_TICKET" ELSE "SW_CHANGE"
    BY <1>1, <1>2, <1>3, GetFinishedSheet DEF ssl3_get_client_finished, Endpoint
<1> HIDE DEF t
<1>5. /\ t.cr = S.cr /\ t.sr = S.sr /\ t.rkey = S.rkey /\ t.wkey = S.wkey /\ t.key_block = S.key_block
      /\ t.hit = S.hit /\ t.who = S.who /\ t.session = S.session /\ t.handshake_hash = s.handshake_hash
      /\ t.previous_server_finished = S.previous_server_finished
    BY <1>2, <1>4 DEF Changes, Fields
<1>6. Same(S, t)
    BY <1>5 DEF Same
<1>7. /\ Keys(t) = Keys(S) /\ \A who : KeyOf(who, t) = KeyOf(who, S)
      /\ \A who, k : Fin(who, t, k) = Fin(who, S, k) /\ Ended(who, t, k) = Ended(who, S, k)
      /\ \A k : Hellos(t, k) <=> Hellos(S, k)
    BY <1>6, SameKeys
<1>8. S.change_cipher_spec /\ S.peer_finished = Some(m)
    BY <1>2, <1>4 DEF FinishedIsRight
<1>9. CASE ~S.hit
    <2>1. ServerAwaiting(S)
        BY <1>1, <1>9 DEF ServerAt, ServerState
    <2>2. PICK h : Hellos(S, h) /\ HashIs(S, h) /\ (S.change_cipher_spec => CcsRead(S, h))
        BY <2>1 DEF ServerAwaiting
    <2>3. CcsRead(S, h) /\ m = Fin("client", S, h)
        BY <1>1, <1>8, <2>2, SomeIs DEF CcsRead
    <2>4. s.handshake_hash = Some(Append(h, Digest(m)))
        BY <2>2, ReadHash
    <2>5. t.handshake_hash = Some(Ended("client", t, h)) /\ t.previous_client_finished = Some(Fin("client", t, h))
        BY <1>4, <1>5, <1>7, <2>3, <2>4, DigestFin DEF Ended
    <2>6. Before(t, Ended("client", t, h))
        <3>1. Hellos(t, h) /\ Hellos(t, Ended("client", t, h))
            BY <1>7, <2>2, HellosAppend DEF Ended
        <3> QED BY <1>5, <1>9, <2>5, <3>1 DEF Before
    <2>7. t.rkey = KeyOf("client", t) /\ t.key_block = Keys(t)
        BY <1>1, <1>5, <1>7, <2>3 DEF CcsRead
    <2>8. ServerOld(t) /\ Number(t.wkey) \in Nat /\ Number(t.wkey) < t.cr
        BY <1>5, <2>1 DEF ServerAwaiting, ServerOld
    <2>9. t.state \in {"SW_SESSION_TICKET", "SW_CHANGE"} /\ Position(t) = t.state
        BY <1>2, <1>4, <1>9, PositionIs
    <2>10. ServerAnswering(t)
        BY <1>4, <1>5, <1>9, <2>5, <2>6, <2>7, <2>8, <2>9 DEF ServerAnswering, Ready
    <2> QED BY <1>1, <1>5, <2>9, <2>10, ServerStateIs
<1>10. CASE S.hit
    <2>1. ServerResuming(S)
        BY <1>1, <1>10 DEF ServerAt, ServerState
    <2>2. PICK h : /\ Ready(S, h) /\ S.previous_server_finished = Some(Fin("server", S, h))
                   /\ HashIs(S, Ended("server", S, h))
                   /\ S.change_cipher_spec => CcsRead(S, Ended("server", S, h))
        BY <2>1 DEF ServerResuming
    <2> DEFINE g == Ended("server", S, h)
    <2>3. CcsRead(S, g) /\ m = Fin("client", S, g)
        <3>1. CcsRead(S, g)
            BY <1>8, <2>2
        <3>2. S.peer_finished = Some(Fin("client", S, g))
            BY <1>1, <3>1 DEF CcsRead
        <3> QED BY <1>8, <3>1, <3>2, SomeIs
    <2>4. s.handshake_hash = Some(Append(g, Digest(m)))
        BY <2>2, ReadHash
    <2>5. /\ t.handshake_hash = Some(Ended("client", t, Ended("server", t, h)))
          /\ t.previous_client_finished = Some(Fin("client", t, Ended("server", t, h)))
        <3>1. Digest(m) = FinDigest("client", S)
            BY <2>3, DigestFin
        <3>2. Append(g, Digest(m)) = Ended("client", S, g)
            BY <3>1 DEF Ended
        <3> QED BY <1>4, <1>5, <1>7, <2>3, <2>4, <3>2, ZenonT(60)
    <2>6. Ready(t, h)
        BY <1>6, <1>10, <2>2, SameReady
    <2>7. t.rkey = KeyOf("client", t) /\ t.wkey = KeyOf("server", t)
        BY <1>1, <1>5, <1>7, <2>1, <2>3 DEF CcsRead, ServerResuming
    <2>8. t.previous_server_finished = Some(Fin("server", t, h))
        BY <1>5, <1>7, <2>2
    <2>9. Complete(t)
        BY <1>1, <1>5, <1>10, <2>5, <2>6, <2>7, <2>8 DEF Complete
    <2>10. t.state = "ST_OK" /\ Position(t) = "ST_OK"
        BY <1>2, <1>4, <1>10, PositionIs
    <2>11. ServerDone(t)
        BY <1>4, <1>5, <2>1, <2>9, <2>10 DEF ServerDone, ServerResuming
    <2> QED BY <1>1, <1>5, <2>10, <2>11, ServerStateIs
<1> QED BY <1>9, <1>10

LEMMA AgreeSendTicket ==
    ASSUME NEW S, ServerAt(S, "SW_SESSION_TICKET")
    PROVE  ServerState(ssl3_send_newsession_ticket(S))
<1> DEFINE t == ssl3_send_newsession_ticket(S)
           m == Message("NewSessionTicket", Ticket(S.n, S.session))
<1>1. Position(S) = "SW_SESSION_TICKET" /\ S.state = "SW_SESSION_TICKET" /\ DOMAIN S = Fields /\ S.cr \in Nat
      /\ ServerAnswering(S)
    BY PositionIs DEF ServerAt, IsSsl, ServerState
<1>2. /\ Changes(S, t, {"state", "ccs_ok", "wbuf", "handshake_hash", "handshake_transcript"})
      /\ t.handshake_hash = Hashed(S.handshake_hash, m) /\ t.state = "SW_CHANGE"
    BY <1>1, SendNewSessionTicketSheet
<1>3. m.mt = "NewSessionTicket" /\ Digest(m) = m
    BY DEF Message, Digest
<1> HIDE DEF t, m
<1>4. /\ t.rkey = S.rkey /\ t.wkey = S.wkey /\ t.key_block = S.key_block /\ t.cr = S.cr /\ t.sr = S.sr
      /\ t.change_cipher_spec = S.change_cipher_spec /\ t.hit = S.hit /\ t.session = S.session
      /\ t.previous_server_finished = S.previous_server_finished
      /\ t.previous_client_finished = S.previous_client_finished
    BY <1>2 DEF Changes, Fields
<1>5. Same(S, t)
    BY <1>4 DEF Same
<1>6. PICK h : Before(S, h) /\ S.handshake_hash = Some(h)
    BY <1>1 DEF ServerAnswering
<1>7. t.handshake_hash = Some(Append(h, m))
    BY <1>2, <1>3, <1>6, HashedSome
<1>8. Before(t, h)
    BY <1>4, <1>5, <1>6, SameReady
<1>9. Ready(t, Append(h, m))
    BY <1>3, <1>8 DEF Ready
<1>10. ServerOld(t)
    BY <1>1, <1>4 DEF ServerAnswering, ServerOld
<1>11. Keys(t) = Keys(S) /\ \A who : KeyOf(who, t) = KeyOf(who, S)
    BY <1>5, SameKeys
<1>12. ServerAnswering(t) /\ Position(t) = "SW_CHANGE"
    BY <1>1, <1>2, <1>4, <1>7, <1>9, <1>10, <1>11, PositionIs DEF ServerAnswering
<1> QED BY <1>1, <1>4, <1>12, ServerStateIs DEF t

LEMMA AgreeServerChange ==
    ASSUME NEW S, ServerAt(S, "SW_CHANGE")
    PROVE  ServerState(ssl3_send_server_change_cipher_spec(S))
<1> DEFINE t == ssl3_send_server_change_cipher_spec(S)
<1>1. /\ Position(S) = "SW_CHANGE" /\ S.state = "SW_CHANGE" /\ DOMAIN S = Fields /\ S.cr \in Nat
      /\ ServerAnswering(S) /\ S.who = "server"
    BY PositionIs DEF ServerAt, IsSsl, ServerState
<1>2. /\ Changes(S, t, {"state", "wbuf", "key_block", "wkey"}) /\ t.state = "SW_FINISHED"
      /\ t.key_block = IF S.key_block = Null THEN Keys(S) ELSE S.key_block
      /\ t.wkey = <<S.who>> \o t.key_block
    BY <1>1, ChangeCipherSpecSheet, ZenonT(60) DEF ssl3_send_server_change_cipher_spec
<1> HIDE DEF t
<1>3. /\ t.rkey = S.rkey /\ t.cr = S.cr /\ t.sr = S.sr
      /\ t.change_cipher_spec = S.change_cipher_spec /\ t.hit = S.hit /\ t.session = S.session
      /\ t.previous_server_finished = S.previous_server_finished /\ t.handshake_hash = S.handshake_hash
      /\ t.previous_client_finished = S.previous_client_finished
    BY <1>2 DEF Changes, Fields
<1>4. Same(S, t)
    BY <1>3 DEF Same
<1>5. Keys(t) = Keys(S) /\ \A who : KeyOf(who, t) = KeyOf(who, S)
    BY <1>4, SameKeys
<1>6. PICK h : Ready(S, h) /\ S.handshake_hash = Some(h)
    BY <1>1 DEF ServerAnswering
<1>7. Ready(t, h) /\ t.handshake_hash = Some(h)
    BY <1>3, <1>4, <1>6, SameReady
<1>8. t.key_block = Keys(t) /\ t.wkey = KeyOf("server", t)
    BY <1>1, <1>2, <1>5, NoKeys DEF ServerAnswering, KeyOf
<1>9. ServerOld(t)
    BY <1>1, <1>3 DEF ServerAnswering, ServerOld
<1>10. ServerAnswering(t) /\ Position(t) = "SW_FINISHED"
    BY <1>1, <1>2, <1>3, <1>5, <1>7, <1>8, <1>9, PositionIs DEF ServerAnswering
<1> QED BY <1>1, <1>3, <1>10, ServerStateIs DEF t

LEMMA AgreeSendServerFinished ==
    ASSUME NEW S, ServerAt(S, "SW_FINISHED"), S.reuse_message = Null
    PROVE  /\ ServerState(ssl3_send_server_finished(S))
           /\ \E h : Hellos(S, h) /\ VerifyData(S, "server") = Fin("server", S, h)
<1> DEFINE t == ssl3_send_server_finished(S)
           m == VerifyData(S, "server")
<1>1. /\ Position(S) = "SW_FINISHED" /\ S.state = "SW_FINISHED" /\ DOMAIN S = Fields /\ S.cr \in Nat
      /\ ServerAnswering(S) /\ S.who = "server" /\ Peer("server") = "client"
    BY PositionIs DEF ServerAt, IsSsl, ServerState, Peer
<1>2. /\ Changes(S, t, {"wbuf", "handshake_hash", "handshake_transcript", "previous_server_finished",
                        "state", "next_state"})
      /\ t.handshake_hash = Hashed(S.handshake_hash, m) /\ t.previous_server_finished = Some(m)
      /\ t.state = "FLUSH" /\ t.next_state = IF S.hit THEN "SR_FINISHED" ELSE "ST_OK"
    BY <1>1, ServerFinishedSheet
<1> HIDE DEF t
<1>3. /\ t.rkey = S.rkey /\ t.wkey = S.wkey /\ t.key_block = S.key_block /\ t.cr = S.cr /\ t.sr = S.sr
      /\ t.change_cipher_spec = S.change_cipher_spec /\ t.hit = S.hit /\ t.session = S.session
      /\ t.previous_client_finished = S.previous_client_finished /\ t.who = S.who
      /\ t.reuse_message = S.reuse_message
    BY <1>2 DEF Changes, Fields
<1>4. Same(S, t)
    BY <1>3 DEF Same
<1>5. /\ Keys(t) = Keys(S) /\ \A who : KeyOf(who, t) = KeyOf(who, S)
      /\ \A who, k : Fin(who, t, k) = Fin(who, S, k) /\ Ended(who, t, k) = Ended(who, S, k)
    BY <1>4, SameKeys
<1>6. PICK h : Ready(S, h) /\ S.handshake_hash = Some(h)
    BY <1>1 DEF ServerAnswering
<1>7. m = Fin("server", S, h) /\ Hellos(S, h)
    BY <1>6, VerifyDataIs, ReadyHellos
<1> HIDE DEF m
<1>8. t.handshake_hash = Some(Ended("server", t, h)) /\ t.previous_server_finished = Some(Fin("server", t, h))
    BY <1>2, <1>5, <1>6, <1>7, HashedSome, DigestFin DEF Ended
<1>9. Ready(t, h)
    BY <1>3, <1>4, <1>6, SameReady
<1>10. t.key_block = Keys(t) /\ t.wkey = KeyOf("server", t) /\ ~t.change_cipher_spec /\ t.cr >= 1
    BY <1>1, <1>3, <1>5 DEF ServerAnswering, ServerOld
<1>11. CASE S.hit
    <2>1. HashIs(t, Ended("server", t, h))
        BY <1>3, <1>8 DEF HashIs
    <2>2. ServerResuming(t)
        BY <1>1, <1>3, <1>8, <1>9, <1>10, <1>11, <2>1 DEF ServerResuming, ServerAnswering
    <2>3. Position(t) = "SR_FINISHED"
        BY <1>2, <1>11, PositionIs
    <2> QED BY <1>1, <1>3, <1>7, <1>11, <2>2, <2>3, ServerStateIs DEF t, m
<1>12. CASE ~S.hit
    <2>1. t.rkey = KeyOf("client", t)
        BY <1>1, <1>3, <1>5, <1>12 DEF ServerAnswering
    <2>2. Complete(t)
        BY <1>1, <1>3, <1>8, <1>9, <1>10, <1>12, <2>1 DEF Complete
    <2>3. Position(t) = "ST_OK"
        BY <1>2, <1>12, PositionIs
    <2>4. ServerDone(t)
        BY <1>10, <2>2, <2>3 DEF ServerDone
    <2> QED BY <1>1, <1>3, <1>7, <2>3, <2>4, ServerStateIs DEF t, m
<1> QED BY <1>11, <1>12

LEMMA AgreeServerReadCcs ==
    ASSUME NEW S, NEW state \in ReadStates, ServerAt(S, state), S.reuse_message = Null, Number(S.rkey) < S.cr
    PROVE  LET t == ReadCcs(S) IN t.state = "Failed" \/ ServerState(t)
<1> DEFINE t == ReadCcs(S)
<1>1. /\ DOMAIN S = Fields /\ S.who = "server" /\ S.cr \in Nat /\ S.state = state /\ ServerState(S)
      /\ Peer(S.who) = "client" /\ Position(S) = state
    BY PositionIs DEF ServerAt, IsSsl, ServerState, Peer, ReadStates
<1>2. \/ t.state = "Failed"
      \/ t = S
      \/ /\ Changes(S, t, {"ccs_ok", "change_cipher_spec", "key_block", "rkey", "peer_finished"})
         /\ ~S.change_cipher_spec /\ t.change_cipher_spec
         /\ t.key_block = IF S.key_block = Null THEN Keys(S) ELSE S.key_block
         /\ t.rkey = <<Peer(S.who)>> \o t.key_block
         /\ t.peer_finished = Some(VerifyData(S, Peer(S.who)))
         /\ S.key_block # Null \/ S.session.master # Null
    BY <1>1, ReadCcsSheet
<1> HIDE DEF t
<1>3. ASSUME /\ Changes(S, t, {"ccs_ok", "change_cipher_spec", "key_block", "rkey", "peer_finished"})
             /\ ~S.change_cipher_spec /\ t.change_cipher_spec
             /\ t.key_block = IF S.key_block = Null THEN Keys(S) ELSE S.key_block
             /\ t.rkey = <<Peer(S.who)>> \o t.key_block
             /\ t.peer_finished = Some(VerifyData(S, Peer(S.who)))
             /\ S.key_block # Null \/ S.session.master # Null
      PROVE  ServerState(t)
    <2>1. /\ t.wkey = S.wkey /\ t.who = S.who /\ t.state = S.state /\ t.next_state = S.next_state
          /\ t.cr = S.cr /\ t.sr = S.sr /\ t.hit = S.hit /\ t.session = S.session
        BY <1>3 DEF Changes, Fields
    <2>2. /\ t.previous_client_finished = S.previous_client_finished
          /\ t.previous_server_finished = S.previous_server_finished
          /\ t.handshake_hash = S.handshake_hash /\ t.reuse_message = S.reuse_message
        BY <1>3 DEF Changes, Fields
    <2>3. Same(S, t) /\ Position(t) = state
        BY <1>1, <2>1 DEF Same, Position
    <2>4. /\ Keys(t) = Keys(S) /\ \A who : KeyOf(who, t) = KeyOf(who, S)
          /\ \A who, k : Fin(who, t, k) = Fin(who, S, k) /\ Ended(who, t, k) = Ended(who, S, k)
          /\ \A k : Hellos(t, k) <=> Hellos(S, k)
        BY <2>3, SameKeys
    <2>5. ASSUME NEW h, S.handshake_hash = Some(h), t.key_block = Keys(t)
          PROVE  HashIs(t, h) /\ CcsRead(t, h)
        <3>1. t.peer_finished = Some(Fin("client", t, h))
            BY <1>1, <1>3, <2>4, <2>5, VerifyDataIs
        <3>2. t.rkey = KeyOf("client", t)
            BY <1>1, <1>3, <2>5 DEF KeyOf
        <3> QED BY <1>1, <2>1, <2>2, <2>5, <3>1, <3>2 DEF HashIs, CcsRead
    <2>6. CASE state \in {"SR_CLNT_HELLO", "Established"}
        <3>1. ServerHearing(S) \/ ServerDone(S)
            BY <1>1, <2>6 DEF ServerState
        <3>2. Number(S.rkey) = S.cr
            BY <3>1, CompleteCr DEF ServerHearing, ServerDone
        <3> QED BY <1>1, <3>2
    <2>7. CASE state \in {"SR_CERT", "SR_KEY_EXCH"}
        <3>1. ServerAsking(S)
            BY <1>1, <2>7 DEF ServerState, ServerAsksFor
        <3> QED BY <1>3, <3>1 DEF ServerAsking
    <2>8. CASE state = "SR_CERT_VRFY" \/ (state = "SR_FINISHED" /\ ~S.hit)
        <3>1. ServerAwaiting(S) /\ ~S.hit
            BY <1>1, <2>8 DEF ServerState
        <3>2. PICK h : Hellos(S, h) /\ HashIs(S, h)
            BY <3>1 DEF ServerAwaiting
        <3>3. S.handshake_hash = Some(h) /\ t.key_block = Keys(t)
            BY <1>3, <2>4, <3>1, <3>2 DEF HashIs, ServerAwaiting
        <3>4. HashIs(t, h) /\ CcsRead(t, h) /\ Hellos(t, h)
            BY <2>4, <2>5, <3>2, <3>3
        <3>5. ServerAwaiting(t)
            BY <1>3, <2>1, <2>2, <3>1, <3>4 DEF ServerAwaiting, ServerOld
        <3> QED BY <1>1, <2>1, <2>3, <2>8, <3>1, <3>5, ServerStateIs
    <2>9. CASE state = "SR_FINISHED" /\ S.hit
        <3>1. ServerResuming(S)
            BY <1>1, <2>9 DEF ServerState
        <3>2. PICK h : /\ Ready(S, h) /\ S.previous_server_finished = Some(Fin("server", S, h))
                       /\ HashIs(S, Ended("server", S, h))
            BY <3>1 DEF ServerResuming
        <3>3. S.handshake_hash = Some(Ended("server", t, h)) /\ t.key_block = Keys(t)
            BY <1>3, <2>4, <3>1, <3>2, NoKeys DEF HashIs, ServerResuming
        <3>4. HashIs(t, Ended("server", t, h)) /\ CcsRead(t, Ended("server", t, h))
            BY <2>5, <3>3
        <3>5. Ready(t, h) /\ t.previous_server_finished = Some(Fin("server", t, h))
            BY <2>2, <2>3, <2>4, <3>2, SameReady
        <3>6. t.wkey = KeyOf("server", t)
            BY <2>1, <2>4, <3>1 DEF ServerResuming
        <3>7. ServerResuming(t)
            BY <1>3, <2>1, <3>1, <3>3, <3>4, <3>5, <3>6 DEF ServerResuming
        <3> QED BY <1>1, <2>1, <2>3, <2>9, <3>7, ServerStateIs
    <2>10. CASE state \in {"CR_SRVR_HELLO", "CR_HELLO_VERIFY", "CR_CERT", "CR_CERT_STATUS", "CR_KEY_EXCH", "CR_CERT_REQ",
                           "CR_SRVR_DONE", "CR_SESSION_TICKET", "CR_FINISHED"}
        BY <1>1, <2>1, <2>3, <2>10, ServerStateIs
    <2> QED BY <2>6, <2>7, <2>8, <2>9, <2>10 DEF ReadStates
<1> QED BY <1>1, <1>2, <1>3 DEF t

-----------------------------------------------------------------------------
(* What is between the endpoints, step by step. *)

(* What a step leaves of a queue, and what it may add. *)
AddsFromClient(C, S, qs, qs2) ==
    \/ Cut(qs, qs2)
    \/ \E r : /\ qs2 = Append(qs, r) /\ ~Is(r, "ClientHello")
              /\ r.type = "ccs" => Number(r.key) \in Nat /\ Number(r.key) < S.cr

AddsFromServer(c, C, S, qc, qc2) ==
    Cut(qc, qc2) \/ \E r : qc2 = Append(qc, r) /\ FromServer(c, C, S, r)

Reads(q, q2) == q2 = q \/ (q # << >> /\ q2 = Tail(q))

LEMMA LinkSClient ==
    ASSUME NEW c, NEW C, NEW S, NEW t, NEW qs, NEW qs2, LinkS(c, C, S, qs), IsSeq(qs), AddsFromClient(C, S, qs, qs2),
           t.n = C.n, Starting(t) => Starting(C)
    PROVE  LinkS(c, t, S, qs2)
<1>1. \A i \in 1 .. Len(qs) : FromClient(t, S, qs[i])
    BY DEF LinkS, FromClient
<1>2. CASE Cut(qs, qs2)
    <2>1. IsSeq(qs2) /\ Len(qs2) <= Len(qs) /\ \A i \in 1 .. Len(qs2) : i \in 1 .. Len(qs) /\ qs2[i] = qs[i]
        BY <1>2 DEF Cut, IsSeq
    <2> QED BY <1>1, <2>1 DEF LinkS
<1>3. CASE \E r : /\ qs2 = Append(qs, r) /\ ~Is(r, "ClientHello")
                  /\ r.type = "ccs" => Number(r.key) \in Nat /\ Number(r.key) < S.cr
    <2>1. PICK r : /\ qs2 = Append(qs, r) /\ ~Is(r, "ClientHello")
                   /\ r.type = "ccs" => Number(r.key) \in Nat /\ Number(r.key) < S.cr
        BY <1>3
    <2>2. /\ Len(qs2) = Len(qs) + 1 /\ Len(qs) \in Nat
          /\ \A i \in 1 .. Len(qs) : qs2[i] = qs[i]
          /\ qs2[Len(qs) + 1] = r
        BY <2>1, SeqAppend DEF IsSeq
    <2>3. \A i \in 1 .. Len(qs2) : i \in 1 .. Len(qs) \/ i = Len(qs) + 1
        BY <2>2
    <2>4. FromClient(t, S, r)
        BY <2>1 DEF FromClient
    <2> QED BY <1>1, <2>1, <2>2, <2>3, <2>4 DEF LinkS
<1> QED BY <1>2, <1>3 DEF AddsFromClient

LEMMA LinkCClient ==
    ASSUME NEW c, NEW C, NEW S, NEW t, NEW qc, NEW qc2, LinkC(c, C, S, qc), IsSeq(qc), Reads(qc, qc2), t.n = C.n,
           ClientPlace(t) \notin {"BEFORE", "CW_CLNT_HELLO", "CR_SRVR_HELLO"} => S.cr = C.n,
           Starting(t) => S.cr < C.n,
           t.previous_server_finished # Null =>
                t.previous_server_finished = C.previous_server_finished \/ Genuine(S, t.previous_server_finished[1]),
           t.reuse_message # Null =>
                \/ t.reuse_message = C.reuse_message
                \/ t.reuse_message[1].mt = "Finished" => Genuine(S, t.reuse_message[1])
    PROVE  LinkC(c, t, S, qc2)
<1>1. \A i \in 1 .. Len(qc) : FromServer(c, t, S, qc[i])
    BY DEF LinkC, FromServer
<1>2. \A i \in 1 .. Len(qc2) : FromServer(c, t, S, qc2[i])
    <2>1. CASE qc2 = qc
        BY <1>1, <2>1
    <2>2. CASE qc # << >> /\ qc2 = Tail(qc)
        <3>1. Len(qc2) = Len(qc) - 1 /\ Len(qc) \in Nat \ {0} /\ \A i \in 1 .. Len(qc2) : qc2[i] = qc[i + 1]
            BY <2>2, SeqTail
        <3> QED BY <1>1, <3>1
    <2> QED BY <2>1, <2>2 DEF Reads
<1> QED BY <1>2 DEF LinkC

LEMMA LinkCServer ==
    ASSUME NEW c, NEW C, NEW S, NEW t, NEW qc, NEW qc2, LinkC(c, C, S, qc), IsSeq(qc), AddsFromServer(c, C, t, qc, qc2),
           t.cr = S.cr, t.previous_server_finished = S.previous_server_finished
    PROVE  LinkC(c, C, t, qc2)
<1>1. \A m : Genuine(S, m) <=> Genuine(t, m)
    BY DEF Genuine
<1>2. \A i \in 1 .. Len(qc) : FromServer(c, C, t, qc[i])
    BY <1>1 DEF LinkC, FromServer
<1>3. \A i \in 1 .. Len(qc2) : FromServer(c, C, t, qc2[i])
    <2>1. CASE Cut(qc, qc2)
        <3>1. \A i \in 1 .. Len(qc2) : i \in 1 .. Len(qc) /\ qc2[i] = qc[i]
            BY <2>1 DEF Cut, IsSeq
        <3> QED BY <1>2, <3>1
    <2>2. CASE \E r : qc2 = Append(qc, r) /\ FromServer(c, C, t, r)
        <3>1. PICK r : qc2 = Append(qc, r) /\ FromServer(c, C, t, r)
            BY <2>2
        <3>2. /\ Len(qc2) = Len(qc) + 1 /\ Len(qc) \in Nat
              /\ \A i \in 1 .. Len(qc) : qc2[i] = qc[i]
              /\ qc2[Len(qc) + 1] = r
            BY <3>1, SeqAppend DEF IsSeq
        <3> QED BY <1>2, <3>1, <3>2
    <2> QED BY <2>1, <2>2 DEF AddsFromServer
<1> QED BY <1>1, <1>3 DEF LinkC

LEMMA LinkSServer ==
    ASSUME NEW c, NEW C, NEW S, NEW t, NEW qs, NEW qs2, LinkS(c, C, S, qs), IsSeq(qs), Reads(qs, qs2), t.cr = S.cr,
           Position(t) = "SW_HELLO_VERIFY" => c.dtls /\ S.cr < C.n
    PROVE  LinkS(c, C, t, qs2)
<1>1. \A i \in 1 .. Len(qs) : FromClient(C, t, qs[i])
    BY DEF LinkS, FromClient
<1>2. CASE qs2 = qs
    BY <1>1, <1>2 DEF LinkS
<1>3. CASE qs # << >> /\ qs2 = Tail(qs)
    <2>1. Len(qs2) = Len(qs) - 1 /\ Len(qs) \in Nat \ {0} /\ \A i \in 1 .. Len(qs2) : qs2[i] = qs[i + 1]
        BY <1>3, SeqTail
    <2>2. \A i \in 1 .. Len(qs2) : i + 1 \in 1 .. Len(qs) /\ qs2[i] = qs[i + 1]
        BY <2>1
    <2>3. \A i \in 1 .. Len(qs2) : FromClient(C, t, qs2[i])
        BY <1>1, <2>2
    <2>4. \A i, j \in 1 .. Len(qs2) : Is(qs2[i], "ClientHello") /\ Is(qs2[j], "ClientHello") => i = j
        <3>1. SUFFICES ASSUME NEW i \in 1 .. Len(qs2), NEW j \in 1 .. Len(qs2),
                              Is(qs2[i], "ClientHello"), Is(qs2[j], "ClientHello")
                       PROVE  i = j
            OBVIOUS
        <3>2. i + 1 = j + 1
            BY <2>2, <3>1 DEF LinkS
        <3> QED BY <3>2
    <2>5. Starting(C) => \A i \in 1 .. Len(qs2) : ~Is(qs2[i], "ClientHello")
        BY <2>2 DEF LinkS
    <2> QED BY <2>3, <2>4, <2>5 DEF LinkS
<1> QED BY <1>2, <1>3 DEF Reads

(* Types. *)
TypedStep(x, t) ==
    /\ DOMAIN t = Fields /\ t.who = x.who /\ t.state \in States /\ t.hit \in BOOLEAN
    /\ t.cert_request \in 0 .. 2 /\ t.renegotiate \in 0 .. 2 /\ t.data \in 0 .. DataBound
    /\ t.bbio \/ ~x.bbio \/ t.wbuf = << >>
    /\ t.who = "client" /\ t.state \in {"BEFORE", "RENEGOTIATE", "Established"} => ~t.bbio

LEMMA TypedOn ==
    ASSUME NEW x, NEW t, Typed(x), DOMAIN t = Fields, t.who = x.who, t.bbio = x.bbio, t.data = x.data,
           t.hit = x.hit \/ t.hit \in BOOLEAN,
           t.cert_request = x.cert_request \/ t.cert_request \in 0 .. 2,
           t.renegotiate = x.renegotiate \/ t.renegotiate \in 0 .. 2,
           t.state \in States \ {"BEFORE", "RENEGOTIATE", "Established"}
    PROVE  TypedStep(x, t)
    BY DEF Typed, TypedStep

LEMMA TypedFails ==
    ASSUME NEW x, NEW s, NEW t, DOMAIN x = Fields, Typed(x),
           Changes(x, s, {"reuse_message", "handshake_hash", "handshake_transcript"}), Fails(s, t)
    PROVE  TypedStep(x, t)
<1>1. Changes(s, t, {"state", "wbuf", "flush"}) /\ t.state = "Failed"
    BY DEF Fails
<1>2. /\ DOMAIN t = Fields /\ t.who = x.who /\ t.hit = x.hit /\ t.bbio = x.bbio /\ t.data = x.data
      /\ t.cert_request = x.cert_request /\ t.renegotiate = x.renegotiate
    BY <1>1 DEF Changes, Fields
<1> QED BY <1>1, <1>2, TypedOn DEF States

LEMMA TypedTakes ==
    ASSUME AuthInv, TypeInv, NEW e \in Endpoint, NEW t, NEW q, Takes(e, t, q), TypedStep(ssl[e], t)
    PROVE  TypeInv'
<1>1. DOMAIN ssl = Endpoint
    BY DEF AuthInv, Shape
<1>2. omitted' = omitted /\ ssl' = [ssl EXCEPT ![e] = After(e, t)]
    BY DEF Takes, Step, StepAfterRead
<1>3. DOMAIN t = Fields
    BY DEF TypedStep
<1>4. Changes(t, After(e, t), {"wbuf", "flush"})
    BY <1>3, AfterChanges
<1> DEFINE u == After(e, t)
<1>5. u.bbio = t.bbio
    BY <1>4 DEF Changes, Fields
<1>6. /\ u.who = t.who /\ u.hit = t.hit /\ u.state = t.state /\ u.cert_request = t.cert_request
      /\ u.renegotiate = t.renegotiate /\ u.data = t.data
    BY <1>4 DEF Changes, Fields
<1>7. u.bbio \/ u.wbuf = << >>
    <2>1. CASE t.flush \/ ~ssl[e].bbio
        BY <1>3, <2>1 DEF After, Fields
    <2>2. CASE ~(t.flush \/ ~ssl[e].bbio)
        BY <2>2 DEF After, TypedStep
    <2> QED BY <2>1, <2>2
<1> HIDE DEF u
<1>8. Typed(u)
    BY <1>5, <1>6, <1>7 DEF Typed, TypedStep
<1>9. ssl'[e] = u /\ \A d \in Endpoint : d # e => ssl'[d] = ssl[d]
    BY <1>1, <1>2 DEF u
<1>10. \A d \in Endpoint : Typed(ssl'[d])
    BY <1>8, <1>9 DEF TypeInv
<1> QED BY <1>2, <1>10 DEF TypeInv, Typed

(* From a handler to a step. *)
LEMMA SamePlace ==
    ASSUME NEW t, NEW u, Changes(t, u, {"wbuf", "flush"})
    PROVE  /\ ClientPlace(u) = ClientPlace(t) /\ Position(u) = Position(t) /\ u.state = t.state /\ u.n = t.n
           /\ u.cr = t.cr /\ u.reuse_message = t.reuse_message
           /\ u.previous_server_finished = t.previous_server_finished /\ Changes(t, u, Aside)
    BY DEF Changes, Fields, ClientPlace, Verifying, Position, Aside

LEMMA AgreeClientStep ==
    ASSUME AuthInv, AgreeInv, TypeInv, NEW t, NEW qc2, Takes("client", t, qc2), TypedStep(ssl["client"], t),
           IsSeq(t.wbuf), ssl["client"].state # "Failed",
           t.state = "Failed" \/ (ClientState(cfg, t) /\ LinkC(cfg, t, ssl["server"], qc2)),
           ssl["server"].state # "Failed" => LinkS(cfg, t, ssl["server"], net["server"] \o t.wbuf)
    PROVE  AgreeInv' /\ TypeInv'
<1>0. TypeInv'
    BY TypedTakes DEF Endpoint
<1>1. DOMAIN t = Fields /\ Shape /\ Peer("client") = "server"
    BY DEF TypedStep, AuthInv, Peer
<1> DEFINE u == ssl'["client"]
           S == ssl["server"]
<1>2. /\ cfg' = cfg /\ Changes(t, u, {"wbuf", "flush"}) /\ ssl'["server"] = S
      /\ Queue("server")' = net["server"] \o t.wbuf /\ Queue("client")' = qc2
    BY <1>1, TakesQueues DEF Endpoint
<1> HIDE DEF u, S
<1>3. /\ ClientPlace(u) = ClientPlace(t) /\ Position(u) = Position(t) /\ u.state = t.state /\ u.n = t.n
      /\ u.reuse_message = t.reuse_message
      /\ u.previous_server_finished = t.previous_server_finished /\ Changes(t, u, Aside)
    BY <1>2, SamePlace
<1>4. u.state # "Failed" => ClientState(cfg, u)
    BY <1>3, ClientFrame
<1>5. u.state # "Failed" => LinkC(cfg, u, S, qc2)
    BY <1>3 DEF LinkC, FromServer, Starting, S
<1>6. S.state # "Failed" => ServerState(S)
    BY DEF AgreeInv, Agree, S
<1>7. S.state # "Failed" => LinkS(cfg, u, S, net["server"] \o t.wbuf)
    BY <1>3 DEF LinkS, FromClient, Starting, S
<1>8. Agree(cfg, u, S, net["server"] \o t.wbuf, qc2)
    BY <1>4, <1>5, <1>6, <1>7 DEF Agree
<1>9. AgreeInv'
    BY <1>2, <1>8 DEF AgreeInv, u
<1> QED BY <1>0, <1>9

LEMMA AgreeServerStep ==
    ASSUME AuthInv, AgreeInv, TypeInv, NEW t, NEW qs2, Takes("server", t, qs2), TypedStep(ssl["server"], t),
           IsSeq(t.wbuf), ssl["server"].state # "Failed",
           t.state = "Failed" \/ (ServerState(t) /\ LinkS(cfg, ssl["client"], t, qs2)),
           ssl["client"].state # "Failed" => LinkC(cfg, ssl["client"], t, net["client"] \o t.wbuf)
    PROVE  AgreeInv' /\ TypeInv'
<1>0. TypeInv'
    BY TypedTakes DEF Endpoint
<1>1. DOMAIN t = Fields /\ Shape /\ Peer("server") = "client"
    BY DEF TypedStep, AuthInv, Peer
<1> DEFINE u == ssl'["server"]
           C == ssl["client"]
<1>2. /\ cfg' = cfg /\ Changes(t, u, {"wbuf", "flush"}) /\ ssl'["client"] = C
      /\ Queue("client")' = net["client"] \o t.wbuf /\ Queue("server")' = qs2
    BY <1>1, TakesQueues DEF Endpoint
<1> HIDE DEF u, C
<1>3. /\ Position(u) = Position(t) /\ u.state = t.state /\ u.cr = t.cr
      /\ u.previous_server_finished = t.previous_server_finished /\ Changes(t, u, Aside)
    BY <1>2, SamePlace
<1>4. u.state # "Failed" => ServerState(u)
    BY <1>3, ServerFrame
<1>5. u.state # "Failed" => LinkS(cfg, C, u, qs2)
    BY <1>3 DEF LinkS, FromClient, C
<1>6. C.state # "Failed" => ClientState(cfg, C)
    BY DEF AgreeInv, Agree, C
<1>7. C.state # "Failed" => LinkC(cfg, C, u, net["client"] \o t.wbuf)
    <2>1. \A m : Genuine(t, m) <=> Genuine(u, m)
        BY <1>3 DEF Genuine
    <2> QED BY <1>3, <2>1 DEF LinkC, FromServer, C
<1>8. Agree(cfg, C, u, qs2, net["client"] \o t.wbuf)
    BY <1>4, <1>5, <1>6, <1>7 DEF Agree
<1>9. AgreeInv'
    BY <1>2, <1>8 DEF AgreeInv, u
<1> QED BY <1>0, <1>9

(* What the client writes, other than its hello. *)
ClientWrote(C, t) ==
    \/ t.wbuf = C.wbuf
    \/ t.wbuf = << >>
    \/ \E r : /\ t.wbuf = Append(C.wbuf, r) /\ ~Is(r, "ClientHello")
              /\ r.type = "ccs" => C.state = "CW_CHANGE" /\ r.key = C.wkey

LEMMA CutOr ==
    ASSUME NEW p, NEW w, NEW w2, IsSeq(p), IsSeq(w), w2 = w \/ w2 = << >>
    PROVE  Cut(p \o w, p \o w2) /\ IsSeq(w2)
<1>1. IsSeq(p \o w) /\ Len(p \o w) = Len(p) + Len(w) /\ \A i \in 1 .. Len(p) : (p \o w)[i] = p[i]
    BY SeqConcat
<1>2. Len(p) \in Nat /\ Len(w) \in Nat
    BY DEF IsSeq
<1>3. CASE w2 = w
    BY <1>1, <1>2, <1>3 DEF Cut
<1>4. CASE w2 = << >>
    <2>1. p \o w2 = p
        BY <1>4, ConcatEmpty
    <2>2. Cut(p \o w, p \o w2)
        BY <1>1, <1>2, <2>1 DEF Cut
    <2> QED BY <1>4, <2>2, SeqEmpty
<1> QED BY <1>3, <1>4

LEMMA ClientAgrees ==
    ASSUME AuthInv, AgreeInv, ssl["client"].state # "Failed"
    PROVE  /\ IsSsl(ssl["client"], "client") /\ ClientState(cfg, ssl["client"]) /\ ssl["client"].n \in Nat
           /\ LinkC(cfg, ssl["client"], ssl["server"], Queue("client")) /\ IsSeq(Queue("client"))
           /\ ssl["server"].cr \in Nat /\ ssl["server"].cr <= ssl["client"].n
           /\ ssl["server"].state # "Failed" => LinkS(cfg, ssl["client"], ssl["server"], Queue("server"))
           /\ IsSeq(net["server"]) /\ IsSeq(ssl["client"].wbuf) /\ Queue("server") = net["server"] \o ssl["client"].wbuf
           /\ IsSeq(Queue("server"))
<1>1. /\ IsSeq(Queue("client")) /\ IsSeq(Queue("server")) /\ IsSeq(net["server"]) /\ IsSeq(ssl["client"].wbuf)
      /\ Queue("server") = net["server"] \o ssl["client"].wbuf
    BY AuthQueues DEF Endpoint, Peer
<1>2. ClientState(cfg, ssl["client"]) /\ LinkC(cfg, ssl["client"], ssl["server"], Queue("client"))
    BY DEF AgreeInv, Agree
<1>3. ssl["client"].n \in Nat /\ ssl["server"].cr \in Nat /\ ssl["server"].cr <= ssl["client"].n
    BY <1>2 DEF ClientState, LinkC
<1> QED BY <1>1, <1>2, <1>3 DEF AgreeInv, Agree, AuthInv, Auth

LEMMA ClientAdds ==
    ASSUME AuthInv, AgreeInv, ssl["client"].state # "Failed", NEW t, ClientWrote(ssl["client"], t)
    PROVE  /\ IsSeq(t.wbuf)
           /\ AddsFromClient(ssl["client"], ssl["server"], Queue("server"), net["server"] \o t.wbuf)
<1> DEFINE C == ssl["client"]
           S == ssl["server"]
<1>1. /\ ClientState(cfg, C) /\ LinkC(cfg, C, S, Queue("client")) /\ C.n \in Nat
      /\ IsSeq(net["server"]) /\ IsSeq(C.wbuf) /\ Queue("server") = net["server"] \o C.wbuf
    BY ClientAgrees
<1> HIDE DEF C, S
<1>2. CASE t.wbuf = C.wbuf \/ t.wbuf = << >>
    <2>1. Cut(net["server"] \o C.wbuf, net["server"] \o t.wbuf) /\ IsSeq(t.wbuf)
        BY <1>1, <1>2, CutOr
    <2> QED BY <1>1, <2>1 DEF AddsFromClient, C
<1>3. CASE \E r : /\ t.wbuf = Append(C.wbuf, r) /\ ~Is(r, "ClientHello")
                  /\ r.type = "ccs" => C.state = "CW_CHANGE" /\ r.key = C.wkey
    <2>1. PICK r : /\ t.wbuf = Append(C.wbuf, r) /\ ~Is(r, "ClientHello")
                   /\ r.type = "ccs" => C.state = "CW_CHANGE" /\ r.key = C.wkey
        BY <1>3
    <2>a. net["server"] \o Append(C.wbuf, r) = Append(net["server"] \o C.wbuf, r)
        <3> DEFINE p == net["server"]
                   w == C.wbuf
        <3>1. IsSeq(p) /\ IsSeq(w)
            BY <1>1
        <3> HIDE DEF p, w
        <3>2. p \o Append(w, r) = Append(p \o w, r)
            BY <3>1, ConcatAppend
        <3> QED BY <3>2 DEF p, w
    <2>b. IsSeq(Append(C.wbuf, r))
        BY <1>1, SeqAppend, Zenon
    <2>2. net["server"] \o t.wbuf = Append(Queue("server"), r) /\ IsSeq(t.wbuf)
        BY <1>1, <2>1, <2>a, <2>b, Zenon
    <2>3. ASSUME r.type = "ccs" PROVE Number(r.key) \in Nat /\ Number(r.key) < S.cr
        <3>1. C.state = "CW_CHANGE" /\ r.key = C.wkey /\ ClientPlace(C) = "CW_CHANGE"
            BY <2>1, <2>3, PlaceIs
        <3>2. C.n >= 1 /\ Number(C.wkey) = C.n - 1
            BY <1>1, <3>1 DEF ClientState, ClientKeyed, ClientAnswering
        <3>3. S.cr = C.n
            BY <1>1, <3>1 DEF LinkC
        <3> QED BY <1>1, <3>1, <3>2, <3>3
    <2> QED BY <2>1, <2>2, <2>3 DEF AddsFromClient, S
<1> QED BY <1>2, <1>3 DEF ClientWrote, C, S

LEMMA AgreeClientPlain ==
    ASSUME AuthInv, AgreeInv, TypeInv, NEW t, NEW qc2, Takes("client", t, qc2), Reads(Queue("client"), qc2),
           TypedStep(ssl["client"], t), ssl["client"].state # "Failed", ClientWrote(ssl["client"], t),
           t.n = ssl["client"].n,
           LET C == ssl["client"]
               S == ssl["server"]
           IN  \/ t.state = "Failed"
               \/ /\ ClientState(cfg, t) /\ ~Starting(t)
                  /\ \/ ClientPlace(C) \notin {"BEFORE", "CW_CLNT_HELLO", "CR_SRVR_HELLO"}
                     \/ ClientPlace(t) = "CR_SRVR_HELLO"
                     \/ S.cr = C.n
                  /\ t.previous_server_finished = C.previous_server_finished \/ Genuine(S, t.previous_server_finished[1])
                  /\ t.reuse_message # Null =>
                        \/ t.reuse_message = C.reuse_message
                        \/ t.reuse_message[1].mt = "Finished" => Genuine(S, t.reuse_message[1])
    PROVE  AgreeInv' /\ TypeInv'
<1> DEFINE C == ssl["client"]
           S == ssl["server"]
<1>1. /\ LinkC(cfg, C, S, Queue("client")) /\ IsSeq(Queue("client")) /\ IsSeq(Queue("server"))
      /\ S.state # "Failed" => LinkS(cfg, C, S, Queue("server"))
    BY ClientAgrees
<1>2. IsSeq(t.wbuf) /\ AddsFromClient(C, S, Queue("server"), net["server"] \o t.wbuf)
    BY ClientAdds
<1>3. ~Starting(t)
    BY PlaceIs DEF Starting
<1>4. S.state # "Failed" => LinkS(cfg, t, S, net["server"] \o t.wbuf)
    BY <1>1, <1>2, <1>3, LinkSClient
<1>5. ASSUME t.state # "Failed" PROVE ClientState(cfg, t) /\ LinkC(cfg, t, S, qc2)
    <2>1. ClientPlace(t) \notin {"BEFORE", "CW_CLNT_HELLO", "CR_SRVR_HELLO"} => S.cr = C.n
        BY <1>1, <1>5 DEF LinkC
    <2> QED BY <1>1, <1>3, <1>5, <2>1, LinkCClient
<1> QED BY <1>2, <1>4, <1>5, AgreeClientStep

(* Where a message comes from. *)
FromPeer(e, m, q) ==
    IF ssl[e].reuse_message # Null THEN m = ssl[e].reuse_message[1] /\ q = Queue(e)
    ELSE /\ Queue(e) # << >> /\ q = Tail(Queue(e))
         /\ Queue(e)[1].type = "handshake" /\ Queue(e)[1].msg = m /\ Queue(e)[1].key = ssl[e].rkey

LEMMA KeptFrom ==
    ASSUME AuthInv, NEW e \in Endpoint, NEW t, ssl[e].reuse_message # Null, Step(e, t)
    PROVE  LET m == ssl[e].reuse_message[1]
           IN  /\ HasRead(ssl[e], [ssl[e] EXCEPT !.reuse_message = Null], m)
               /\ FromPeer(e, m, Queue(e)) /\ Takes(e, t, Queue(e))
    BY KeptRead DEF FromPeer, Takes

LEMMA NextFrom ==
    ASSUME AuthInv, NEW e \in Endpoint, NEW t, ssl[e].reuse_message = Null, Incoming(e, "handshake"),
           Head(net[e]).msg.mt # "HelloRequest", StepAfterRead(e, t)
    PROVE  LET m == Head(net[e]).msg
           IN  /\ HasRead(ssl[e], tls1_transcript_record(ssl[e], m), m)
               /\ FromPeer(e, m, Tail(Queue(e))) /\ Takes(e, t, Tail(Queue(e)))
<1>1. net[e] # << >> /\ Head(net[e]).key = ssl[e].rkey /\ Head(net[e]).type = "handshake"
    BY DEF Incoming, Opens
<1>2. IsSeq(net[e]) /\ IsSeq(ssl[Peer(e)].wbuf) /\ Queue(e) = net[e] \o ssl[Peer(e)].wbuf /\ IsSeq(Queue(e))
    BY AuthQueues
<1>3. Queue(e) # << >> /\ Head(Queue(e)) = Head(net[e])
    BY <1>1, <1>2, ConcatTail
<1>4. Head(Queue(e)) = Queue(e)[1]
    BY <1>2, <1>3, SeqTail
<1> QED BY <1>1, <1>3, <1>4, NextRead DEF FromPeer, Takes

LEMMA FromServerIs ==
    ASSUME AuthInv, AgreeInv, ssl["client"].state # "Failed", NEW m, NEW q, FromPeer("client", m, q)
    PROVE  /\ Reads(Queue("client"), q)
           /\ m.mt = "Finished" => Genuine(ssl["server"], m)
           /\ ssl["client"].reuse_message = Null =>
                /\ m.mt = "HelloVerifyRequest" => cfg.dtls /\ ssl["server"].cr < ssl["client"].n
                /\ m.mt \notin {"Finished", "HelloVerifyRequest", "HelloRequest"} =>
                    Number(ssl["client"].rkey) \in Nat /\ Number(ssl["client"].rkey) < ssl["server"].cr
                /\ m.mt = "ServerHello" => Digest(m).body.sr = m.body.sr
<1> DEFINE C == ssl["client"]
           S == ssl["server"]
<1>1. LinkC(cfg, C, S, Queue("client")) /\ IsSeq(Queue("client"))
    BY ClientAgrees
<1> HIDE DEF C, S
<1>2. CASE C.reuse_message # Null
    BY <1>1, <1>2 DEF FromPeer, Reads, LinkC, C, S
<1>3. CASE C.reuse_message = Null
    <2>1. /\ Queue("client") # << >> /\ q = Tail(Queue("client"))
          /\ Queue("client")[1].type = "handshake" /\ Queue("client")[1].msg = m /\ Queue("client")[1].key = C.rkey
        BY <1>3 DEF FromPeer, C
    <2>2. 1 \in 1 .. Len(Queue("client"))
        BY <1>1, <2>1, SeqTail
    <2>3. FromServer(cfg, C, S, Queue("client")[1])
        BY <1>1, <2>2 DEF LinkC
    <2> QED BY <1>3, <2>1, <2>3 DEF FromServer, Reads, VerifyRequest, Is, C, S
<1> QED BY <1>2, <1>3

(* What the client does when it reads a message of a handshake. *)
ClientGoesOn ==
    {"CR_CERT", "CR_CERT_STATUS", "CR_KEY_EXCH", "CR_CERT_REQ", "CR_SRVR_DONE", "CR_FINISHED", "CW_CERT", "CW_KEY_EXCH",
     "CW_CHANGE", "ST_OK"}

ClientReading(s, m, t) ==
    \/ Fails(s, t)
    \/ /\ Changes(s, t, {"state", "ccs_ok", "reuse_message", "session", "handshake_transcript", "cert_request",
                         "send_cookie", "change_cipher_spec", "previous_server_finished"})
       /\ t.state \in ClientGoesOn /\ t.cert_request \in {s.cert_request, 0, 1}
       /\ t.reuse_message = Null \/ t.reuse_message = Some(m)
       /\ t.previous_server_finished = s.previous_server_finished
            \/ (m.mt = "Finished" /\ t.previous_server_finished = Some(m))

LEMMA FailsClientWrote ==
    ASSUME NEW C, NEW s, NEW t, s.wbuf = C.wbuf, Fails(s, t)
    PROVE  ClientWrote(C, t)
    BY DEF Fails, ClientWrote, WireRecord, Is

LEMMA AgreeClientReads ==
    ASSUME AuthInv, AgreeInv, TypeInv, NEW s, NEW m, NEW t, NEW q, HasRead(ssl["client"], s, m),
           FromPeer("client", m, q), Takes("client", t, q), ClientReading(s, m, t),
           Fails(s, t) \/ ClientState(cfg, t), ~Verifying(ssl["client"]),
           ssl["client"].state \in ClientAsks \union {"CR_SESSION_TICKET", "CR_FINISHED"}
    PROVE  AgreeInv' /\ TypeInv'
<1> DEFINE C == ssl["client"]
           S == ssl["server"]
<1>1. C.state # "Failed" /\ C.state # "FLUSH" /\ ClientPlace(C) \notin {"BEFORE", "CW_CLNT_HELLO", "CR_SRVR_HELLO"}
    BY DEF ClientAsks, ClientPlace, Position
<1>2. IsSsl(C, "client") /\ DOMAIN C = Fields /\ Typed(C)
    BY <1>1, ClientAgrees DEF IsSsl, TypeInv, Endpoint
<1>3. Reads(Queue("client"), q) /\ (m.mt = "Finished" => Genuine(S, m))
    BY <1>1, FromServerIs
<1>4. /\ Changes(C, s, {"reuse_message", "handshake_hash", "handshake_transcript"})
      /\ s.n = C.n /\ s.previous_server_finished = C.previous_server_finished /\ s.wbuf = C.wbuf
    BY <1>2, ReadKeeps
<1> HIDE DEF C, S
<1>5. CASE Fails(s, t)
    <2>1. TypedStep(C, t)
        BY <1>2, <1>4, <1>5, TypedFails
    <2>2. t.state = "Failed" /\ t.n = s.n
        BY <1>5 DEF Fails, Changes, Fields
    <2>3. ClientWrote(C, t)
        BY <1>4, <1>5, FailsClientWrote
    <2> QED BY <1>1, <1>3, <1>4, <2>1, <2>2, <2>3, AgreeClientPlain DEF C, S
<1>6. CASE ~Fails(s, t)
    <2>1. /\ Changes(s, t, {"state", "ccs_ok", "reuse_message", "session", "handshake_transcript", "cert_request",
                            "send_cookie", "change_cipher_spec", "previous_server_finished"})
          /\ t.state \in ClientGoesOn /\ t.cert_request \in {s.cert_request, 0, 1}
          /\ t.reuse_message = Null \/ t.reuse_message = Some(m)
          /\ t.previous_server_finished = s.previous_server_finished
                \/ (m.mt = "Finished" /\ t.previous_server_finished = Some(m))
          /\ ClientState(cfg, t)
        BY <1>6 DEF ClientReading
    <2>2. /\ t.n = C.n /\ t.who = C.who /\ t.hit = C.hit /\ t.bbio = C.bbio /\ t.data = C.data /\ t.renegotiate = C.renegotiate
          /\ t.cert_request = C.cert_request \/ t.cert_request \in 0 .. 2
          /\ t.wbuf = C.wbuf /\ DOMAIN t = Fields
        BY <1>4, <2>1 DEF Changes, Fields
    <2>3. TypedStep(C, t)
        BY <1>2, <2>1, <2>2, TypedOn DEF ClientGoesOn, States, ReadStates
    <2>4. ClientWrote(C, t) /\ ~Starting(t)
        BY <2>1, <2>2, PlaceIs DEF ClientWrote, Starting, ClientGoesOn
    <2>5. t.previous_server_finished = C.previous_server_finished \/ Genuine(S, t.previous_server_finished[1])
        BY <1>3, <1>4, <2>1, SomeIs
    <2>6. t.reuse_message # Null => (t.reuse_message[1].mt = "Finished" => Genuine(S, t.reuse_message[1]))
        BY <1>3, <2>1, SomeIs
    <2> QED BY <1>1, <1>3, <2>1, <2>2, <2>3, <2>4, <2>5, <2>6, AgreeClientPlain DEF C, S
<1> QED BY <1>5, <1>6

-----------------------------------------------------------------------------
(* The steps of the client. *)

LEMMA AgreeGetsCertificate ==
    ASSUME AuthInv, AgreeInv, TypeInv, Get("client", "CR_CERT", ssl3_get_server_certificate)
    PROVE  AgreeInv' /\ TypeInv'
<1> DEFINE C == ssl["client"]
<1>1. PICK s, m, q : HasRead(C, s, m) /\ FromPeer("client", m, q) /\ Takes("client", ssl3_get_server_certificate(s, m), q)
    BY KeptFrom, NextFrom DEF Get, Reused, ssl3_get_message, Incoming, Endpoint
<1> DEFINE t == ssl3_get_server_certificate(s, m)
<1>2. C.state = "CR_CERT" /\ ClientAt(C, "CR_CERT") /\ DOMAIN C = Fields /\ DOMAIN C.session = SessionFields
    BY ClientAgrees DEF Get, ClientAt, IsSsl
<1>3. DOMAIN s = Fields /\ DOMAIN s.session = SessionFields /\ s.reuse_message = Null
    BY <1>1, <1>2, ReadKeeps
<1>4. Fails(s, t) \/ ClientState(cfg, t)
    BY <1>1, <1>2, AgreeServerCertificate
<1>5. ClientReading(s, m, t)
    <2>1. \/ Fails(s, t)
          \/ /\ Changes(s, t, {"state", "ccs_ok", "reuse_message"}) /\ t.reuse_message = Some(m)
             /\ t.state \in {"CR_CERT_STATUS", "CR_KEY_EXCH"}
          \/ /\ Changes(s, t, {"state", "ccs_ok", "session"}) /\ t.state \in {"CR_CERT_STATUS", "CR_KEY_EXCH"}
        BY <1>3, ServerCertificateSheet
    <2> HIDE DEF t
    <2> QED BY <1>3, <2>1 DEF ClientReading, Changes, Fields, ClientGoesOn
<1>6. Takes("client", t, q)
    BY <1>1
<1> HIDE DEF t
<1> QED BY <1>1, <1>2, <1>4, <1>5, <1>6, AgreeClientReads DEF ClientAsks, Verifying

LEMMA AgreeGetsStatus ==
    ASSUME AuthInv, AgreeInv, TypeInv, Get("client", "CR_CERT_STATUS", ssl3_get_cert_status)
    PROVE  AgreeInv' /\ TypeInv'
<1> DEFINE C == ssl["client"]
<1>1. PICK s, m, q : HasRead(C, s, m) /\ FromPeer("client", m, q) /\ Takes("client", ssl3_get_cert_status(s, m), q)
    BY KeptFrom, NextFrom DEF Get, Reused, ssl3_get_message, Incoming, Endpoint
<1> DEFINE t == ssl3_get_cert_status(s, m)
<1>2. C.state = "CR_CERT_STATUS" /\ ClientAt(C, "CR_CERT_STATUS") /\ DOMAIN C = Fields /\ DOMAIN C.session = SessionFields
    BY ClientAgrees DEF Get, ClientAt, IsSsl
<1>3. DOMAIN s = Fields /\ DOMAIN s.session = SessionFields /\ s.reuse_message = Null
    BY <1>1, <1>2, ReadKeeps
<1>4. Fails(s, t) \/ ClientState(cfg, t)
    BY <1>1, <1>2, AgreeCertStatus
<1>5. ClientReading(s, m, t)
    <2>1. \/ Fails(s, t)
          \/ /\ Changes(s, t, {"state", "ccs_ok", "reuse_message"})
             /\ t.state \in {"CR_KEY_EXCH"} /\ t.reuse_message \in {Null, Some(m)}
        BY <1>3, CertStatusSheet DEF Changes, Fields
    <2> HIDE DEF t
    <2> QED BY <1>3, <2>1 DEF ClientReading, Changes, Fields, ClientGoesOn
<1>6. Takes("client", t, q)
    BY <1>1
<1> HIDE DEF t
<1> QED BY <1>1, <1>2, <1>4, <1>5, <1>6, AgreeClientReads DEF ClientAsks, Verifying

LEMMA AgreeGetsKeyExchange ==
    ASSUME AuthInv, AgreeInv, TypeInv, Get("client", "CR_KEY_EXCH", ssl3_get_server_key_exchange)
    PROVE  AgreeInv' /\ TypeInv'
<1> DEFINE C == ssl["client"]
<1>1. PICK s, m, q : HasRead(C, s, m) /\ FromPeer("client", m, q) /\ Takes("client", ssl3_get_server_key_exchange(s, m), q)
    BY KeptFrom, NextFrom DEF Get, Reused, ssl3_get_message, Incoming, Endpoint
<1> DEFINE t == ssl3_get_server_key_exchange(s, m)
<1>2. C.state = "CR_KEY_EXCH" /\ ClientAt(C, "CR_KEY_EXCH") /\ DOMAIN C = Fields /\ DOMAIN C.session = SessionFields
    BY ClientAgrees DEF Get, ClientAt, IsSsl
<1>3. DOMAIN s = Fields /\ DOMAIN s.session = SessionFields /\ s.reuse_message = Null
    BY <1>1, <1>2, ReadKeeps
<1>4. Fails(s, t) \/ ClientState(cfg, t)
    BY <1>1, <1>2, AgreeServerKeyExchange
<1>5. ClientReading(s, m, t)
    <2>1. \/ Fails(s, t)
          \/ /\ Changes(s, t, {"state", "ccs_ok", "reuse_message"})
             /\ t.state \in {"CR_CERT_REQ"} /\ t.reuse_message \in {Null, Some(m)}
        BY <1>3, ServerKeyExchangeSheet DEF Changes, Fields
    <2> HIDE DEF t
    <2> QED BY <1>3, <2>1 DEF ClientReading, Changes, Fields, ClientGoesOn
<1>6. Takes("client", t, q)
    BY <1>1
<1> HIDE DEF t
<1> QED BY <1>1, <1>2, <1>4, <1>5, <1>6, AgreeClientReads DEF ClientAsks, Verifying

LEMMA AgreeGetsRequest ==
    ASSUME AuthInv, AgreeInv, TypeInv, Get("client", "CR_CERT_REQ", ssl3_get_certificate_request)
    PROVE  AgreeInv' /\ TypeInv'
<1> DEFINE C == ssl["client"]
<1>1. PICK s, m, q : HasRead(C, s, m) /\ FromPeer("client", m, q) /\ Takes("client", ssl3_get_certificate_request(s, m), q)
    BY KeptFrom, NextFrom DEF Get, Reused, ssl3_get_message, Incoming, Endpoint
<1> DEFINE t == ssl3_get_certificate_request(s, m)
<1>2. C.state = "CR_CERT_REQ" /\ ClientAt(C, "CR_CERT_REQ") /\ DOMAIN C = Fields /\ DOMAIN C.session = SessionFields
    BY ClientAgrees DEF Get, ClientAt, IsSsl
<1>3. DOMAIN s = Fields /\ DOMAIN s.session = SessionFields /\ s.reuse_message = Null
    BY <1>1, <1>2, ReadKeeps
<1>4. Fails(s, t) \/ ClientState(cfg, t)
    BY <1>1, <1>2, AgreeCertificateRequest
<1>5. ClientReading(s, m, t)
    <2>1. \/ Fails(s, t)
          \/ /\ Changes(s, t, {"state", "ccs_ok", "reuse_message", "handshake_transcript", "cert_request"})
             /\ t.state \in {"CR_SRVR_DONE"} /\ t.reuse_message \in {Null, Some(m)} /\ t.cert_request \in {0, 1}
        BY <1>3, CertificateRequestSheet DEF Changes, Fields
    <2> HIDE DEF t
    <2> QED BY <1>3, <2>1 DEF ClientReading, Changes, Fields, ClientGoesOn
<1>6. Takes("client", t, q)
    BY <1>1
<1> HIDE DEF t
<1> QED BY <1>1, <1>2, <1>4, <1>5, <1>6, AgreeClientReads DEF ClientAsks, Verifying

LEMMA AgreeGetsDone ==
    ASSUME AuthInv, AgreeInv, TypeInv, Get("client", "CR_SRVR_DONE", ssl3_get_server_done)
    PROVE  AgreeInv' /\ TypeInv'
<1> DEFINE C == ssl["client"]
<1>1. PICK s, m, q : HasRead(C, s, m) /\ FromPeer("client", m, q) /\ Takes("client", ssl3_get_server_done(s, m), q)
    BY KeptFrom, NextFrom DEF Get, Reused, ssl3_get_message, Incoming, Endpoint
<1> DEFINE t == ssl3_get_server_done(s, m)
<1>2. C.state = "CR_SRVR_DONE" /\ ClientAt(C, "CR_SRVR_DONE") /\ DOMAIN C = Fields /\ DOMAIN C.session = SessionFields
    BY ClientAgrees DEF Get, ClientAt, IsSsl
<1>3. DOMAIN s = Fields /\ DOMAIN s.session = SessionFields /\ s.reuse_message = Null
    BY <1>1, <1>2, ReadKeeps
<1>4. Fails(s, t) \/ ClientState(cfg, t)
    BY <1>1, <1>2, AgreeServerDone
<1>5. ClientReading(s, m, t)
    <2>1. \/ Fails(s, t)
          \/ /\ Changes(s, t, {"state", "ccs_ok"})
             /\ t.state \in {"CW_CERT", "CW_KEY_EXCH"} /\ t.reuse_message \in {Null, Some(m)}
        BY <1>3, ServerDoneSheet DEF Changes, Fields
    <2> HIDE DEF t
    <2> QED BY <1>3, <2>1 DEF ClientReading, Changes, Fields, ClientGoesOn
<1>6. Takes("client", t, q)
    BY <1>1
<1> HIDE DEF t
<1> QED BY <1>1, <1>2, <1>4, <1>5, <1>6, AgreeClientReads DEF ClientAsks, Verifying

LEMMA AgreeGetsFinished ==
    ASSUME AuthInv, AgreeInv, TypeInv, Get("client", "CR_FINISHED", ssl3_get_server_finished)
    PROVE  AgreeInv' /\ TypeInv'
<1> DEFINE C == ssl["client"]
<1>1. PICK s, m, q : HasRead(C, s, m) /\ FromPeer("client", m, q) /\ Takes("client", ssl3_get_server_finished(s, m), q)
    BY KeptFrom, NextFrom DEF Get, Reused, ssl3_get_message, Incoming, Endpoint
<1> DEFINE t == ssl3_get_server_finished(s, m)
<1>2. C.state = "CR_FINISHED" /\ ClientAt(C, "CR_FINISHED") /\ DOMAIN C = Fields /\ DOMAIN C.session = SessionFields
    BY ClientAgrees DEF Get, ClientAt, IsSsl
<1>3. DOMAIN s = Fields /\ DOMAIN s.session = SessionFields /\ s.who = "client" /\ s.reuse_message = Null
    BY <1>1, <1>2, ReadKeeps DEF ClientAt, IsSsl
<1>4. Fails(s, t) \/ ClientState(cfg, t)
    BY <1>1, <1>2, AgreeServerFinished
<1>5. ClientReading(s, m, t)
    <2> DEFINE state == IF s.hit THEN "CW_CHANGE" ELSE "ST_OK"
    <2>1. t = GetFinished(s, m, state) /\ state \in {"CW_CHANGE", "ST_OK"}
        BY DEF ssl3_get_server_finished
    <2> HIDE DEF t, state
    <2>2. \/ Fails(s, t)
          \/ /\ FinishedIsRight(s, m)
             /\ Changes(s, t, {"change_cipher_spec", "state",
                               IF s.who = "client" THEN "previous_server_finished" ELSE "previous_client_finished"})
             /\ t.previous_server_finished = Some(m) /\ t.state = state
        BY <1>3, <2>1, GetFinishedSheet DEF Endpoint
    <2> QED BY <1>3, <2>1, <2>2 DEF ClientReading, Changes, Fields, ClientGoesOn, FinishedIsRight
<1>6. Takes("client", t, q)
    BY <1>1
<1> HIDE DEF t
<1> QED BY <1>1, <1>2, <1>4, <1>5, <1>6, AgreeClientReads DEF ClientAsks, Verifying

LEMMA AgreeGetsTicket ==
    ASSUME AuthInv, AgreeInv, TypeInv, Get("client", "CR_SESSION_TICKET", ssl3_get_new_session_ticket)
    PROVE  AgreeInv' /\ TypeInv'
<1> DEFINE C == ssl["client"]
<1>1. PICK s, m, q : HasRead(C, s, m) /\ FromPeer("client", m, q) /\ Takes("client", ssl3_get_new_session_ticket(s, m), q)
    BY KeptFrom, NextFrom DEF Get, Reused, ssl3_get_message, Incoming, Endpoint
<1> DEFINE t == ssl3_get_new_session_ticket(s, m)
<1>2. C.state = "CR_SESSION_TICKET" /\ ClientAt(C, "CR_SESSION_TICKET") /\ DOMAIN C = Fields /\ DOMAIN C.session = SessionFields
    BY ClientAgrees DEF Get, ClientAt, IsSsl
<1>3. DOMAIN s = Fields /\ DOMAIN s.session = SessionFields /\ s.reuse_message = Null
    BY <1>1, <1>2, ReadKeeps
<1>a. C.reuse_message = Null
    BY <1>2 DEF AuthInv, Auth, ClientAuth, ClientKeeps
<1>b. ASSUME m.mt = "NewSessionTicket" PROVE ~C.change_cipher_spec
    <2>1. /\ Number(C.rkey) < ssl["server"].cr /\ Number(C.rkey) \in Nat
          /\ LinkC(cfg, C, ssl["server"], Queue("client")) /\ ClientState(cfg, C) /\ IsSsl(C, "client")
        BY <1>1, <1>2, <1>a, <1>b, FromServerIs, ClientAgrees
    <2>2. ClientPlace(C) = "CR_SESSION_TICKET"
        BY <1>2, PlaceIs
    <2> HIDE DEF C
    <2>3. ssl["server"].cr = C.n
        BY <2>1, <2>2 DEF LinkC
    <2>4. ClientAwaiting(C)
        BY <2>1, <2>2 DEF ClientState
    <2>5. C.cr = C.n /\ (C.change_cipher_spec => C.rkey = KeyOf(Peer(C.who), C))
        BY <2>4 DEF ClientAwaiting, CcsRead
    <2> QED BY <2>1, <2>3, <2>5, NumberOf
<1>4. Fails(s, t) \/ ClientState(cfg, t)
    BY <1>1, <1>2, <1>a, <1>b, AgreeTicket
<1>5. ClientReading(s, m, t)
    <2>1. \/ Fails(s, t)
          \/ /\ Changes(s, t, {"state", "ccs_ok", "reuse_message", "session"})
             /\ t.state \in {"CR_FINISHED"} /\ t.reuse_message \in {Null, Some(m)}
        BY <1>3, NewSessionTicketSheet DEF Changes, Fields
    <2> HIDE DEF t
    <2> QED BY <1>3, <2>1 DEF ClientReading, Changes, Fields, ClientGoesOn
<1>6. Takes("client", t, q)
    BY <1>1
<1> HIDE DEF t
<1> QED BY <1>1, <1>2, <1>4, <1>5, <1>6, AgreeClientReads DEF ClientAsks, Verifying

LEMMA AgreeGetsVerify ==
    ASSUME AuthInv, AgreeInv, TypeInv, Get("client", "CR_HELLO_VERIFY", ssl3_get_dtls_hello_verify), ~Verifying(ssl["client"])
    PROVE  AgreeInv' /\ TypeInv'
<1> DEFINE C == ssl["client"]
<1>1. PICK s, m, q : HasRead(C, s, m) /\ FromPeer("client", m, q) /\ Takes("client", ssl3_get_dtls_hello_verify(s, m), q)
    BY KeptFrom, NextFrom DEF Get, Reused, ssl3_get_message, Incoming, Endpoint
<1> DEFINE t == ssl3_get_dtls_hello_verify(s, m)
<1>2. C.state = "CR_HELLO_VERIFY" /\ ClientAt(C, "CR_HELLO_VERIFY") /\ DOMAIN C = Fields /\ DOMAIN C.session = SessionFields
    BY ClientAgrees DEF Get, ClientAt, IsSsl
<1>3. DOMAIN s = Fields /\ DOMAIN s.session = SessionFields /\ s.reuse_message = Null
    BY <1>1, <1>2, ReadKeeps
<1>a. C.reuse_message = Null /\ cfg.dtls
    BY <1>2 DEF AuthInv, Auth, ClientAuth, Verifying
<1>b. m.mt # "HelloVerifyRequest"
    <2>1. ClientPlace(C) = "CR_HELLO_VERIFY"
        BY <1>2 DEF ClientPlace, Position
    <2>2. ssl["server"].cr = C.n /\ C.n \in Nat
        BY <1>2, <2>1, ClientAgrees DEF LinkC
    <2> QED BY <1>1, <1>2, <1>a, <2>2, FromServerIs
<1>4. Fails(s, t) \/ ClientState(cfg, t)
    BY <1>1, <1>2, <1>a, <1>b, AgreeHelloVerify
<1>5. ClientReading(s, m, t)
    <2>1. \/ Fails(s, t)
          \/ /\ Changes(s, t, {"state", "ccs_ok", "reuse_message", "send_cookie"})
             /\ t.state \in {"CR_CERT"} /\ t.reuse_message \in {Null, Some(m)}
        BY <1>3, <1>b, HelloVerifySheet DEF Changes, Fields
    <2> HIDE DEF t
    <2> QED BY <1>3, <2>1 DEF ClientReading, Changes, Fields, ClientGoesOn
<1>6. Takes("client", t, q)
    BY <1>1
<1> HIDE DEF t
<1> QED BY <1>1, <1>2, <1>4, <1>5, <1>6, <1>a, AgreeClientReads DEF ClientAsks, Verifying

LEMMA ClientIn ==
    ASSUME AuthInv, AgreeInv, TypeInv, ssl["client"].state # "Failed"
    PROVE  LET C == ssl["client"]
           IN  /\ ClientAt(C, C.state) /\ DOMAIN C = Fields /\ DOMAIN C.session = SessionFields /\ C.who = "client"
               /\ Typed(C) /\ ClientAuth(cfg, C) /\ ClientState(cfg, C)
               /\ Changes(C, C, {"reuse_message", "handshake_hash", "handshake_transcript"})
    BY ClientAgrees DEF ClientAt, IsSsl, TypeInv, Endpoint, AuthInv, Auth, Changes

LEMMA AgreeClientDies ==
    ASSUME AuthInv, AgreeInv, TypeInv, NEW s, NEW t, NEW q, Takes("client", t, q), Reads(Queue("client"), q),
           ssl["client"].state # "Failed", Fails(s, t),
           Changes(ssl["client"], s, {"reuse_message", "handshake_hash", "handshake_transcript"})
    PROVE  AgreeInv' /\ TypeInv'
<1> DEFINE C == ssl["client"]
<1>1. Typed(C) /\ DOMAIN C = Fields
    BY ClientIn
<1> HIDE DEF C
<1>2. TypedStep(C, t)
    BY <1>1, TypedFails DEF C
<1>3. t.state = "Failed" /\ t.n = C.n
    BY DEF Fails, Changes, Fields, C
<1>4. s.wbuf = C.wbuf
    BY DEF Changes, Fields, C
<1>5. ClientWrote(C, t)
    BY <1>4, FailsClientWrote
<1> QED BY <1>2, <1>3, <1>5, AgreeClientPlain DEF C

LEMMA SentClientWrote ==
    ASSUME NEW C, NEW t, NEW m, Sent(C, t, m), m.mt # "ClientHello"
    PROVE  ClientWrote(C, t)
<1>1. ~Is(WireRecord(C, "handshake", m), "ClientHello") /\ WireRecord(C, "handshake", m).type = "handshake"
    BY DEF Is, WireRecord
<1> QED BY <1>1 DEF Sent, ClientWrote

(* What the client does when it writes. *)
LEMMA AgreeClientGoes ==
    ASSUME AuthInv, AgreeInv, TypeInv, NEW t, NEW q, Takes("client", t, q), Reads(Queue("client"), q),
           ClientPlace(ssl["client"]) \notin {"Failed", "BEFORE", "CW_CLNT_HELLO", "CR_SRVR_HELLO"},
           Changes(ssl["client"], t, {"state", "next_state", "ccs_ok", "session", "handshake_hash", "handshake_transcript",
                                      "cert_request", "change_cipher_spec", "wbuf", "key_block", "wkey",
                                      "previous_client_finished"}),
           t.cert_request \in {ssl["client"].cert_request, 2}, ClientWrote(ssl["client"], t), ClientState(cfg, t),
           t.state \in {"CR_KEY_EXCH", "CW_KEY_EXCH", "CW_CERT_VRFY", "CW_CHANGE", "CW_FINISHED", "FLUSH"},
           t.state = "FLUSH" => t.next_state \in {"ST_OK", "CR_SESSION_TICKET", "CR_FINISHED"}
    PROVE  AgreeInv' /\ TypeInv'
<1> DEFINE C == ssl["client"]
<1>1. C.state # "Failed"
    BY DEF ClientPlace, Position, Verifying
<1>2. Typed(C)
    BY <1>1, ClientIn
<1> HIDE DEF C
<1>3. /\ DOMAIN t = Fields /\ t.who = C.who /\ t.hit = C.hit /\ t.bbio = C.bbio /\ t.data = C.data /\ t.renegotiate = C.renegotiate
      /\ t.n = C.n /\ t.previous_server_finished = C.previous_server_finished /\ t.reuse_message = C.reuse_message
    BY DEF Changes, Fields, C
<1>4. TypedStep(C, t)
    BY <1>2, <1>3, TypedOn DEF States, ReadStates, C
<1>5. ~Starting(t)
    BY PlaceIs DEF Starting
<1> QED BY <1>1, <1>3, <1>4, <1>5, AgreeClientPlain DEF C

LEMMA AgreeCertificates ==
    ASSUME AuthInv, AgreeInv, TypeInv, Do("client", "CW_CERT", ssl3_send_client_certificate)
    PROVE  AgreeInv' /\ TypeInv'
<1> DEFINE C == ssl["client"]
           t == ssl3_send_client_certificate(C)
<1>1. C.state = "CW_CERT" /\ Takes("client", t, Queue("client")) /\ Reads(Queue("client"), Queue("client"))
    BY DEF Do, Takes, Reads
<1>2. /\ ClientAt(C, "CW_CERT") /\ DOMAIN C = Fields /\ DOMAIN C.session = SessionFields /\ C.who = "client"
      /\ Changes(C, C, {"reuse_message", "handshake_hash", "handshake_transcript"})
    BY <1>1, ClientIn
<1>3. ClientPlace(C) = "CW_CERT"
    BY <1>1, PlaceIs
<1>4. ClientState(cfg, t)
    BY <1>2, AgreeClientCertificate
<1>5. (/\ Changes(C, t, {"state", "next_state", "ccs_ok", "session", "handshake_hash", "handshake_transcript",
                        "cert_request", "change_cipher_spec", "wbuf", "key_block", "wkey",
                        "previous_client_finished"})
      /\ t.cert_request \in {C.cert_request, 2} /\ ClientWrote(C, t) /\ t.state = "CW_KEY_EXCH")
    <2>1. /\ Changes(C, t, {"state", "ccs_ok", "wbuf", "handshake_hash", "handshake_transcript", "cert_request"})
          /\ t.state = "CW_KEY_EXCH" /\ t.cert_request \in {2, C.cert_request}
          /\ \E chain \in BOOLEAN : Sent(C, t, Certificate(chain))
        BY <1>2, ClientCertificateSheet
    <2> HIDE DEF t
    <2>2. ClientWrote(C, t)
        <3>1. PICK chain \in BOOLEAN : Sent(C, t, Certificate(chain))
            BY <2>1
        <3>2. Certificate(chain).mt # "ClientHello"
            BY DEF Certificate, Message
        <3> QED BY <3>1, <3>2, SentClientWrote
    <2> QED BY <2>1, <2>2 DEF Changes, Fields
<1> HIDE DEF t
<1> QED BY <1>1, <1>2, <1>3, <1>4, <1>5, AgreeClientGoes

LEMMA AgreeKeyExchanges ==
    ASSUME AuthInv, AgreeInv, TypeInv, Do("client", "CW_KEY_EXCH", ssl3_send_client_key_exchange)
    PROVE  AgreeInv' /\ TypeInv'
<1> DEFINE C == ssl["client"]
           t == ssl3_send_client_key_exchange(C)
<1>1. C.state = "CW_KEY_EXCH" /\ Takes("client", t, Queue("client")) /\ Reads(Queue("client"), Queue("client"))
    BY DEF Do, Takes, Reads
<1>2. /\ ClientAt(C, "CW_KEY_EXCH") /\ DOMAIN C = Fields /\ DOMAIN C.session = SessionFields /\ C.who = "client"
      /\ Changes(C, C, {"reuse_message", "handshake_hash", "handshake_transcript"})
    BY <1>1, ClientIn
<1>3. ClientPlace(C) = "CW_KEY_EXCH"
    BY <1>1, PlaceIs
<1>4. ClientState(cfg, t)
    BY <1>2, AgreeClientKeyExchange
<1>5. (/\ Changes(C, t, {"state", "next_state", "ccs_ok", "session", "handshake_hash", "handshake_transcript",
                        "cert_request", "change_cipher_spec", "wbuf", "key_block", "wkey",
                        "previous_client_finished"})
      /\ t.cert_request \in {C.cert_request, 2} /\ ClientWrote(C, t) /\ t.state \in {"CW_CERT_VRFY", "CW_CHANGE"})
    <2> DEFINE m == Message("ClientKeyExchange", [pre |-> C.n])
    <2>1. /\ Changes(C, t, {"state", "ccs_ok", "wbuf", "handshake_hash", "handshake_transcript", "session",
                            "change_cipher_spec"})
          /\ t.state \in {"CW_CERT_VRFY", "CW_CHANGE"} /\ Sent(C, t, m)
        BY <1>2, ClientKeyExchangeSheet
    <2>a. m.mt # "ClientHello"
        BY DEF Message
    <2> HIDE DEF t, m
    <2>2. ClientWrote(C, t)
        BY <2>1, <2>a, SentClientWrote
    <2> QED BY <2>1, <2>2 DEF Changes, Fields
<1> HIDE DEF t
<1> QED BY <1>1, <1>2, <1>3, <1>4, <1>5, AgreeClientGoes

LEMMA AgreeFinishes ==
    ASSUME AuthInv, AgreeInv, TypeInv, Do("client", "CW_FINISHED", ssl3_send_client_finished)
    PROVE  AgreeInv' /\ TypeInv'
<1> DEFINE C == ssl["client"]
           t == ssl3_send_client_finished(C)
<1>1. C.state = "CW_FINISHED" /\ Takes("client", t, Queue("client")) /\ Reads(Queue("client"), Queue("client"))
    BY DEF Do, Takes, Reads
<1>2. /\ ClientAt(C, "CW_FINISHED") /\ DOMAIN C = Fields /\ DOMAIN C.session = SessionFields /\ C.who = "client"
      /\ Changes(C, C, {"reuse_message", "handshake_hash", "handshake_transcript"})
    BY <1>1, ClientIn
<1>3. ClientPlace(C) = "CW_FINISHED"
    BY <1>1, PlaceIs
<1>a. C.reuse_message = Null
    BY <1>1, <1>2, ClientIn DEF ClientAuth, ClientKeeps
<1>4. ClientState(cfg, t)
    BY <1>2, <1>a, AgreeClientFinished
<1>5. (/\ Changes(C, t, {"state", "next_state", "ccs_ok", "session", "handshake_hash", "handshake_transcript",
                        "cert_request", "change_cipher_spec", "wbuf", "key_block", "wkey",
                        "previous_client_finished"})
      /\ t.cert_request \in {C.cert_request, 2} /\ ClientWrote(C, t) /\ t.state = "FLUSH" /\ t.next_state \in {"ST_OK", "CR_SESSION_TICKET", "CR_FINISHED"})
    <2> DEFINE m == VerifyData(C, "client")
    <2>1. /\ Changes(C, t, {"wbuf", "handshake_hash", "handshake_transcript", "previous_client_finished", "ccs_ok",
                            "state", "next_state"})
          /\ t.state = "FLUSH" /\ t.next_state \in {"ST_OK", "CR_SESSION_TICKET", "CR_FINISHED"} /\ Sent(C, t, m)
        BY <1>2, ClientFinishedSheet
    <2>a. m.mt # "ClientHello"
        BY DEF Message, VerifyData
    <2> HIDE DEF t, m
    <2>2. ClientWrote(C, t)
        BY <2>1, <2>a, SentClientWrote
    <2> QED BY <2>1, <2>2 DEF Changes, Fields
<1> HIDE DEF t
<1> QED BY <1>1, <1>2, <1>3, <1>4, <1>5, AgreeClientGoes

LEMMA AgreeChanges ==
    ASSUME AuthInv, AgreeInv, TypeInv, Do("client", "CW_CHANGE", ssl3_send_client_change_cipher_spec)
    PROVE  AgreeInv' /\ TypeInv'
<1> DEFINE C == ssl["client"]
           t == ssl3_send_client_change_cipher_spec(C)
<1>1. C.state = "CW_CHANGE" /\ Takes("client", t, Queue("client")) /\ Reads(Queue("client"), Queue("client"))
    BY DEF Do, Takes, Reads
<1>2. /\ ClientAt(C, "CW_CHANGE") /\ DOMAIN C = Fields /\ DOMAIN C.session = SessionFields /\ C.who = "client"
      /\ Changes(C, C, {"reuse_message", "handshake_hash", "handshake_transcript"})
    BY <1>1, ClientIn
<1>3. ClientPlace(C) = "CW_CHANGE"
    BY <1>1, PlaceIs
<1>4. ClientState(cfg, t)
    BY <1>2, AgreeClientChange
<1>5. (/\ Changes(C, t, {"state", "next_state", "ccs_ok", "session", "handshake_hash", "handshake_transcript",
                        "cert_request", "change_cipher_spec", "wbuf", "key_block", "wkey",
                        "previous_client_finished"})
      /\ t.cert_request \in {C.cert_request, 2} /\ ClientWrote(C, t) /\ t.state = "CW_FINISHED")
    <2>1. /\ Changes(C, t, {"state", "wbuf", "key_block", "wkey"}) /\ t.state = "CW_FINISHED"
          /\ t.wbuf = Append(C.wbuf, WireRecord(C, "ccs", NoMessage))
        BY <1>2, ChangeCipherSpecSheet DEF ssl3_send_client_change_cipher_spec
    <2> HIDE DEF t
    <2>2. WireRecord(C, "ccs", NoMessage).key = C.wkey /\ ~Is(WireRecord(C, "ccs", NoMessage), "ClientHello")
        BY DEF WireRecord, Is
    <2>3. ClientWrote(C, t)
        BY <1>1, <2>1, <2>2 DEF ClientWrote
    <2> QED BY <2>1, <2>3 DEF Changes, Fields
<1> HIDE DEF t
<1> QED BY <1>1, <1>2, <1>3, <1>4, <1>5, AgreeClientGoes

LEMMA AgreeSkips ==
    ASSUME AuthInv, AgreeInv, TypeInv, Do("client", "CR_CERT", SkipServerCertificate)
    PROVE  AgreeInv' /\ TypeInv'
<1> DEFINE C == ssl["client"]
           t == SkipServerCertificate(C)
<1>1. C.state = "CR_CERT" /\ Takes("client", t, Queue("client")) /\ Reads(Queue("client"), Queue("client"))
    BY DEF Do, Takes, Reads
<1>2. /\ ClientAt(C, "CR_CERT") /\ DOMAIN C = Fields /\ DOMAIN C.session = SessionFields /\ C.who = "client"
      /\ Changes(C, C, {"reuse_message", "handshake_hash", "handshake_transcript"})
    BY <1>1, ClientIn
<1>3. ClientPlace(C) = "CR_CERT"
    BY <1>1, PlaceIs
<1>4. ClientState(cfg, t)
    BY <1>2, AgreeSkip
<1>5. (/\ Changes(C, t, {"state", "next_state", "ccs_ok", "session", "handshake_hash", "handshake_transcript",
                        "cert_request", "change_cipher_spec", "wbuf", "key_block", "wkey",
                        "previous_client_finished"})
      /\ t.cert_request \in {C.cert_request, 2} /\ ClientWrote(C, t) /\ t.state = "CR_KEY_EXCH")
    <2>1. Changes(C, t, {"state", "ccs_ok"}) /\ t.state = "CR_KEY_EXCH"
        BY <1>2, SkipServerCertificateSheet
    <2> HIDE DEF t
    <2> QED BY <2>1 DEF Changes, Fields, ClientWrote
<1> HIDE DEF t
<1> QED BY <1>1, <1>2, <1>3, <1>4, <1>5, AgreeClientGoes

LEMMA AgreeSigns ==
    ASSUME AuthInv, AgreeInv, TypeInv, Do("client", "CW_CERT_VRFY", ssl3_send_client_verify)
    PROVE  AgreeInv' /\ TypeInv'
<1> DEFINE C == ssl["client"]
           t == ssl3_send_client_verify(C)
<1>1. C.state = "CW_CERT_VRFY" /\ Takes("client", t, Queue("client")) /\ Reads(Queue("client"), Queue("client"))
    BY DEF Do, Takes, Reads
<1>2. /\ ClientAt(C, "CW_CERT_VRFY") /\ DOMAIN C = Fields /\ DOMAIN C.session = SessionFields /\ C.who = "client"
      /\ Changes(C, C, {"reuse_message", "handshake_hash", "handshake_transcript"})
    BY <1>1, ClientIn
<1>3. ClientPlace(C) = "CW_CERT_VRFY"
    BY <1>1, PlaceIs
<1>4. Fails(C, t) \/ ClientState(cfg, t)
    BY <1>2, AgreeClientVerify
<1>5. Fails(C, t) \/ (/\ Changes(C, t, {"state", "next_state", "ccs_ok", "session", "handshake_hash", "handshake_transcript",
                        "cert_request", "change_cipher_spec", "wbuf", "key_block", "wkey",
                        "previous_client_finished"})
      /\ t.cert_request \in {C.cert_request, 2} /\ ClientWrote(C, t) /\ t.state = "CW_CHANGE")
    <2>1. CASE Fails(C, t)
        BY <2>1
    <2>2. CASE ~Fails(C, t)
        <3>1. /\ t.state = "CW_CHANGE" /\ Changes(C, t, {"state", "ccs_ok", "wbuf", "handshake_hash",
                                                          "handshake_transcript", "change_cipher_spec"})
              /\ \E signed : Sent(C, t, Message("CertificateVerify", [signed |-> signed]))
            BY <1>2, <2>2, ClientVerifySheet
        <3> HIDE DEF t
        <3>2. ClientWrote(C, t)
            <4>1. PICK signed : Sent(C, t, Message("CertificateVerify", [signed |-> signed]))
                BY <3>1
            <4>2. Message("CertificateVerify", [signed |-> signed]).mt # "ClientHello"
                BY DEF Message
            <4> QED BY <4>1, <4>2, SentClientWrote
        <3> QED BY <3>1, <3>2 DEF Changes, Fields
    <2> QED BY <2>1, <2>2
<1> HIDE DEF t
<1> QED BY <1>1, <1>2, <1>3, <1>4, <1>5, AgreeClientGoes, AgreeClientDies

LEMMA AgreeEnds ==
    ASSUME AuthInv, AgreeInv, TypeInv, Do("client", "ST_OK", Connected)
    PROVE  AgreeInv' /\ TypeInv'
<1> DEFINE C == ssl["client"]
           t == Connected(C)
<1>1. C.state = "ST_OK" /\ Takes("client", t, Queue("client")) /\ Reads(Queue("client"), Queue("client"))
    BY DEF Do, Takes, Reads
<1>2. /\ ClientAt(C, "ST_OK") /\ DOMAIN C = Fields /\ Typed(C) /\ C.who = "client"
      /\ Changes(C, C, {"reuse_message", "handshake_hash", "handshake_transcript"})
    BY <1>1, ClientIn
<1>3. ClientPlace(C) = "ST_OK"
    BY <1>1, PlaceIs
<1>4. Fails(C, t) \/ ClientState(cfg, t)
    BY <1>2, AgreeConnected
<1>5. \/ Fails(C, t)
      \/ /\ Changes(C, t, {"state", "key_block", "bbio", "wbuf", "renegotiate", "new_session", "done"})
         /\ t.state = "Established" /\ ~t.bbio /\ t.wbuf = << >> /\ t.renegotiate = 0
    BY <1>2, ConnectedSheet
<1> HIDE DEF t
<1>6. CASE Fails(C, t)
    BY <1>1, <1>2, <1>6, AgreeClientDies
<1>7. CASE ~Fails(C, t)
    <2>1. /\ Changes(C, t, {"state", "key_block", "bbio", "wbuf", "renegotiate", "new_session", "done"})
          /\ t.state = "Established" /\ ~t.bbio /\ t.wbuf = << >> /\ t.renegotiate = 0
        BY <1>5, <1>7
    <2>2. /\ DOMAIN t = Fields /\ t.who = C.who /\ t.hit = C.hit /\ t.data = C.data /\ t.cert_request = C.cert_request
          /\ t.n = C.n /\ t.previous_server_finished = C.previous_server_finished /\ t.reuse_message = C.reuse_message
        BY <2>1 DEF Changes, Fields
    <2>3. TypedStep(C, t)
        BY <1>2, <2>1, <2>2 DEF TypedStep, Typed, States, ReadStates
    <2>4. ClientWrote(C, t) /\ ~Starting(t)
        BY <2>1, PlaceIs DEF ClientWrote, Starting
    <2> QED BY <1>1, <1>3, <1>4, <1>7, <2>2, <2>3, <2>4, AgreeClientPlain
<1> QED BY <1>6, <1>7

(* A step that leaves the handshake where it is. *)
LEMMA AgreeClientStays ==
    ASSUME AuthInv, AgreeInv, TypeInv, NEW t, NEW q, Takes("client", t, q), Reads(Queue("client"), q),
           ssl["client"].state # "Failed", Changes(ssl["client"], t, {"state", "ccs_ok", "flush", "wbuf", "data"}),
           ClientPlace(t) = ClientPlace(ssl["client"]), Position(t) = Position(ssl["client"]),
           t.state = ssl["client"].state \/ t.state \in {"CR_SRVR_HELLO", "ST_OK", "CR_SESSION_TICKET", "CR_FINISHED"},
           ssl["client"].state # "CW_FINISHED", ~Starting(ssl["client"]), ClientPlace(ssl["client"]) # "BEFORE",
           ClientWrote(ssl["client"], t), t.data \in 0 .. DataBound \/ t.data = ssl["client"].data
    PROVE  AgreeInv' /\ TypeInv'
<1> DEFINE C == ssl["client"]
<1>1. Typed(C) /\ ClientState(cfg, C)
    BY ClientIn
<1>2. Changes(C, t, Aside)
    BY DEF Changes, Aside, Fields
<1>3. ClientState(cfg, t)
    BY <1>1, <1>2, ClientFrame
<1>4. /\ DOMAIN t = Fields /\ t.who = C.who /\ t.hit = C.hit /\ t.cert_request = C.cert_request /\ t.renegotiate = C.renegotiate
      /\ t.bbio = C.bbio
      /\ t.n = C.n /\ t.previous_server_finished = C.previous_server_finished /\ t.reuse_message = C.reuse_message
    BY DEF Changes, Fields
<1>5. TypedStep(C, t)
    BY <1>1, <1>4 DEF Typed, TypedStep, States, ReadStates
<1>6. ~Starting(t) /\ ClientPlace(C) # "CW_CLNT_HELLO"
    BY DEF Starting
<1> QED BY <1>3, <1>4, <1>5, <1>6, AgreeClientPlain

LEMMA AgreeFlushes ==
    ASSUME AuthInv, AgreeInv, TypeInv, Do("client", "FLUSH", FlushBuffer)
    PROVE  AgreeInv' /\ TypeInv'
<1> DEFINE C == ssl["client"]
           t == FlushBuffer(C)
<1>1. C.state = "FLUSH" /\ Takes("client", t, Queue("client")) /\ Reads(Queue("client"), Queue("client"))
    BY DEF Do, Takes, Reads
<1>2. DOMAIN C = Fields /\ ClientAuth(cfg, C)
    BY <1>1, ClientIn
<1>3. Changes(C, t, {"state", "ccs_ok", "flush"}) /\ t.state = C.next_state
    BY <1>2, FlushSheet
<1> HIDE DEF t
<1>4. C.next_state \in {"CR_SRVR_HELLO", "ST_OK", "CR_SESSION_TICKET", "CR_FINISHED"}
    BY <1>1, <1>2 DEF ClientAuth
<1>5. /\ ClientPlace(t) = C.next_state /\ ClientPlace(C) = C.next_state
      /\ Position(t) = C.next_state /\ Position(C) = C.next_state
    BY <1>1, <1>3, <1>4, PlaceIs
<1>6. Changes(C, t, {"state", "ccs_ok", "flush", "wbuf", "data"}) /\ t.wbuf = C.wbuf /\ t.data = C.data
    BY <1>3 DEF Changes, Fields
<1> QED BY <1>1, <1>3, <1>4, <1>5, <1>6, AgreeClientStays DEF ClientWrote, Starting

(* What the record layer does for a client that waits. *)
LEMMA IncomingIs ==
    ASSUME AuthInv, NEW e \in Endpoint, net[e] # << >>
    PROVE  /\ IsSeq(Queue(e)) /\ Queue(e) # << >> /\ Queue(e)[1] = Head(net[e]) /\ 1 \in 1 .. Len(Queue(e))
           /\ Reads(Queue(e), Tail(Queue(e)))
<1>1. IsSeq(net[e]) /\ IsSeq(ssl[Peer(e)].wbuf) /\ Queue(e) = net[e] \o ssl[Peer(e)].wbuf /\ IsSeq(Queue(e))
    BY AuthQueues
<1>2. Queue(e) # << >> /\ Head(Queue(e)) = Head(net[e])
    BY <1>1, ConcatTail
<1>3. Head(Queue(e)) = Queue(e)[1] /\ Len(Queue(e)) \in Nat \ {0}
    BY <1>1, <1>2, SeqTail
<1>4. 1 \in 1 .. Len(Queue(e))
    BY <1>3
<1> QED BY <1>1, <1>2, <1>3, <1>4 DEF Reads

LEMMA ClientWaits ==
    ASSUME AuthInv, AgreeInv, TypeInv, Waits("client")
    PROVE  LET C == ssl["client"]
           IN  /\ C.state \in ReadStates /\ C.state # "Failed" /\ ClientAt(C, C.state) /\ C.reuse_message = Null
               /\ ClientPlace(C) = C.state /\ Position(C) = C.state /\ ~Starting(C) /\ ClientPlace(C) # "BEFORE"
<1> DEFINE C == ssl["client"]
<1>1. C.state \in ReadStates /\ C.reuse_message = Null
    BY DEF Waits
<1>2. C.state # "Failed"
    BY <1>1 DEF ReadStates
<1>3. ClientAt(C, C.state)
    BY <1>2, ClientIn
<1> HIDE DEF C
<1>4. C.state \notin {"FLUSH", "CW_CLNT_HELLO", "BEFORE"}
    BY <1>1 DEF ReadStates
<1>5. ClientPlace(C) = C.state /\ Position(C) = C.state
    BY <1>1, <1>4 DEF ClientPlace, Position, Verifying
<1> QED BY <1>1, <1>2, <1>3, <1>4, <1>5 DEF Starting, C

LEMMA AgreeClientDrops ==
    ASSUME AuthInv, AgreeInv, TypeInv, Waits("client"), net["client"] # << >>, NEW t, StepAfterRead("client", t),
           t \in {ssl["client"], Abort(ssl["client"]), Die(ssl["client"])}
    PROVE  AgreeInv' /\ TypeInv'
<1> DEFINE C == ssl["client"]
<1>1. Takes("client", t, Tail(Queue("client"))) /\ Reads(Queue("client"), Tail(Queue("client")))
    BY IncomingIs DEF Takes, Endpoint
<1>2. /\ C.state \in ReadStates /\ C.state # "Failed" /\ ~Starting(C) /\ ClientPlace(C) # "BEFORE"
      /\ C.state # "CW_FINISHED"
    BY ClientWaits DEF ReadStates
<1>3. DOMAIN C = Fields /\ Changes(C, C, {"reuse_message", "handshake_hash", "handshake_transcript"})
    BY <1>2, ClientIn
<1>4. Fails(C, Abort(C)) /\ Fails(C, Die(C))
    BY <1>3, AbortSheet, DieSheet
<1>5. CASE t = C
    <2>1. Changes(C, t, {"state", "ccs_ok", "flush", "wbuf", "data"}) /\ ClientWrote(C, t)
        BY <1>3, <1>5 DEF Changes, ClientWrote
    <2> QED BY <1>1, <1>2, <1>5, <2>1, AgreeClientStays
<1>6. CASE Fails(C, t)
    BY <1>1, <1>2, <1>3, <1>6, AgreeClientDies
<1> QED BY <1>4, <1>5, <1>6

LEMMA AgreeClientCcs ==
    ASSUME AuthInv, AgreeInv, TypeInv, ssl3_read_change_cipher_spec("client")
    PROVE  AgreeInv' /\ TypeInv'
<1> DEFINE C == ssl["client"]
           S == ssl["server"]
           t == ReadCcs(C)
<1>1. /\ Waits("client") /\ StepAfterRead("client", t) /\ net["client"] # << >>
      /\ Head(net["client"]).type = "ccs" /\ Head(net["client"]).key = C.rkey
    BY DEF ssl3_read_change_cipher_spec, Incoming, Opens
<1>2. /\ Takes("client", t, Tail(Queue("client"))) /\ Reads(Queue("client"), Tail(Queue("client")))
      /\ Queue("client")[1] = Head(net["client"]) /\ 1 \in 1 .. Len(Queue("client"))
    BY <1>1, IncomingIs DEF Takes, Endpoint
<1>3. /\ C.state \in ReadStates /\ C.state # "Failed" /\ ClientAt(C, C.state) /\ C.reuse_message = Null
      /\ ClientPlace(C) = C.state /\ Position(C) = C.state /\ ~Starting(C) /\ ClientPlace(C) # "BEFORE"
    BY <1>1, ClientWaits
<1>4. DOMAIN C = Fields /\ Typed(C) /\ C.who = "client"
    BY <1>3, ClientIn
<1>5. LinkC(cfg, C, S, Queue("client")) /\ S.cr \in Nat /\ S.cr <= C.n /\ C.n \in Nat
    BY <1>3, ClientAgrees
<1>6. \/ t.state = "Failed" /\ Changes(C, t, {"state", "wbuf", "flush", "ccs_ok", "change_cipher_spec"})
         /\ (t.wbuf = << >> \/ t.wbuf = Append(C.wbuf, WireRecord(C, "alert", NoMessage)))
      \/ Changes(C, t, {"ccs_ok", "change_cipher_spec", "key_block", "rkey", "peer_finished"})
    BY <1>4, ReadCcsSheet DEF Changes
<1>7. Number(C.rkey) < C.n
    <2>1. FromServer(cfg, C, S, Queue("client")[1])
        BY <1>2, <1>5 DEF LinkC
    <2> QED BY <1>1, <1>2, <1>5, <2>1 DEF FromServer
<1>8. t.state = "Failed" \/ ClientState(cfg, t)
    BY <1>3, <1>7, AgreeReadCcs
<1> HIDE DEF t, C, S
<1>9. CASE t.state = "Failed" /\ Changes(C, t, {"state", "wbuf", "flush", "ccs_ok", "change_cipher_spec"})
           /\ (t.wbuf = << >> \/ t.wbuf = Append(C.wbuf, WireRecord(C, "alert", NoMessage)))
    <2>1. /\ DOMAIN t = Fields /\ t.who = C.who /\ t.hit = C.hit /\ t.bbio = C.bbio /\ t.data = C.data
          /\ t.cert_request = C.cert_request /\ t.renegotiate = C.renegotiate /\ t.n = C.n
        BY <1>9 DEF Changes, Fields
    <2>2. TypedStep(C, t)
        BY <1>4, <1>9, <2>1, TypedOn DEF States
    <2>3. ClientWrote(C, t)
        BY <1>9 DEF ClientWrote, WireRecord, Is
    <2> QED BY <1>2, <1>3, <1>9, <2>1, <2>2, <2>3, AgreeClientPlain DEF C
<1>10. CASE Changes(C, t, {"ccs_ok", "change_cipher_spec", "key_block", "rkey", "peer_finished"})
    <2>1. /\ DOMAIN t = Fields /\ t.who = C.who /\ t.hit = C.hit /\ t.bbio = C.bbio /\ t.data = C.data /\ t.state = C.state
          /\ t.cert_request = C.cert_request /\ t.renegotiate = C.renegotiate /\ t.n = C.n /\ t.wbuf = C.wbuf
          /\ t.reuse_message = C.reuse_message /\ t.previous_server_finished = C.previous_server_finished
          /\ t.next_state = C.next_state
        BY <1>10 DEF Changes, Fields
    <2>2. TypedStep(C, t)
        BY <1>4, <2>1 DEF Typed, TypedStep
    <2>3. ClientWrote(C, t)
        BY <2>1 DEF ClientWrote
    <2>4. ClientPlace(t) = ClientPlace(C)
        BY <2>1 DEF ClientPlace, Position, Verifying
    <2> QED BY <1>2, <1>3, <1>8, <2>1, <2>2, <2>3, <2>4, AgreeClientPlain DEF C, S, Starting
<1> QED BY <1>6, <1>9, <1>10

LEMMA AgreeClientBegs ==
    ASSUME AuthInv, AgreeInv, TypeInv, NEW t, NEW q, Takes("client", t, q), Reads(Queue("client"), q),
           ssl["client"].state = "Established", t.state = "RENEGOTIATE", t.renegotiate \in {ssl["client"].renegotiate, 1},
           Changes(ssl["client"], t, {"state", "renegotiate", "new_session", "total_renegotiations"})
    PROVE  AgreeInv' /\ TypeInv'
<1> DEFINE C == ssl["client"]
<1>1. ClientAt(C, "Established") /\ Typed(C) /\ C.who = "client"
    BY ClientIn
<1>2. /\ DOMAIN t = Fields /\ t.who = C.who /\ t.hit = C.hit /\ t.bbio = C.bbio /\ t.data = C.data /\ t.cert_request = C.cert_request
      /\ t.n = C.n /\ t.wbuf = C.wbuf
      /\ t.reuse_message = C.reuse_message /\ t.previous_server_finished = C.previous_server_finished
    BY DEF Changes, Fields
<1>3. Changes(C, t, Aside)
    BY DEF Changes, Aside
<1>4. ClientState(cfg, t)
    BY <1>1, <1>3, AgreeRenegotiate
<1>5. TypedStep(C, t)
    BY <1>1, <1>2 DEF Typed, TypedStep, States
<1>6. ClientPlace(C) = "Established" /\ ~Starting(t)
    BY PlaceIs DEF Starting
<1> QED BY <1>2, <1>4, <1>5, <1>6, AgreeClientPlain DEF ClientWrote

LEMMA AgreeClientReadBytes ==
    ASSUME AuthInv, AgreeInv, TypeInv, ssl3_read_bytes("client")
    PROVE  AgreeInv' /\ TypeInv'
<1> DEFINE C == ssl["client"]
<1>1. CASE ssl3_read_change_cipher_spec("client")
    BY <1>1, AgreeClientCcs
<1>2. CASE ssl3_read_alert("client")
    BY <1>2, AgreeClientDrops DEF ssl3_read_alert, Incoming
<1>3. CASE BadRecord("client")
    BY <1>3, AgreeClientDrops DEF BadRecord
<1>4. CASE SkipHelloRequest("client")
    BY <1>4, AgreeClientDrops DEF SkipHelloRequest, Incoming
<1>5. CASE ReadData("client")
    <2>1. PICK call \in cfg.calls :
            StepAfterRead("client", IF MayReadData(ssl["client"], call) THEN ssl["client"] ELSE Abort(ssl["client"]))
      BY <1>5 DEF ReadData
    <2>2. Waits("client") /\ Incoming("client", "data") /\ UNCHANGED cache
      BY <1>5 DEF ReadData
    <2> QED BY <2>1, <2>2, AgreeClientDrops DEF Incoming
<1>6. CASE ssl3_read_handshake_unexpected("client")
    <2> DEFINE m == Head(net["client"]).msg
               t == Unexpected(C, m)
    <2>1. /\ C.state = "Established" /\ Incoming("client", "handshake") /\ net["client"] # << >>
          /\ Step("client", t) \/ StepAfterRead("client", t)
        BY <1>6 DEF ssl3_read_handshake_unexpected, Incoming
    <2>2. /\ DOMAIN C = Fields /\ C.who = "client"
          /\ Changes(C, C, {"reuse_message", "handshake_hash", "handshake_transcript"})
        BY <2>1, ClientIn
    <2>3. Reads(Queue("client"), Queue("client")) /\ Reads(Queue("client"), Tail(Queue("client")))
        BY <2>1, IncomingIs DEF Endpoint, Reads
    <2>4. PICK q : Takes("client", t, q) /\ Reads(Queue("client"), q)
        BY <2>1, <2>3 DEF Takes
    <2>5. \/ Fails(C, t)
          \/ Changes(C, t, {"state", "total_renegotiations"}) /\ t.state = "RENEGOTIATE"
        BY <2>2, UnexpectedSheet
    <2> HIDE DEF t, m
    <2>6. CASE Fails(C, t)
        BY <2>1, <2>2, <2>4, <2>6, AgreeClientDies
    <2>7. CASE Changes(C, t, {"state", "total_renegotiations"}) /\ t.state = "RENEGOTIATE"
        <3>1. Changes(C, t, {"state", "renegotiate", "new_session", "total_renegotiations"}) /\ t.renegotiate = C.renegotiate
            BY <2>7 DEF Changes, Fields
        <3> QED BY <2>1, <2>4, <2>7, <3>1, AgreeClientBegs
    <2> QED BY <2>5, <2>6, <2>7
<1> QED BY <1>1, <1>2, <1>3, <1>4, <1>5, <1>6 DEF ssl3_read_bytes

LEMMA AgreeClientOther ==
    ASSUME AuthInv, AgreeInv, TypeInv, Reenter("client") \/ Request("client")
    PROVE  AgreeInv' /\ TypeInv'
<1> DEFINE C == ssl["client"]
<1>0. Reads(Queue("client"), Queue("client")) /\ DOMAIN C = Fields
    BY DEF Reads, AuthInv, Auth, IsSsl
<1>1. CASE Reenter("client")
    <2> DEFINE t == Goto(C, C.state)
    <2>1. Waits("client") /\ Takes("client", t, Queue("client")) /\ C.state \in AllowsCcs
        BY <1>1 DEF Reenter, Takes
    <2>2. C.state # "Failed" /\ ~Starting(C) /\ ClientPlace(C) # "BEFORE" /\ C.state # "CW_FINISHED"
        BY <2>1, ClientWaits DEF AllowsCcs
    <2>3. Changes(C, t, {"state", "ccs_ok", "flush", "wbuf", "data"}) /\ t.wbuf = C.wbuf /\ t.data = C.data /\ t.state = C.state
        BY <1>0 DEF Goto, Changes, Fields
    <2>4. t.next_state = C.next_state /\ t.reuse_message = C.reuse_message
        BY <1>0 DEF Goto, Fields
    <2> HIDE DEF t, C
    <2>5. ClientPlace(t) = ClientPlace(C) /\ Position(t) = Position(C)
        BY <2>3, <2>4 DEF ClientPlace, Position, Verifying
    <2> QED BY <1>0, <2>1, <2>2, <2>3, <2>5, AgreeClientStays DEF ClientWrote, C
<1>2. CASE WriteData("client")
    <2> DEFINE t == [Write(C, "data", NoMessage) EXCEPT !.data = @ + 1]
    <2>1. C.state = "Established" /\ Takes("client", t, Queue("client")) /\ C.data < DataBound
        BY <1>2 DEF WriteData, Takes
    <2>2. /\ Changes(C, t, {"state", "ccs_ok", "flush", "wbuf", "data"}) /\ t.data = C.data + 1 /\ t.state = C.state
          /\ t.wbuf = Append(C.wbuf, WireRecord(C, "data", NoMessage))
        BY <1>0 DEF Write, Changes, Fields
    <2>3. C.data \in 0 .. DataBound /\ DataBound \in Nat
        BY <2>1, ClientIn, BoundAssumption DEF Typed
    <2> HIDE DEF t, C
    <2>4. t.data \in 0 .. DataBound
        BY <2>1, <2>2, <2>3
    <2>5. ClientPlace(t) = "Established" /\ Position(t) = "Established" /\ ClientPlace(C) = "Established" /\ Position(C) = "Established"
        BY <2>1, <2>2, PlaceIs
    <2>6. ClientWrote(C, t)
        BY <2>2 DEF ClientWrote, WireRecord, Is
    <2> QED BY <1>0, <2>1, <2>2, <2>4, <2>5, <2>6, AgreeClientStays DEF Starting, C
<1>3. ASSUME NEW abbreviated \in BOOLEAN, SSL_renegotiate("client", abbreviated) PROVE AgreeInv' /\ TypeInv'
    <2> DEFINE t == [C EXCEPT !.state = "RENEGOTIATE", !.renegotiate = 1, !.new_session = ~abbreviated,
                              !.total_renegotiations = @ + 1]
    <2>1. C.state = "Established" /\ Takes("client", t, Queue("client"))
        BY <1>3 DEF SSL_renegotiate, Takes
    <2>2. /\ Changes(C, t, {"state", "renegotiate", "new_session", "total_renegotiations"}) /\ t.state = "RENEGOTIATE"
          /\ t.renegotiate = 1
        BY <1>0 DEF Changes, Fields
    <2> HIDE DEF t
    <2> QED BY <1>0, <2>1, <2>2, AgreeClientBegs
<1> QED BY <1>1, <1>2, <1>3 DEF Request

(* The hellos of the client. *)
LEMMA AgreeBegins ==
    ASSUME AuthInv, AgreeInv, TypeInv, NEW state \in {"BEFORE", "RENEGOTIATE"}, Do("client", state, Connect)
    PROVE  AgreeInv' /\ TypeInv'
<1> DEFINE C == ssl["client"]
           S == ssl["server"]
           t == Connect(C)
           qs == Queue("server")
           qc == Queue("client")
<1>1. C.state = state /\ Takes("client", t, qc) /\ Reads(qc, qc)
    BY DEF Do, Takes, Reads
<1>2. /\ ClientAt(C, state) /\ DOMAIN C = Fields /\ Typed(C) /\ C.who = "client" /\ ClientAuth(cfg, C) /\ ClientState(cfg, C)
      /\ Changes(C, C, {"reuse_message", "handshake_hash", "handshake_transcript"})
    BY <1>1, ClientIn
<1>3. ClientPlace(C) = state /\ Position(C) = state
    BY <1>1, PlaceIs
<1>4. cfg.dtls => state # "RENEGOTIATE"
    BY <1>2, <1>3 DEF ClientAuth
<1>5. Fails(C, t) \/ ClientState(cfg, t)
    BY <1>2, <1>4, AgreeConnect
<1>6. \/ Fails(C, t)
      \/ /\ Changes(C, t, {"handshake_transcript", "frozen", "state", "n", "bbio", "renegotiate", "send_cookie", "hit"})
         /\ t.state = "CW_CLNT_HELLO" /\ t.n = C.n + 1 /\ ~t.bbio /\ t.renegotiate \in {1, C.renegotiate} /\ t.hit \in BOOLEAN
    BY <1>2, ConnectSheet
<1>7. /\ LinkC(cfg, C, S, qc) /\ C.n \in Nat /\ S.cr \in Nat /\ S.cr <= C.n
      /\ S.state # "Failed" => LinkS(cfg, C, S, qs)
      /\ qs = net["server"] \o C.wbuf /\ IsSeq(C.wbuf)
    BY <1>1, ClientAgrees
<1> HIDE DEF t, C, S, qs, qc
<1>8. CASE Fails(C, t)
    BY <1>1, <1>2, <1>8, AgreeClientDies DEF C, qc
<1>9. CASE ~Fails(C, t)
    <2>1. /\ Changes(C, t, {"handshake_transcript", "frozen", "state", "n", "bbio", "renegotiate", "send_cookie", "hit"})
          /\ t.state = "CW_CLNT_HELLO" /\ t.n = C.n + 1 /\ ~t.bbio /\ t.renegotiate \in {1, C.renegotiate} /\ t.hit \in BOOLEAN
          /\ ClientState(cfg, t)
        BY <1>5, <1>6, <1>9
    <2>2. /\ DOMAIN t = Fields /\ t.who = C.who /\ t.data = C.data /\ t.cert_request = C.cert_request /\ t.wbuf = C.wbuf
          /\ t.reuse_message = C.reuse_message /\ t.previous_server_finished = C.previous_server_finished
        BY <2>1 DEF Changes, Fields
    <2>4. ~C.bbio
        BY <1>1, <1>2 DEF Typed
    <2>5. TypedStep(C, t)
        BY <1>2, <2>1, <2>2, <2>4 DEF Typed, TypedStep, States
    <2>6. ClientPlace(t) = "CW_CLNT_HELLO"
        BY <2>1, PlaceIs
    <2>7. LinkC(cfg, t, S, qc)
        <3>1. \A r : FromServer(cfg, C, S, r) => FromServer(cfg, t, S, r)
            BY <1>7, <2>1 DEF FromServer
        <3>2. S.cr < t.n
            BY <1>7, <2>1
        <3>3. \A i \in 1 .. Len(qc) : FromServer(cfg, t, S, qc[i])
            BY <1>7, <3>1 DEF LinkC
        <3> QED BY <1>7, <2>1, <2>2, <2>6, <3>2, <3>3 DEF LinkC, Starting
    <2>8. ASSUME S.state # "Failed" PROVE LinkS(cfg, t, S, qs)
        <3>1. LinkS(cfg, C, S, qs)
            BY <1>7, <2>8
        <3>2. C.n = 0 \/ S.cr = C.n
            BY <1>2, <1>3, <1>7 DEF ClientState, LinkC
        <3>3. \A r : FromClient(C, S, r) => FromClient(t, S, r) /\ ~Is(r, "ClientHello")
            BY <1>7, <2>1, <3>2 DEF FromClient
        <3>4. \A i \in 1 .. Len(qs) : FromClient(t, S, qs[i]) /\ ~Is(qs[i], "ClientHello")
            BY <3>1, <3>3 DEF LinkS
        <3>5. Position(S) = "SW_HELLO_VERIFY" => cfg.dtls /\ S.cr < t.n
            BY <1>7, <2>1, <3>1 DEF LinkS
        <3>6. t.n \in Nat
            BY <1>7, <2>1
        <3> QED BY <3>4, <3>5, <3>6 DEF LinkS
    <2>9. S.state # "Failed" => LinkS(cfg, t, S, net["server"] \o t.wbuf)
        BY <1>7, <2>2, <2>8
    <2> QED BY <1>1, <1>7, <2>1, <2>2, <2>5, <2>7, <2>9, AgreeClientStep DEF C, S, qc
<1> QED BY <1>8, <1>9

LEMMA AgreeGreets ==
    ASSUME AuthInv, AgreeInv, TypeInv, Do("client", "CW_CLNT_HELLO", ssl3_send_client_hello)
    PROVE  AgreeInv' /\ TypeInv'
<1> DEFINE C == ssl["client"]
           S == ssl["server"]
           t == ssl3_send_client_hello(C)
           m == ClientHello(t)
           r == WireRecord(C, "handshake", m)
           qs == Queue("server")
           qc == Queue("client")
<1>1. C.state = "CW_CLNT_HELLO" /\ Takes("client", t, qc) /\ Reads(qc, qc)
    BY DEF Do, Takes, Reads
<1>2. ClientAt(C, "CW_CLNT_HELLO") /\ DOMAIN C = Fields /\ Typed(C) /\ C.who = "client" /\ ClientAuth(cfg, C)
    BY <1>1, ClientIn
<1>3. ClientPlace(C) = "CW_CLNT_HELLO" /\ Starting(C)
    BY <1>1, PlaceIs DEF Starting
<1>4. ClientState(cfg, t)
    BY <1>2, AgreeClientHello
<1>5. /\ Changes(C, t, {"handshake_hash", "handshake_transcript", "frozen", "cr", "session",
                        "state", "next_state", "bbio", "ccs_ok", "wbuf"})
      /\ t.cr = C.n /\ t.bbio /\ Sent(C, t, m)
      /\ Position(t) = "CR_SRVR_HELLO" /\ t.state = IF C.send_cookie THEN "FLUSH" ELSE "CR_SRVR_HELLO"
    BY <1>2, ClientHelloSheet
<1>6. /\ LinkC(cfg, C, S, qc) /\ C.n \in Nat /\ S.cr \in Nat /\ S.cr <= C.n /\ IsSeq(qc) /\ IsSeq(qs)
      /\ S.state # "Failed" => LinkS(cfg, C, S, qs)
      /\ qs = net["server"] \o C.wbuf /\ IsSeq(C.wbuf) /\ IsSeq(net["server"])
    BY <1>1, ClientAgrees
<1>7. /\ Digest(m).body.cr = t.cr /\ m.body.cr = t.cr /\ m.mt = "ClientHello" /\ r.msg = m /\ r.type = "handshake"
    BY DigestHello DEF WireRecord
<1>8. t.wbuf = Append(C.wbuf, r)
    BY <1>5 DEF Sent
<1>9. net["server"] \o Append(C.wbuf, r) = Append(net["server"] \o C.wbuf, r)
    <2> DEFINE p == net["server"]
               w == C.wbuf
    <2>1. IsSeq(p) /\ IsSeq(w)
        BY <1>6
    <2> HIDE DEF p, w
    <2>2. p \o Append(w, r) = Append(p \o w, r)
        BY <2>1, ConcatAppend
    <2> QED BY <2>2 DEF p, w
<1>10. IsSeq(Append(C.wbuf, r))
    BY <1>6, SeqAppend, Zenon
<1> HIDE DEF t, C, S, qs, qc, m, r
<1>11. IsSeq(t.wbuf) /\ net["server"] \o t.wbuf = Append(qs, r)
    BY <1>6, <1>8, <1>9, <1>10, Zenon
<1>12. ~Verifying(t) /\ t.state \in {"FLUSH", "CR_SRVR_HELLO"}
    BY <1>5 DEF Verifying
<1>13. ClientPlace(t) = "CR_SRVR_HELLO" /\ ~Starting(t)
    BY <1>5, <1>12 DEF ClientPlace, Starting
<1>14. /\ DOMAIN t = Fields /\ t.who = C.who /\ t.hit = C.hit /\ t.data = C.data /\ t.cert_request = C.cert_request /\ t.n = C.n
       /\ t.reuse_message = C.reuse_message /\ t.previous_server_finished = C.previous_server_finished
       /\ t.renegotiate = C.renegotiate
    BY <1>5 DEF Changes, Fields
<1>15. TypedStep(C, t)
    BY <1>2, <1>5, <1>12, <1>14 DEF Typed, TypedStep, States, ReadStates
<1>16. LinkC(cfg, t, S, qc)
    BY <1>1, <1>6, <1>13, <1>14, LinkCClient
<1>17. ASSUME S.state # "Failed" PROVE LinkS(cfg, t, S, Append(qs, r))
    <2>1. LinkS(cfg, C, S, qs)
        BY <1>6, <1>17
    <2>2. S.cr < C.n
        BY <1>3, <1>6 DEF LinkC
    <2>3. FromClient(t, S, r)
        BY <1>5, <1>6, <1>7, <1>14, <2>2 DEF FromClient
    <2>4. \A i \in 1 .. Len(qs) : FromClient(t, S, qs[i]) /\ ~Is(qs[i], "ClientHello")
        BY <1>3, <1>14, <2>1 DEF LinkS, FromClient
    <2>b. IsSeq(qs)
        BY <1>6
    <2>a. Len(qs) \in Nat
        BY <2>b DEF IsSeq
    <2>5. /\ Len(Append(qs, r)) = Len(qs) + 1
          /\ \A i \in 1 .. Len(qs) : Append(qs, r)[i] = qs[i]
          /\ Append(qs, r)[Len(qs) + 1] = r
        BY <2>b, SeqAppend
    <2> DEFINE qs2 == Append(qs, r)
    <2> HIDE DEF qs2
    <2>6. \A i \in 1 .. Len(qs2) : FromClient(t, S, qs2[i]) /\ (Is(qs2[i], "ClientHello") => i = Len(qs) + 1)
        BY <2>3, <2>4, <2>5, <2>a DEF qs2
    <2>7. Position(S) = "SW_HELLO_VERIFY" => cfg.dtls /\ S.cr < t.n
        BY <1>14, <2>1 DEF LinkS
    <2>8. LinkS(cfg, t, S, qs2)
        BY <1>6, <1>13, <1>14, <2>6, <2>7 DEF LinkS
    <2> QED BY <2>8 DEF qs2
<1>18. S.state # "Failed" => LinkS(cfg, t, S, net["server"] \o t.wbuf)
    BY <1>11, <1>17
<1>19. C.state # "Failed"
    BY <1>1
<1> QED BY <1>1, <1>4, <1>11, <1>15, <1>16, <1>18, <1>19, AgreeClientStep DEF C, S, qc

LEMMA AgreeHearsHello ==
    ASSUME AuthInv, AgreeInv, TypeInv, Get("client", "CR_SRVR_HELLO", ssl3_get_server_hello)
    PROVE  AgreeInv' /\ TypeInv'
<1> DEFINE C == ssl["client"]
           S == ssl["server"]
           qs == Queue("server")
           qc == Queue("client")
<1>1. PICK s, m, q : HasRead(C, s, m) /\ FromPeer("client", m, q) /\ Takes("client", ssl3_get_server_hello(s, m), q)
    BY KeptFrom, NextFrom DEF Get, Reused, ssl3_get_message, Incoming, Endpoint
<1> DEFINE t == ssl3_get_server_hello(s, m)
<1>2. /\ C.state = "CR_SRVR_HELLO" /\ ClientAt(C, "CR_SRVR_HELLO") /\ DOMAIN C = Fields /\ Typed(C) /\ C.who = "client"
      /\ ClientAuth(cfg, C) /\ ClientState(cfg, C)
    BY ClientIn DEF Get
<1>3. ClientPlace(C) = "CR_SRVR_HELLO" /\ C.reuse_message = Null
    BY <1>2, PlaceIs DEF ClientAuth, ClientKeeps
<1>4. /\ LinkC(cfg, C, S, qc) /\ C.n \in Nat /\ S.cr \in Nat /\ S.cr <= C.n /\ IsSeq(qc) /\ IsSeq(qs)
      /\ S.state # "Failed" => LinkS(cfg, C, S, qs)
      /\ qs = net["server"] \o C.wbuf /\ IsSeq(C.wbuf)
    BY <1>2, ClientAgrees
<1>5. /\ Reads(qc, q)
      /\ m.mt = "HelloVerifyRequest" => cfg.dtls /\ S.cr < C.n
      /\ m.mt = "ServerHello" => /\ Number(C.rkey) \in Nat /\ Number(C.rkey) < S.cr
                                 /\ Digest(m).body.sr = m.body.sr
    BY <1>1, <1>2, <1>3, FromServerIs
<1>6. qc # << >> /\ qc[1].type = "handshake" /\ qc[1].msg = m
    BY <1>1, <1>3 DEF FromPeer
<1>7. /\ Changes(C, s, {"reuse_message", "handshake_hash", "handshake_transcript"}) /\ DOMAIN s = Fields
      /\ s.reuse_message = Null /\ s.n = C.n /\ s.previous_server_finished = C.previous_server_finished /\ s.wbuf = C.wbuf
    BY <1>1, <1>2, ReadKeeps
<1> HIDE DEF C, S, qs, qc
<1>8. m.mt = "ServerHello" => ~C.change_cipher_spec /\ S.cr = C.n
    <2>1. ClientHoping(C)
        BY <1>2, <1>3 DEF ClientState
    <2> QED BY <1>4, <1>5, <2>1 DEF ClientHoping, OldKeys
<1>9. Fails(s, t) \/ ClientState(cfg, t)
    BY <1>1, <1>2, <1>3, <1>5, <1>8, AgreeServerHello
<1>10. \/ Fails(s, t)
       \/ /\ m.mt = "HelloVerifyRequest" /\ Changes(s, t, {"state", "ccs_ok", "reuse_message"})
          /\ t.state = "CR_HELLO_VERIFY" /\ t.reuse_message = Some(m)
       \/ /\ m.mt = "ServerHello"
          /\ Changes(s, t, {"sr", "cipher", "hit", "session", "ccs_ok", "handshake_hash", "ticket_expected",
                            "status_expected", "handshake_transcript", "state"})
          /\ t.state \in {"CR_SESSION_TICKET", "CR_FINISHED", "CR_HELLO_VERIFY", "CR_CERT"} /\ t.hit \in BOOLEAN
    BY <1>7, ServerHelloSheet DEF Resumes
<1>11. Takes("client", t, q)
    BY <1>1
<1> HIDE DEF t
<1>12. CASE Fails(s, t)
    <2>1. C.state # "Failed"
        BY <1>2
    <2> QED BY <1>5, <1>7, <1>11, <1>12, <2>1, AgreeClientDies DEF C, qc
<1>13. CASE /\ ~Fails(s, t) /\ m.mt = "ServerHello"
            /\ Changes(s, t, {"sr", "cipher", "hit", "session", "ccs_ok", "handshake_hash", "ticket_expected",
                              "status_expected", "handshake_transcript", "state"})
            /\ t.state \in {"CR_SESSION_TICKET", "CR_FINISHED", "CR_HELLO_VERIFY", "CR_CERT"} /\ t.hit \in BOOLEAN
    <2>1. /\ DOMAIN t = Fields /\ t.who = C.who /\ t.bbio = C.bbio /\ t.data = C.data /\ t.renegotiate = C.renegotiate
          /\ t.cert_request = C.cert_request /\ t.wbuf = C.wbuf /\ t.n = C.n
          /\ t.reuse_message = Null /\ t.previous_server_finished = C.previous_server_finished
        BY <1>7, <1>13 DEF Changes, Fields
    <2>2. TypedStep(C, t)
        BY <1>2, <1>13, <2>1, TypedOn DEF States, ReadStates
    <2>3. ClientWrote(C, t) /\ ~Starting(t)
        BY <1>13, <2>1 DEF ClientWrote, Starting, ClientPlace, Position, Verifying
    <2>4. C.state # "Failed" /\ ClientState(cfg, t)
        BY <1>2, <1>9, <1>13
    <2> QED BY <1>5, <1>8, <1>11, <1>13, <2>1, <2>2, <2>3, <2>4, AgreeClientPlain DEF C, S, qc
<1>14. CASE /\ ~Fails(s, t) /\ m.mt = "HelloVerifyRequest" /\ Changes(s, t, {"state", "ccs_ok", "reuse_message"})
            /\ t.state = "CR_HELLO_VERIFY" /\ t.reuse_message = Some(m)
    <2>1. /\ DOMAIN t = Fields /\ t.who = C.who /\ t.hit = C.hit /\ t.bbio = C.bbio /\ t.data = C.data /\ t.renegotiate = C.renegotiate
          /\ t.cert_request = C.cert_request /\ t.wbuf = C.wbuf /\ t.n = C.n
          /\ t.previous_server_finished = C.previous_server_finished
        BY <1>7, <1>14 DEF Changes, Fields
    <2>2. TypedStep(C, t)
        BY <1>2, <1>14, <2>1, TypedOn DEF States, ReadStates
    <2>3. Starting(t)
        BY <1>14, SomeIs DEF Starting, ClientPlace, Verifying
    <2>4. C.state # "Failed" /\ ClientState(cfg, t) /\ S.cr < C.n /\ cfg.dtls
        BY <1>2, <1>5, <1>9, <1>14
    <2>5. t.reuse_message[1].mt # "Finished"
        BY <1>14, SomeIs
    <2>6. LinkC(cfg, t, S, q)
        BY <1>4, <1>5, <2>1, <2>3, <2>4, <2>5, LinkCClient DEF Starting
    <2>7. ASSUME S.state # "Failed" PROVE qs = << >>
        <3>1. CookiePhase(C, S, qs, qc)
            BY <2>4, <2>7 DEF AuthInv, Auth, Cookies, C, S, qs, qc
        <3>2. 1 \in 1 .. Len(qc) /\ VerifyRequest(qc[1])
            <4>1. Len(qc) \in Nat \ {0}
                BY <1>4, <1>6, SeqTail
            <4> QED BY <1>6, <1>14, <4>1 DEF VerifyRequest, Is
        <3> QED BY <1>2, <1>6, <3>1, <3>2 DEF CookiePhase, NoVerifyRequest, Verifying
    <2>8. ASSUME S.state # "Failed" PROVE LinkS(cfg, t, S, qs)
        <3>1. qs = << >> /\ LinkS(cfg, C, S, qs)
            BY <1>4, <2>7, <2>8
        <3> QED BY <2>1, <3>1 DEF LinkS
    <2>9. S.state # "Failed" => LinkS(cfg, t, S, net["server"] \o t.wbuf)
        BY <1>4, <2>1, <2>8
    <2> QED BY <1>4, <1>11, <2>1, <2>2, <2>4, <2>6, <2>9, AgreeClientStep DEF C, S
<1> QED BY <1>10, <1>12, <1>13, <1>14

LEMMA AgreeVerifiesHello ==
    ASSUME AuthInv, AgreeInv, TypeInv, Get("client", "CR_HELLO_VERIFY", ssl3_get_dtls_hello_verify)
    PROVE  AgreeInv' /\ TypeInv'
<1> DEFINE C == ssl["client"]
           S == ssl["server"]
           qs == Queue("server")
           qc == Queue("client")
<1>1. CASE ~Verifying(C)
    BY <1>1, AgreeGetsVerify
<1>2. CASE Verifying(C)
    <2>1. PICK s, m, q : HasRead(C, s, m) /\ FromPeer("client", m, q) /\ Takes("client", ssl3_get_dtls_hello_verify(s, m), q)
        BY KeptFrom, NextFrom DEF Get, Reused, ssl3_get_message, Incoming, Endpoint
    <2> DEFINE t == ssl3_get_dtls_hello_verify(s, m)
    <2>2. /\ C.state = "CR_HELLO_VERIFY" /\ DOMAIN C = Fields /\ Typed(C) /\ ClientAuth(cfg, C) /\ ClientState(cfg, C)
        BY ClientIn DEF Get
    <2>3. /\ LinkC(cfg, C, S, qc) /\ C.n \in Nat /\ IsSeq(qc) /\ IsSeq(qs)
          /\ S.state # "Failed" => LinkS(cfg, C, S, qs)
          /\ qs = net["server"] \o C.wbuf /\ IsSeq(C.wbuf)
        BY <2>2, ClientAgrees
    <2>4. C.reuse_message # Null /\ C.reuse_message[1].mt = "HelloVerifyRequest"
        BY <1>2, <2>2 DEF Verifying, ClientAuth
    <2>5. m.mt = "HelloVerifyRequest" /\ Changes(C, s, {"reuse_message"}) /\ q = qc /\ s.reuse_message = Null
        BY <2>1, <2>4 DEF HasRead, FromPeer
    <2>6. DOMAIN s = Fields
        BY <2>5 DEF Changes
    <2>7. Changes(s, t, {"state", "ccs_ok", "send_cookie"}) /\ t.state = "CW_CLNT_HELLO"
        BY <2>5, <2>6, HelloVerifySheet
    <2>8. Takes("client", t, q) /\ Reads(qc, q)
        BY <2>1, <2>5 DEF Reads
    <2> HIDE DEF C, S, qs, qc, t
    <2>9. /\ DOMAIN t = Fields /\ t.who = C.who /\ t.hit = C.hit /\ t.bbio = C.bbio /\ t.data = C.data /\ t.renegotiate = C.renegotiate
          /\ t.cert_request = C.cert_request /\ t.wbuf = C.wbuf /\ t.n = C.n
          /\ t.previous_server_finished = C.previous_server_finished /\ t.reuse_message = Null
        BY <2>5, <2>7 DEF Changes, Fields
    <2>10. /\ t.rkey = C.rkey /\ t.wkey = C.wkey /\ t.key_block = C.key_block /\ t.change_cipher_spec = C.change_cipher_spec
           /\ t.cipher = C.cipher /\ t.handshake_transcript = C.handshake_transcript /\ t.frozen = C.frozen
        BY <2>5, <2>7 DEF Changes, Fields
    <2>11. ClientPlace(C) = "CW_CLNT_HELLO" /\ ClientPlace(t) = "CW_CLNT_HELLO" /\ Starting(C) /\ Starting(t)
        BY <1>2, <2>7 DEF ClientPlace, Position, Verifying, Starting
    <2>12. ClientGreeting(cfg, C) /\ (cfg.dtls => C.n <= 1)
        BY <2>2, <2>11 DEF ClientState
    <2>13. ClientGreeting(cfg, t)
        BY <2>9, <2>10, <2>12 DEF ClientGreeting, OldKeys
    <2>14. ClientState(cfg, t)
        BY <2>3, <2>9, <2>11, <2>12, <2>13, ClientStateIs
    <2>15. TypedStep(C, t)
        BY <2>2, <2>7, <2>9, TypedOn DEF States, ReadStates
    <2>16. S.cr < C.n
        BY <2>3, <2>11 DEF LinkC
    <2>17. LinkC(cfg, t, S, q)
        BY <2>3, <2>8, <2>9, <2>11, <2>16, LinkCClient DEF Starting
    <2>18. S.state # "Failed" => LinkS(cfg, t, S, net["server"] \o t.wbuf)
        BY <2>3, <2>9, <2>11 DEF LinkS, FromClient
    <2>19. C.state # "Failed"
        BY <2>2
    <2> QED BY <2>3, <2>8, <2>9, <2>14, <2>15, <2>17, <2>18, <2>19, AgreeClientStep DEF C, S
<1> QED BY <1>1, <1>2

LEMMA AgreeConnectStep ==
    ASSUME AuthInv, AgreeInv, TypeInv, ssl3_connect
    PROVE  AgreeInv' /\ TypeInv'
    BY AgreeBegins, AgreeGreets, AgreeHearsHello, AgreeVerifiesHello, AgreeSkips, AgreeGetsCertificate,
       AgreeGetsStatus, AgreeGetsKeyExchange, AgreeGetsRequest, AgreeGetsDone, AgreeCertificates,
       AgreeKeyExchanges, AgreeSigns, AgreeChanges, AgreeFinishes, AgreeGetsTicket, AgreeGetsFinished, AgreeEnds
    DEF ssl3_connect

-----------------------------------------------------------------------------
(* The steps of the server. *)

(* What the server writes, other than a Finished of its own. *)
ServerWrote(C, S, t) ==
    \/ t.wbuf = S.wbuf
    \/ t.wbuf = << >>
    \/ \E r : t.wbuf = Append(S.wbuf, r) /\ FromServer(cfg, C, S, r)

LEMMA ServerAgrees ==
    ASSUME AuthInv, AgreeInv, TypeInv, ssl["server"].state # "Failed"
    PROVE  LET S == ssl["server"]
               C == ssl["client"]
           IN  /\ ServerAt(S, S.state) /\ DOMAIN S = Fields /\ DOMAIN S.session = SessionFields /\ S.who = "server"
               /\ Typed(S) /\ ServerAuth(cfg, S) /\ ServerState(S) /\ S.cr \in Nat
               /\ Changes(S, S, {"reuse_message", "handshake_hash", "handshake_transcript"})
               /\ LinkS(cfg, C, S, Queue("server")) /\ IsSeq(Queue("server")) /\ C.n \in Nat
               /\ C.state # "Failed" => ClientState(cfg, C) /\ LinkC(cfg, C, S, Queue("client"))
               /\ IsSeq(net["client"]) /\ IsSeq(S.wbuf) /\ Queue("client") = net["client"] \o S.wbuf
               /\ IsSeq(Queue("client"))
<1> DEFINE S == ssl["server"]
           C == ssl["client"]
<1>1. /\ IsSeq(Queue("client")) /\ IsSeq(Queue("server")) /\ IsSeq(net["client"]) /\ IsSeq(S.wbuf)
      /\ Queue("client") = net["client"] \o S.wbuf
    BY AuthQueues DEF Endpoint, Peer
<1>2. /\ ServerState(S) /\ LinkS(cfg, C, S, Queue("server"))
      /\ C.state # "Failed" => ClientState(cfg, C) /\ LinkC(cfg, C, S, Queue("client"))
    BY DEF AgreeInv, Agree
<1>3. C.n \in Nat /\ S.cr \in Nat
    BY <1>2 DEF ServerState, LinkS
<1>4. IsSsl(S, "server") /\ ServerAuth(cfg, S) /\ Typed(S)
    BY DEF AuthInv, Auth, TypeInv, Endpoint
<1>5. DOMAIN S = Fields /\ DOMAIN S.session = SessionFields /\ S.who = "server"
    BY <1>4 DEF IsSsl
<1>6. Changes(S, S, {"reuse_message", "handshake_hash", "handshake_transcript"})
    BY <1>5 DEF Changes
<1> QED BY <1>1, <1>2, <1>3, <1>4, <1>5, <1>6 DEF ServerAt

LEMMA ServerAppends ==
    ASSUME AuthInv, NEW t, NEW r, t.wbuf = Append(ssl["server"].wbuf, r)
    PROVE  IsSeq(t.wbuf) /\ net["client"] \o t.wbuf = Append(Queue("client"), r)
<1> DEFINE S == ssl["server"]
<1>1. IsSeq(net["client"]) /\ IsSeq(S.wbuf) /\ Queue("client") = net["client"] \o S.wbuf
    BY AuthQueues DEF Endpoint, Peer
<1>2. net["client"] \o Append(S.wbuf, r) = Append(net["client"] \o S.wbuf, r)
    <2> DEFINE p == net["client"]
               w == S.wbuf
    <2>1. IsSeq(p) /\ IsSeq(w)
        BY <1>1
    <2> HIDE DEF p, w
    <2>2. p \o Append(w, r) = Append(p \o w, r)
        BY <2>1, ConcatAppend
    <2> QED BY <2>2 DEF p, w
<1>3. IsSeq(Append(S.wbuf, r))
    BY <1>1, SeqAppend, Zenon
<1> QED BY <1>1, <1>2, <1>3, Zenon

LEMMA ServerAdds ==
    ASSUME AuthInv, NEW t, NEW u, ServerWrote(ssl["client"], ssl["server"], t),
           u.cr = ssl["server"].cr, u.previous_server_finished = ssl["server"].previous_server_finished
    PROVE  /\ IsSeq(t.wbuf)
           /\ AddsFromServer(cfg, ssl["client"], u, Queue("client"), net["client"] \o t.wbuf)
<1> DEFINE C == ssl["client"]
           S == ssl["server"]
<1>1. IsSeq(net["client"]) /\ IsSeq(S.wbuf) /\ Queue("client") = net["client"] \o S.wbuf
    BY AuthQueues DEF Endpoint, Peer
<1> HIDE DEF C, S
<1>2. CASE t.wbuf = S.wbuf \/ t.wbuf = << >>
    <2>1. Cut(net["client"] \o S.wbuf, net["client"] \o t.wbuf) /\ IsSeq(t.wbuf)
        BY <1>1, <1>2, CutOr
    <2> QED BY <1>1, <2>1 DEF AddsFromServer, C
<1>3. CASE \E r : t.wbuf = Append(S.wbuf, r) /\ FromServer(cfg, C, S, r)
    <2>1. PICK r : t.wbuf = Append(S.wbuf, r) /\ FromServer(cfg, C, S, r)
        BY <1>3
    <2>2. net["client"] \o t.wbuf = Append(Queue("client"), r) /\ IsSeq(t.wbuf)
        BY <2>1, ServerAppends DEF S
    <2>3. FromServer(cfg, C, u, r)
        BY <2>1 DEF FromServer, Genuine, S
    <2> QED BY <2>2, <2>3 DEF AddsFromServer, C
<1> QED BY <1>2, <1>3 DEF ServerWrote, C, S

LEMMA AgreeServerPlain ==
    ASSUME AuthInv, AgreeInv, TypeInv, NEW t, NEW qs2, Takes("server", t, qs2), Reads(Queue("server"), qs2),
           TypedStep(ssl["server"], t), ssl["server"].state # "Failed",
           ServerWrote(ssl["client"], ssl["server"], t), t.cr = ssl["server"].cr,
           t.previous_server_finished = ssl["server"].previous_server_finished,
           t.state = "Failed" \/ ServerState(t),
           Position(t) = "SW_HELLO_VERIFY" => cfg.dtls /\ ssl["server"].cr < ssl["client"].n
    PROVE  AgreeInv' /\ TypeInv'
<1> DEFINE C == ssl["client"]
           S == ssl["server"]
<1>1. /\ LinkS(cfg, C, S, Queue("server")) /\ IsSeq(Queue("server")) /\ IsSeq(Queue("client"))
      /\ C.state # "Failed" => LinkC(cfg, C, S, Queue("client"))
    BY ServerAgrees
<1>2. IsSeq(t.wbuf) /\ AddsFromServer(cfg, C, t, Queue("client"), net["client"] \o t.wbuf)
    BY ServerAdds
<1>3. LinkS(cfg, C, t, qs2)
    BY <1>1, LinkSServer
<1>4. C.state # "Failed" => LinkC(cfg, C, t, net["client"] \o t.wbuf)
    BY <1>1, <1>2, LinkCServer
<1> QED BY <1>2, <1>3, <1>4, AgreeServerStep

LEMMA OtherFromServer ==
    ASSUME NEW C, NEW S, NEW type, NEW m, type \notin {"handshake", "ccs"}
    PROVE  FromServer(cfg, C, S, WireRecord(S, type, m))
    BY DEF FromServer, WireRecord, VerifyRequest, Is

LEMMA AgreeServerDies ==
    ASSUME AuthInv, AgreeInv, TypeInv, NEW s, NEW t, NEW q, Takes("server", t, q), Reads(Queue("server"), q),
           ssl["server"].state # "Failed", Fails(s, t),
           Changes(ssl["server"], s, {"reuse_message", "handshake_hash", "handshake_transcript"})
    PROVE  AgreeInv' /\ TypeInv'
<1> DEFINE S == ssl["server"]
           C == ssl["client"]
<1>1. Typed(S) /\ DOMAIN S = Fields
    BY ServerAgrees
<1> HIDE DEF S, C
<1>2. TypedStep(S, t)
    BY <1>1, TypedFails DEF S
<1>3. t.state = "Failed" /\ t.cr = S.cr /\ t.previous_server_finished = S.previous_server_finished
    BY DEF Fails, Changes, Fields, S
<1>4. s.wbuf = S.wbuf /\ s.wkey = S.wkey
    BY DEF Changes, Fields, S
<1>5. WireRecord(s, "alert", NoMessage) = WireRecord(S, "alert", NoMessage)
    BY <1>4 DEF WireRecord
<1>6. FromServer(cfg, C, S, WireRecord(S, "alert", NoMessage))
    BY OtherFromServer
<1>7. ServerWrote(C, S, t)
    BY <1>4, <1>5, <1>6 DEF ServerWrote, Fails
<1>8. Position(t) # "SW_HELLO_VERIFY"
    BY <1>3 DEF Position
<1> QED BY <1>2, <1>3, <1>7, <1>8, AgreeServerPlain DEF S, C

LEMMA SentServerWrote ==
    ASSUME NEW C, NEW S, NEW t, NEW m, Sent(S, t, m), m.mt \notin {"Finished", "HelloVerifyRequest"},
           m.mt = "HelloRequest" \/ (Number(S.wkey) \in Nat /\ Number(S.wkey) < S.cr),
           m.mt = "ServerHello" => Digest(m).body.sr = m.body.sr
    PROVE  ServerWrote(C, S, t)
<1> DEFINE r == WireRecord(S, "handshake", m)
<1>1. r.type = "handshake" /\ r.msg = m /\ r.key = S.wkey
    BY DEF WireRecord
<1>2. t.wbuf = Append(S.wbuf, r)
    BY DEF Sent
<1> HIDE DEF r
<1>3. FromServer(cfg, C, S, r)
    BY <1>1 DEF FromServer, VerifyRequest, Is
<1> QED BY <1>2, <1>3 DEF ServerWrote

(* What the server does when it reads or writes. *)
HandlerChanges ==
    {"state", "next_state", "ccs_ok", "reuse_message", "session", "handshake_hash", "handshake_transcript", "frozen",
     "cert_verify", "cert_request", "change_cipher_spec", "wbuf", "flush", "key_block", "wkey", "rkey",
     "previous_client_finished", "peer_finished", "renegotiate"}

LEMMA AgreeServerGoes ==
    ASSUME AuthInv, AgreeInv, TypeInv, NEW t, NEW q, Takes("server", t, q), Reads(Queue("server"), q),
           ssl["server"].state # "Failed", Changes(ssl["server"], t, HandlerChanges),
           t.cert_request \in {ssl["server"].cert_request, 0, 1}, t.renegotiate \in {ssl["server"].renegotiate, 1, 2},
           ServerWrote(ssl["client"], ssl["server"], t), ServerState(t),
           t.state \in States \ {"BEFORE", "RENEGOTIATE", "Established"},
           Position(t) # "SW_HELLO_VERIFY"
    PROVE  AgreeInv' /\ TypeInv'
<1> DEFINE S == ssl["server"]
<1>1. Typed(S)
    BY ServerAgrees
<1> HIDE DEF S
<1>2. /\ DOMAIN t = Fields /\ t.who = S.who /\ t.hit = S.hit /\ t.bbio = S.bbio /\ t.data = S.data
      /\ t.cr = S.cr /\ t.previous_server_finished = S.previous_server_finished
    BY DEF Changes, Fields, HandlerChanges, S
<1>3. TypedStep(S, t)
    BY <1>1, <1>2, TypedOn DEF S
<1> QED BY <1>2, <1>3, AgreeServerPlain DEF S

LEMMA AgreeAsksForHello ==
    ASSUME AuthInv, AgreeInv, TypeInv, Do("server", "SW_HELLO_REQ", ssl3_send_hello_request)
    PROVE  AgreeInv' /\ TypeInv'
<1> DEFINE S == ssl["server"]
           C == ssl["client"]
           t == ssl3_send_hello_request(S)
           m == Message("HelloRequest", [none |-> TRUE])
<1>1. S.state = "SW_HELLO_REQ" /\ Takes("server", t, Queue("server")) /\ Reads(Queue("server"), Queue("server"))
    BY DEF Do, Takes, Reads
<1>2. ServerAt(S, "SW_HELLO_REQ") /\ DOMAIN S = Fields /\ ServerState(S) /\ S.who = "server"
    BY <1>1, ServerAgrees
<1>3. ServerState(t)
    BY <1>2, AgreeHelloRequest
<1>5. /\ Changes(S, t, {"wbuf", "state", "next_state"})
      /\ t.state = "FLUSH" /\ t.next_state = "ST_OK" /\ Sent(S, t, m)
    BY <1>2, HelloRequestSheet
<1>6. m.mt \notin {"Finished", "HelloVerifyRequest"} /\ (m.mt = "ServerHello" => Digest(m).body.sr = m.body.sr) /\ m.mt = "HelloRequest"
    BY DEF Message
<1> HIDE DEF t, m, S, C
<1>7. ServerWrote(C, S, t)
    BY <1>5, <1>6, SentServerWrote
<1>8. /\ Changes(S, t, HandlerChanges) /\ t.cert_request \in {S.cert_request, 0, 1}
      /\ t.renegotiate \in {S.renegotiate, 1, 2}
    BY <1>5 DEF Changes, Fields, HandlerChanges
<1>9. Position(t) # "SW_HELLO_VERIFY"
    BY <1>5, PositionIs
<1> QED BY <1>1, <1>3, <1>5, <1>7, <1>8, <1>9, AgreeServerGoes DEF S, C, States, ReadStates

LEMMA AgreeAnswersHello ==
    ASSUME AuthInv, AgreeInv, TypeInv, Do("server", "SW_SRVR_HELLO", ssl3_send_server_hello)
    PROVE  AgreeInv' /\ TypeInv'
<1> DEFINE S == ssl["server"]
           C == ssl["client"]
           t == ssl3_send_server_hello(S)
           m == ServerHello(S)
<1>1. S.state = "SW_SRVR_HELLO" /\ Takes("server", t, Queue("server")) /\ Reads(Queue("server"), Queue("server"))
    BY DEF Do, Takes, Reads
<1>2. ServerAt(S, "SW_SRVR_HELLO") /\ DOMAIN S = Fields /\ ServerState(S) /\ S.who = "server"
    BY <1>1, ServerAgrees
<1>3. ServerState(t)
    BY <1>2, AgreeSendServerHello
<1>4. Number(S.wkey) \in Nat /\ Number(S.wkey) < S.cr
    <2>1. Position(S) = "SW_SRVR_HELLO"
        BY <1>1, PositionIs
    <2> HIDE DEF S
    <2> QED BY <1>1, <1>2, <2>1 DEF ServerState, ServerGreeting, ServerBehind
<1>5. /\ Changes(S, t, {"wbuf", "handshake_hash", "handshake_transcript", "renegotiate", "state", "ccs_ok"})
      /\ t.state \in {"SW_CERT", "SW_SESSION_TICKET", "SW_CHANGE"} /\ t.renegotiate \in {2, S.renegotiate} /\ Sent(S, t, m)
    BY <1>2, SendServerHelloSheet
<1>6. m.mt \notin {"Finished", "HelloVerifyRequest"} /\ (m.mt = "ServerHello" => Digest(m).body.sr = m.body.sr)
    BY DigestHello DEF ServerHello, Message
<1> HIDE DEF t, m, S, C
<1>7. ServerWrote(C, S, t)
    BY <1>4, <1>5, <1>6, SentServerWrote
<1>8. /\ Changes(S, t, HandlerChanges) /\ t.cert_request \in {S.cert_request, 0, 1}
      /\ t.renegotiate \in {S.renegotiate, 1, 2}
    BY <1>5 DEF Changes, Fields, HandlerChanges
<1>9. Position(t) # "SW_HELLO_VERIFY"
    BY <1>5, PositionIs
<1> QED BY <1>1, <1>3, <1>5, <1>7, <1>8, <1>9, AgreeServerGoes DEF S, C, States, ReadStates

LEMMA AgreeShowsCertificate ==
    ASSUME AuthInv, AgreeInv, TypeInv, Do("server", "SW_CERT", ssl3_send_server_certificate)
    PROVE  AgreeInv' /\ TypeInv'
<1> DEFINE S == ssl["server"]
           C == ssl["client"]
           t == ssl3_send_server_certificate(S)
<1>1. S.state = "SW_CERT" /\ Takes("server", t, Queue("server")) /\ Reads(Queue("server"), Queue("server"))
    BY DEF Do, Takes, Reads
<1>2. ServerAt(S, "SW_CERT") /\ DOMAIN S = Fields /\ ServerState(S) /\ S.who = "server"
    BY <1>1, ServerAgrees
<1>4. Number(S.wkey) \in Nat /\ Number(S.wkey) < S.cr
    <2>1. Position(S) = "SW_CERT"
        BY <1>1, PositionIs
    <2> HIDE DEF S
    <2> QED BY <1>1, <1>2, <2>1 DEF ServerState, ServerAsking, ServerBehind, ServerAsksFor
<1>a. SendsOr(S, t, Certificate(TRUE)) /\ t.state \in {"SW_KEY_EXCH", "SW_CERT_STATUS"} /\ t.cert_request \in {S.cert_request, 0, 1}
    BY <1>2, SendCertificateSheet
<1>b. Certificate(TRUE).mt \notin {"Finished", "HelloVerifyRequest", "ServerHello"}
    BY DEF Certificate, Message
<1>5. PICK m : /\ SendsOr(S, t, m) /\ m.mt \notin {"Finished", "HelloVerifyRequest", "ServerHello"}
               /\ t.state \in {"SW_KEY_EXCH", "SW_CERT_STATUS"} /\ t.cert_request \in {S.cert_request, 0, 1}
    BY <1>a, <1>b
<1> HIDE DEF t, S, C
<1>3. ServerState(t)
    BY <1>2, <1>5, AgreeSendsOr DEF ServerAsksFor
<1>7. ServerWrote(C, S, t)
    <2>1. CASE Sent(S, t, m)
        BY <1>4, <1>5, <2>1, SentServerWrote
    <2>2. CASE t.wbuf = S.wbuf
        BY <2>2 DEF ServerWrote
    <2> QED BY <1>5, <2>1, <2>2 DEF SendsOr, Changes, Fields
<1>8. /\ Changes(S, t, HandlerChanges) /\ t.cert_request \in {S.cert_request, 0, 1}
      /\ t.renegotiate \in {S.renegotiate, 1, 2}
    BY <1>5 DEF Changes, Fields, HandlerChanges, SendsOr
<1>9. Position(t) # "SW_HELLO_VERIFY"
    BY <1>5, PositionIs
<1> QED BY <1>1, <1>3, <1>5, <1>7, <1>8, <1>9, AgreeServerGoes DEF S, C, States, ReadStates

LEMMA AgreeStaples ==
    ASSUME AuthInv, AgreeInv, TypeInv, Do("server", "SW_CERT_STATUS", ssl3_send_cert_status)
    PROVE  AgreeInv' /\ TypeInv'
<1> DEFINE S == ssl["server"]
           C == ssl["client"]
           t == ssl3_send_cert_status(S)
<1>1. S.state = "SW_CERT_STATUS" /\ Takes("server", t, Queue("server")) /\ Reads(Queue("server"), Queue("server"))
    BY DEF Do, Takes, Reads
<1>2. ServerAt(S, "SW_CERT_STATUS") /\ DOMAIN S = Fields /\ ServerState(S) /\ S.who = "server"
    BY <1>1, ServerAgrees
<1>4. Number(S.wkey) \in Nat /\ Number(S.wkey) < S.cr
    <2>1. Position(S) = "SW_CERT_STATUS"
        BY <1>1, PositionIs
    <2> HIDE DEF S
    <2> QED BY <1>1, <1>2, <2>1 DEF ServerState, ServerAsking, ServerBehind, ServerAsksFor
<1>a. SendsOr(S, t, Message("CertificateStatus", [none |-> TRUE])) /\ t.state \in {"SW_KEY_EXCH"} /\ t.cert_request \in {S.cert_request, 0, 1}
    BY <1>2, SendCertStatusSheet
<1>b. Message("CertificateStatus", [none |-> TRUE]).mt \notin {"Finished", "HelloVerifyRequest", "ServerHello"}
    BY DEF Message
<1>5. PICK m : /\ SendsOr(S, t, m) /\ m.mt \notin {"Finished", "HelloVerifyRequest", "ServerHello"}
               /\ t.state \in {"SW_KEY_EXCH"} /\ t.cert_request \in {S.cert_request, 0, 1}
    BY <1>a, <1>b
<1> HIDE DEF t, S, C
<1>3. ServerState(t)
    BY <1>2, <1>5, AgreeSendsOr DEF ServerAsksFor
<1>7. ServerWrote(C, S, t)
    <2>1. CASE Sent(S, t, m)
        BY <1>4, <1>5, <2>1, SentServerWrote
    <2>2. CASE t.wbuf = S.wbuf
        BY <2>2 DEF ServerWrote
    <2> QED BY <1>5, <2>1, <2>2 DEF SendsOr, Changes, Fields
<1>8. /\ Changes(S, t, HandlerChanges) /\ t.cert_request \in {S.cert_request, 0, 1}
      /\ t.renegotiate \in {S.renegotiate, 1, 2}
    BY <1>5 DEF Changes, Fields, HandlerChanges, SendsOr
<1>9. Position(t) # "SW_HELLO_VERIFY"
    BY <1>5, PositionIs
<1> QED BY <1>1, <1>3, <1>5, <1>7, <1>8, <1>9, AgreeServerGoes DEF S, C, States, ReadStates

LEMMA AgreeServerKeyExchanges ==
    ASSUME AuthInv, AgreeInv, TypeInv, Do("server", "SW_KEY_EXCH", ssl3_send_server_key_exchange)
    PROVE  AgreeInv' /\ TypeInv'
<1> DEFINE S == ssl["server"]
           C == ssl["client"]
           t == ssl3_send_server_key_exchange(S)
<1>1. S.state = "SW_KEY_EXCH" /\ Takes("server", t, Queue("server")) /\ Reads(Queue("server"), Queue("server"))
    BY DEF Do, Takes, Reads
<1>2. ServerAt(S, "SW_KEY_EXCH") /\ DOMAIN S = Fields /\ ServerState(S) /\ S.who = "server"
    BY <1>1, ServerAgrees
<1>4. Number(S.wkey) \in Nat /\ Number(S.wkey) < S.cr
    <2>1. Position(S) = "SW_KEY_EXCH"
        BY <1>1, PositionIs
    <2> HIDE DEF S
    <2> QED BY <1>1, <1>2, <2>1 DEF ServerState, ServerAsking, ServerBehind, ServerAsksFor
<1>5. PICK m : /\ SendsOr(S, t, m) /\ m.mt \notin {"Finished", "HelloVerifyRequest", "ServerHello"}
               /\ t.state \in {"SW_CERT_REQ"} /\ t.cert_request \in {S.cert_request, 0, 1}
    BY <1>2, SendKeyExchangeSheet
<1> HIDE DEF t, S, C
<1>3. ServerState(t)
    BY <1>2, <1>5, AgreeSendsOr DEF ServerAsksFor
<1>7. ServerWrote(C, S, t)
    <2>1. CASE Sent(S, t, m)
        BY <1>4, <1>5, <2>1, SentServerWrote
    <2>2. CASE t.wbuf = S.wbuf
        BY <2>2 DEF ServerWrote
    <2> QED BY <1>5, <2>1, <2>2 DEF SendsOr, Changes, Fields
<1>8. /\ Changes(S, t, HandlerChanges) /\ t.cert_request \in {S.cert_request, 0, 1}
      /\ t.renegotiate \in {S.renegotiate, 1, 2}
    BY <1>5 DEF Changes, Fields, HandlerChanges, SendsOr
<1>9. Position(t) # "SW_HELLO_VERIFY"
    BY <1>5, PositionIs
<1> QED BY <1>1, <1>3, <1>5, <1>7, <1>8, <1>9, AgreeServerGoes DEF S, C, States, ReadStates

LEMMA AgreeRequestsCertificate ==
    ASSUME AuthInv, AgreeInv, TypeInv, Do("server", "SW_CERT_REQ", ssl3_send_certificate_request)
    PROVE  AgreeInv' /\ TypeInv'
<1> DEFINE S == ssl["server"]
           C == ssl["client"]
           t == ssl3_send_certificate_request(S)
<1>1. S.state = "SW_CERT_REQ" /\ Takes("server", t, Queue("server")) /\ Reads(Queue("server"), Queue("server"))
    BY DEF Do, Takes, Reads
<1>2. ServerAt(S, "SW_CERT_REQ") /\ DOMAIN S = Fields /\ ServerState(S) /\ S.who = "server"
    BY <1>1, ServerAgrees
<1>4. Number(S.wkey) \in Nat /\ Number(S.wkey) < S.cr
    <2>1. Position(S) = "SW_CERT_REQ"
        BY <1>1, PositionIs
    <2> HIDE DEF S
    <2> QED BY <1>1, <1>2, <2>1 DEF ServerState, ServerAsking, ServerBehind, ServerAsksFor
<1>a. SendsOr(S, t, Message("CertificateRequest", [none |-> TRUE])) /\ t.state \in {"SW_SRVR_DONE"} /\ t.cert_request \in {S.cert_request, 0, 1}
    BY <1>2, SendCertificateRequestSheet
<1>b. Message("CertificateRequest", [none |-> TRUE]).mt \notin {"Finished", "HelloVerifyRequest", "ServerHello"}
    BY DEF Message
<1>5. PICK m : /\ SendsOr(S, t, m) /\ m.mt \notin {"Finished", "HelloVerifyRequest", "ServerHello"}
               /\ t.state \in {"SW_SRVR_DONE"} /\ t.cert_request \in {S.cert_request, 0, 1}
    BY <1>a, <1>b
<1> HIDE DEF t, S, C
<1>3. ServerState(t)
    BY <1>2, <1>5, AgreeSendsOr DEF ServerAsksFor
<1>7. ServerWrote(C, S, t)
    <2>1. CASE Sent(S, t, m)
        BY <1>4, <1>5, <2>1, SentServerWrote
    <2>2. CASE t.wbuf = S.wbuf
        BY <2>2 DEF ServerWrote
    <2> QED BY <1>5, <2>1, <2>2 DEF SendsOr, Changes, Fields
<1>8. /\ Changes(S, t, HandlerChanges) /\ t.cert_request \in {S.cert_request, 0, 1}
      /\ t.renegotiate \in {S.renegotiate, 1, 2}
    BY <1>5 DEF Changes, Fields, HandlerChanges, SendsOr
<1>9. Position(t) # "SW_HELLO_VERIFY"
    BY <1>5, PositionIs
<1> QED BY <1>1, <1>3, <1>5, <1>7, <1>8, <1>9, AgreeServerGoes DEF S, C, States, ReadStates

LEMMA AgreeIsDone ==
    ASSUME AuthInv, AgreeInv, TypeInv, Do("server", "SW_SRVR_DONE", ssl3_send_server_done)
    PROVE  AgreeInv' /\ TypeInv'
<1> DEFINE S == ssl["server"]
           C == ssl["client"]
           t == ssl3_send_server_done(S)
           m == Message("ServerDone", [none |-> TRUE])
<1>1. S.state = "SW_SRVR_DONE" /\ Takes("server", t, Queue("server")) /\ Reads(Queue("server"), Queue("server"))
    BY DEF Do, Takes, Reads
<1>2. ServerAt(S, "SW_SRVR_DONE") /\ DOMAIN S = Fields /\ ServerState(S) /\ S.who = "server"
    BY <1>1, ServerAgrees
<1>3. ServerState(t)
    BY <1>2, AgreeSendServerDone
<1>4. Number(S.wkey) \in Nat /\ Number(S.wkey) < S.cr
    <2>1. Position(S) = "SW_SRVR_DONE"
        BY <1>1, PositionIs
    <2> HIDE DEF S
    <2> QED BY <1>1, <1>2, <2>1 DEF ServerState, ServerAsking, ServerBehind, ServerAsksFor
<1>5. /\ Changes(S, t, {"state", "next_state", "handshake_transcript", "wbuf", "handshake_hash"})
      /\ t.state = "FLUSH" /\ t.next_state = "SR_CERT" /\ Sent(S, t, m)
    BY <1>2, SendServerDoneSheet
<1>6. m.mt \notin {"Finished", "HelloVerifyRequest"} /\ (m.mt = "ServerHello" => Digest(m).body.sr = m.body.sr)
    BY DEF Message
<1> HIDE DEF t, m, S, C
<1>7. ServerWrote(C, S, t)
    BY <1>4, <1>5, <1>6, SentServerWrote
<1>8. /\ Changes(S, t, HandlerChanges) /\ t.cert_request \in {S.cert_request, 0, 1}
      /\ t.renegotiate \in {S.renegotiate, 1, 2}
    BY <1>5 DEF Changes, Fields, HandlerChanges
<1>9. Position(t) # "SW_HELLO_VERIFY"
    BY <1>5, PositionIs
<1> QED BY <1>1, <1>3, <1>5, <1>7, <1>8, <1>9, AgreeServerGoes DEF S, C, States, ReadStates

LEMMA AgreeSendsTicket ==
    ASSUME AuthInv, AgreeInv, TypeInv, Do("server", "SW_SESSION_TICKET", ssl3_send_newsession_ticket)
    PROVE  AgreeInv' /\ TypeInv'
<1> DEFINE S == ssl["server"]
           C == ssl["client"]
           t == ssl3_send_newsession_ticket(S)
           m == Message("NewSessionTicket", Ticket(S.n, S.session))
<1>1. S.state = "SW_SESSION_TICKET" /\ Takes("server", t, Queue("server")) /\ Reads(Queue("server"), Queue("server"))
    BY DEF Do, Takes, Reads
<1>2. ServerAt(S, "SW_SESSION_TICKET") /\ DOMAIN S = Fields /\ ServerState(S) /\ S.who = "server"
    BY <1>1, ServerAgrees
<1>3. ServerState(t)
    BY <1>2, AgreeSendTicket
<1>4. Number(S.wkey) \in Nat /\ Number(S.wkey) < S.cr
    <2>1. Position(S) = "SW_SESSION_TICKET"
        BY <1>1, PositionIs
    <2> HIDE DEF S
    <2> QED BY <1>1, <1>2, <2>1 DEF ServerState, ServerAnswering
<1>5. /\ Changes(S, t, {"state", "ccs_ok", "wbuf", "handshake_hash", "handshake_transcript"})
      /\ t.state = "SW_CHANGE" /\ Sent(S, t, m)
    BY <1>2, SendNewSessionTicketSheet
<1>6. m.mt \notin {"Finished", "HelloVerifyRequest"} /\ (m.mt = "ServerHello" => Digest(m).body.sr = m.body.sr)
    BY DEF Message
<1> HIDE DEF t, m, S, C
<1>7. ServerWrote(C, S, t)
    BY <1>4, <1>5, <1>6, SentServerWrote
<1>8. /\ Changes(S, t, HandlerChanges) /\ t.cert_request \in {S.cert_request, 0, 1}
      /\ t.renegotiate \in {S.renegotiate, 1, 2}
    BY <1>5 DEF Changes, Fields, HandlerChanges
<1>9. Position(t) # "SW_HELLO_VERIFY"
    BY <1>5, PositionIs
<1> QED BY <1>1, <1>3, <1>5, <1>7, <1>8, <1>9, AgreeServerGoes DEF S, C, States, ReadStates

LEMMA AgreeServerChanges ==
    ASSUME AuthInv, AgreeInv, TypeInv, Do("server", "SW_CHANGE", ssl3_send_server_change_cipher_spec)
    PROVE  AgreeInv' /\ TypeInv'
<1> DEFINE S == ssl["server"]
           C == ssl["client"]
           t == ssl3_send_server_change_cipher_spec(S)
           r == WireRecord(S, "ccs", NoMessage)
<1>1. S.state = "SW_CHANGE" /\ Takes("server", t, Queue("server")) /\ Reads(Queue("server"), Queue("server"))
    BY DEF Do, Takes, Reads
<1>2. ServerAt(S, "SW_CHANGE") /\ DOMAIN S = Fields /\ ServerState(S) /\ S.who = "server"
    BY <1>1, ServerAgrees
<1>3. ServerState(t)
    BY <1>2, AgreeServerChange
<1>4. Number(S.wkey) \in Nat /\ Number(S.wkey) < S.cr
    <2>1. Position(S) = "SW_CHANGE"
        BY <1>1, PositionIs
    <2> HIDE DEF S
    <2> QED BY <1>1, <1>2, <2>1 DEF ServerState, ServerAnswering
<1>5. Changes(S, t, {"state", "wbuf", "key_block", "wkey"}) /\ t.state = "SW_FINISHED" /\ t.wbuf = Append(S.wbuf, r)
    BY <1>2, ChangeCipherSpecSheet DEF ssl3_send_server_change_cipher_spec
<1>6. r.type = "ccs" /\ r.key = S.wkey
    BY DEF WireRecord
<1> HIDE DEF t, r, S, C
<1>7. ServerWrote(C, S, t)
    <2>1. FromServer(cfg, C, S, r)
        BY <1>4, <1>6 DEF FromServer, VerifyRequest, Is
    <2> QED BY <1>5, <2>1 DEF ServerWrote
<1>8. /\ Changes(S, t, HandlerChanges) /\ t.cert_request \in {S.cert_request, 0, 1}
      /\ t.renegotiate \in {S.renegotiate, 1, 2}
    BY <1>5 DEF Changes, Fields, HandlerChanges
<1>9. Position(t) # "SW_HELLO_VERIFY"
    BY <1>5, PositionIs
<1> QED BY <1>1, <1>3, <1>5, <1>7, <1>8, <1>9, AgreeServerGoes DEF S, C, States, ReadStates

LEMMA AgreeServerSkips ==
    ASSUME AuthInv, AgreeInv, TypeInv, Do("server", "SR_CERT", SkipClientCertificate)
    PROVE  AgreeInv' /\ TypeInv'
<1> DEFINE S == ssl["server"]
           C == ssl["client"]
           t == SkipClientCertificate(S)
<1>1. S.state = "SR_CERT" /\ Takes("server", t, Queue("server")) /\ Reads(Queue("server"), Queue("server"))
    BY DEF Do, Takes, Reads
<1>2. ServerAt(S, "SR_CERT") /\ DOMAIN S = Fields /\ ServerState(S) /\ S.who = "server"
    BY <1>1, ServerAgrees
<1>3. ServerState(t)
    BY <1>2, AgreeSkipClient
<1>5. Changes(S, t, {"state", "ccs_ok"}) /\ t.state = "SR_KEY_EXCH"
    BY <1>2, SkipClientCertificateSheet
<1> HIDE DEF t, S, C
<1>7. ServerWrote(C, S, t)
    BY <1>5 DEF Changes, Fields, ServerWrote
<1>8. /\ Changes(S, t, HandlerChanges) /\ t.cert_request \in {S.cert_request, 0, 1}
      /\ t.renegotiate \in {S.renegotiate, 1, 2}
    BY <1>5 DEF Changes, Fields, HandlerChanges
<1>9. Position(t) # "SW_HELLO_VERIFY"
    BY <1>5, PositionIs
<1> QED BY <1>1, <1>3, <1>5, <1>7, <1>8, <1>9, AgreeServerGoes DEF S, C, States, ReadStates

LEMMA AgreeReceivesCertificate ==
    ASSUME AuthInv, AgreeInv, TypeInv, Get("server", "SR_CERT", ssl3_get_client_certificate)
    PROVE  AgreeInv' /\ TypeInv'
<1> DEFINE S == ssl["server"]
           C == ssl["client"]
<1>1. PICK s, m, q : HasRead(S, s, m) /\ FromPeer("server", m, q) /\ Takes("server", ssl3_get_client_certificate(s, m), q)
    BY KeptFrom, NextFrom DEF Get, Reused, ssl3_get_message, Incoming, Endpoint
<1> DEFINE t == ssl3_get_client_certificate(s, m)
<1>2. /\ S.state = "SR_CERT" /\ ServerAt(S, "SR_CERT") /\ DOMAIN S = Fields /\ DOMAIN S.session = SessionFields
      /\ S.who = "server" /\ ServerAuth(cfg, S) /\ IsSeq(Queue("server"))
    BY ServerAgrees DEF Get
<1>3. /\ DOMAIN s = Fields /\ DOMAIN s.session = SessionFields /\ s.who = "server"
      /\ Changes(S, s, {"reuse_message", "handshake_hash", "handshake_transcript"})
    BY <1>1, <1>2, ReadKeeps
<1>a. S.state = "SR_CERT_VRFY" => S.reuse_message = Null
    BY <1>2 DEF ServerAuth
<1>b. Reads(Queue("server"), q) /\ Takes("server", t, q)
    BY <1>1 DEF FromPeer, Reads
<1>4. Fails(s, t) \/ ServerState(t)
    BY <1>1, <1>2, <1>a, AgreeGetClientCertificate
<1>5. \/ Fails(s, t)
      \/ /\ Changes(s, t, {"state", "ccs_ok", "session", "handshake_transcript"})
         /\ t.state \in {"SR_KEY_EXCH"}
    BY <1>3, GetClientCertificateSheet
<1> HIDE DEF t, S, C
<1>6. CASE Fails(s, t)
    <2>1. S.state # "Failed"
        BY <1>2
    <2> QED BY <1>3, <1>6, <1>b, <2>1, AgreeServerDies DEF S
<1>7. CASE ~Fails(s, t)
    <2>1. /\ Changes(S, t, HandlerChanges) /\ t.cert_request = S.cert_request /\ t.renegotiate = S.renegotiate
          /\ t.wbuf = S.wbuf
        BY <1>3, <1>5, <1>7 DEF Changes, Fields, HandlerChanges
    <2>2. ServerWrote(C, S, t)
        BY <2>1 DEF ServerWrote
    <2>3. Position(t) # "SW_HELLO_VERIFY" /\ t.state \in States \ {"BEFORE", "RENEGOTIATE", "Established"}
        BY <1>5, <1>7, PositionIs DEF States, ReadStates
    <2>4. S.state # "Failed"
        BY <1>2
    <2> QED BY <1>4, <1>7, <1>b, <2>1, <2>2, <2>3, <2>4, AgreeServerGoes DEF S, C
<1> QED BY <1>6, <1>7

LEMMA AgreeReceivesKeyExchange ==
    ASSUME AuthInv, AgreeInv, TypeInv, Get("server", "SR_KEY_EXCH", ssl3_get_client_key_exchange)
    PROVE  AgreeInv' /\ TypeInv'
<1> DEFINE S == ssl["server"]
           C == ssl["client"]
<1>1. PICK s, m, q : HasRead(S, s, m) /\ FromPeer("server", m, q) /\ Takes("server", ssl3_get_client_key_exchange(s, m), q)
    BY KeptFrom, NextFrom DEF Get, Reused, ssl3_get_message, Incoming, Endpoint
<1> DEFINE t == ssl3_get_client_key_exchange(s, m)
<1>2. /\ S.state = "SR_KEY_EXCH" /\ ServerAt(S, "SR_KEY_EXCH") /\ DOMAIN S = Fields /\ DOMAIN S.session = SessionFields
      /\ S.who = "server" /\ ServerAuth(cfg, S) /\ IsSeq(Queue("server"))
    BY ServerAgrees DEF Get
<1>3. /\ DOMAIN s = Fields /\ DOMAIN s.session = SessionFields /\ s.who = "server"
      /\ Changes(S, s, {"reuse_message", "handshake_hash", "handshake_transcript"})
    BY <1>1, <1>2, ReadKeeps
<1>a. S.state = "SR_CERT_VRFY" => S.reuse_message = Null
    BY <1>2 DEF ServerAuth
<1>b. Reads(Queue("server"), q) /\ Takes("server", t, q)
    BY <1>1 DEF FromPeer, Reads
<1>4. Fails(s, t) \/ ServerState(t)
    BY <1>1, <1>2, <1>a, AgreeGetClientKeyExchange
<1>5. \/ Fails(s, t)
      \/ /\ Changes(s, t, {"state", "ccs_ok", "session", "handshake_transcript", "frozen", "cert_verify"})
         /\ t.state \in {"SR_CERT_VRFY"}
    BY <1>3, GetClientKeyExchangeSheet
<1> HIDE DEF t, S, C
<1>6. CASE Fails(s, t)
    <2>1. S.state # "Failed"
        BY <1>2
    <2> QED BY <1>3, <1>6, <1>b, <2>1, AgreeServerDies DEF S
<1>7. CASE ~Fails(s, t)
    <2>1. /\ Changes(S, t, HandlerChanges) /\ t.cert_request = S.cert_request /\ t.renegotiate = S.renegotiate
          /\ t.wbuf = S.wbuf
        BY <1>3, <1>5, <1>7 DEF Changes, Fields, HandlerChanges
    <2>2. ServerWrote(C, S, t)
        BY <2>1 DEF ServerWrote
    <2>3. Position(t) # "SW_HELLO_VERIFY" /\ t.state \in States \ {"BEFORE", "RENEGOTIATE", "Established"}
        BY <1>5, <1>7, PositionIs DEF States, ReadStates
    <2>4. S.state # "Failed"
        BY <1>2
    <2> QED BY <1>4, <1>7, <1>b, <2>1, <2>2, <2>3, <2>4, AgreeServerGoes DEF S, C
<1> QED BY <1>6, <1>7

LEMMA AgreeReceivesVerify ==
    ASSUME AuthInv, AgreeInv, TypeInv, Get("server", "SR_CERT_VRFY", ssl3_get_cert_verify)
    PROVE  AgreeInv' /\ TypeInv'
<1> DEFINE S == ssl["server"]
           C == ssl["client"]
<1>1. PICK s, m, q : HasRead(S, s, m) /\ FromPeer("server", m, q) /\ Takes("server", ssl3_get_cert_verify(s, m), q)
    BY KeptFrom, NextFrom DEF Get, Reused, ssl3_get_message, Incoming, Endpoint
<1> DEFINE t == ssl3_get_cert_verify(s, m)
<1>2. /\ S.state = "SR_CERT_VRFY" /\ ServerAt(S, "SR_CERT_VRFY") /\ DOMAIN S = Fields /\ DOMAIN S.session = SessionFields
      /\ S.who = "server" /\ ServerAuth(cfg, S) /\ IsSeq(Queue("server"))
    BY ServerAgrees DEF Get
<1>3. /\ DOMAIN s = Fields /\ DOMAIN s.session = SessionFields /\ s.who = "server"
      /\ Changes(S, s, {"reuse_message", "handshake_hash", "handshake_transcript"})
    BY <1>1, <1>2, ReadKeeps
<1>a. S.state = "SR_CERT_VRFY" => S.reuse_message = Null
    BY <1>2 DEF ServerAuth
<1>b. Reads(Queue("server"), q) /\ Takes("server", t, q)
    BY <1>1 DEF FromPeer, Reads
<1>4. Fails(s, t) \/ ServerState(t)
    BY <1>1, <1>2, <1>a, AgreeGetCertVerify
<1>5. \/ Fails(s, t)
      \/ /\ Changes(s, t, {"state", "ccs_ok", "handshake_transcript", "reuse_message", "session"})
         /\ t.state \in {"SR_FINISHED"}
    <2>1. \/ Fails(s, t)
          \/ /\ m.mt # "CertificateVerify" /\ ~s.session.peer
             /\ Changes(s, t, {"state", "ccs_ok", "handshake_transcript", "reuse_message"})
             /\ t.state = "SR_FINISHED" /\ t.reuse_message = Some(m)
          \/ /\ m.mt = "CertificateVerify" /\ s.session.peer /\ ~s.change_cipher_spec
             /\ Changes(s, t, {"state", "ccs_ok", "handshake_transcript", "session"})
             /\ t.state = "SR_FINISHED" /\ t.session = [s.session EXCEPT !.proved = TRUE]
        BY <1>3, GetCertVerifySheet
    <2> HIDE DEF t
    <2> QED BY <2>1 DEF Changes
<1> HIDE DEF t, S, C
<1>6. CASE Fails(s, t)
    <2>1. S.state # "Failed"
        BY <1>2
    <2> QED BY <1>3, <1>6, <1>b, <2>1, AgreeServerDies DEF S
<1>7. CASE ~Fails(s, t)
    <2>1. /\ Changes(S, t, HandlerChanges) /\ t.cert_request = S.cert_request /\ t.renegotiate = S.renegotiate
          /\ t.wbuf = S.wbuf
        BY <1>3, <1>5, <1>7 DEF Changes, Fields, HandlerChanges
    <2>2. ServerWrote(C, S, t)
        BY <2>1 DEF ServerWrote
    <2>3. Position(t) # "SW_HELLO_VERIFY" /\ t.state \in States \ {"BEFORE", "RENEGOTIATE", "Established"}
        BY <1>5, <1>7, PositionIs DEF States, ReadStates
    <2>4. S.state # "Failed"
        BY <1>2
    <2> QED BY <1>4, <1>7, <1>b, <2>1, <2>2, <2>3, <2>4, AgreeServerGoes DEF S, C
<1> QED BY <1>6, <1>7

LEMMA AgreeReceivesFinished ==
    ASSUME AuthInv, AgreeInv, TypeInv, Get("server", "SR_FINISHED", ssl3_get_client_finished)
    PROVE  AgreeInv' /\ TypeInv'
<1> DEFINE S == ssl["server"]
           C == ssl["client"]
<1>1. PICK s, m, q : HasRead(S, s, m) /\ FromPeer("server", m, q) /\ Takes("server", ssl3_get_client_finished(s, m), q)
    BY KeptFrom, NextFrom DEF Get, Reused, ssl3_get_message, Incoming, Endpoint
<1> DEFINE t == ssl3_get_client_finished(s, m)
<1>2. /\ S.state = "SR_FINISHED" /\ ServerAt(S, "SR_FINISHED") /\ DOMAIN S = Fields /\ DOMAIN S.session = SessionFields
      /\ S.who = "server" /\ ServerAuth(cfg, S) /\ IsSeq(Queue("server"))
    BY ServerAgrees DEF Get
<1>3. /\ DOMAIN s = Fields /\ DOMAIN s.session = SessionFields /\ s.who = "server"
      /\ Changes(S, s, {"reuse_message", "handshake_hash", "handshake_transcript"})
    BY <1>1, <1>2, ReadKeeps
<1>a. S.state = "SR_CERT_VRFY" => S.reuse_message = Null
    BY <1>2 DEF ServerAuth
<1>b. Reads(Queue("server"), q) /\ Takes("server", t, q)
    BY <1>1 DEF FromPeer, Reads
<1>4. Fails(s, t) \/ ServerState(t)
    BY <1>1, <1>2, <1>a, AgreeGetClientFinished
<1>5. \/ Fails(s, t)
      \/ /\ Changes(s, t, {"change_cipher_spec", "state", "previous_client_finished"})
         /\ t.state \in {"ST_OK", "SW_SESSION_TICKET", "SW_CHANGE"}
    <2> DEFINE state == IF s.hit THEN "ST_OK" ELSE IF s.ticket_expected THEN "SW_SESSION_TICKET" ELSE "SW_CHANGE"
    <2>1. t = GetFinished(s, m, state) /\ state \in {"ST_OK", "SW_SESSION_TICKET", "SW_CHANGE"}
        BY DEF ssl3_get_client_finished
    <2> HIDE DEF t, state
    <2>2. \/ Fails(s, t)
          \/ /\ Changes(s, t, {"change_cipher_spec", "state",
                               IF s.who = "client" THEN "previous_server_finished" ELSE "previous_client_finished"})
             /\ t.state = state
        BY <1>3, <2>1, GetFinishedSheet DEF Endpoint
    <2> QED BY <1>3, <2>1, <2>2 DEF Changes, Fields
<1> HIDE DEF t, S, C
<1>6. CASE Fails(s, t)
    <2>1. S.state # "Failed"
        BY <1>2
    <2> QED BY <1>3, <1>6, <1>b, <2>1, AgreeServerDies DEF S
<1>7. CASE ~Fails(s, t)
    <2>1. /\ Changes(S, t, HandlerChanges) /\ t.cert_request = S.cert_request /\ t.renegotiate = S.renegotiate
          /\ t.wbuf = S.wbuf
        BY <1>3, <1>5, <1>7 DEF Changes, Fields, HandlerChanges
    <2>2. ServerWrote(C, S, t)
        BY <2>1 DEF ServerWrote
    <2>3. Position(t) # "SW_HELLO_VERIFY" /\ t.state \in States \ {"BEFORE", "RENEGOTIATE", "Established"}
        BY <1>5, <1>7, PositionIs DEF States, ReadStates
    <2>4. S.state # "Failed"
        BY <1>2
    <2> QED BY <1>4, <1>7, <1>b, <2>1, <2>2, <2>3, <2>4, AgreeServerGoes DEF S, C
<1> QED BY <1>6, <1>7

LEMMA AgreeServerBegins ==
    ASSUME AuthInv, AgreeInv, TypeInv, NEW state \in {"BEFORE", "ACCEPT", "RENEGOTIATE"}, Do("server", state, Accept)
    PROVE  AgreeInv' /\ TypeInv'
<1> DEFINE S == ssl["server"]
           C == ssl["client"]
           t == Accept(S)
<1>1. S.state = state /\ Takes("server", t, Queue("server")) /\ Reads(Queue("server"), Queue("server")) /\ S.state # "Failed"
    BY DEF Do, Takes, Reads
<1>2. /\ ServerAt(S, state) /\ DOMAIN S = Fields /\ Typed(S) /\ S.who = "server"
      /\ Changes(S, S, {"reuse_message", "handshake_hash", "handshake_transcript"})
    BY <1>1, ServerAgrees
<1>3. Fails(S, t) \/ ServerState(t)
    BY <1>2, AgreeAccept
<1>4. \/ Fails(S, t)
      \/ /\ S.state = "RENEGOTIATE" /\ Changes(S, t, {"renegotiate", "state"})
         /\ t.renegotiate = 1 /\ t.state = "SW_HELLO_REQ"
      \/ /\ S.state # "RENEGOTIATE" /\ Changes(S, t, {"handshake_transcript", "frozen", "state", "n", "bbio"})
         /\ S.handshake_transcript = Null
         /\ t.handshake_transcript = Some(<< >>) /\ ~t.frozen /\ t.state = "SR_CLNT_HELLO"
         /\ t.n = S.n + 1 /\ t.bbio
    BY <1>2, AcceptSheet
<1> HIDE DEF t, S, C
<1>5. CASE Fails(S, t)
    BY <1>1, <1>2, <1>5, AgreeServerDies DEF S
<1>6. CASE ~Fails(S, t)
    <2>1. /\ DOMAIN t = Fields /\ t.who = S.who /\ t.hit = S.hit /\ t.data = S.data /\ t.cert_request = S.cert_request
          /\ t.cr = S.cr /\ t.previous_server_finished = S.previous_server_finished /\ t.wbuf = S.wbuf
          /\ t.bbio \/ t.bbio = S.bbio
          /\ t.renegotiate = S.renegotiate \/ t.renegotiate = 1
          /\ t.state \in {"SW_HELLO_REQ", "SR_CLNT_HELLO"}
        BY <1>4, <1>6 DEF Changes, Fields
    <2>2. TypedStep(S, t)
        BY <1>2, <2>1 DEF TypedStep, Typed, States, ReadStates
    <2>3. ServerWrote(C, S, t)
        BY <2>1 DEF ServerWrote
    <2>4. Position(t) # "SW_HELLO_VERIFY"
        BY <2>1, PositionIs
    <2> QED BY <1>1, <1>3, <1>6, <2>1, <2>2, <2>3, <2>4, AgreeServerPlain DEF S, C
<1> QED BY <1>5, <1>6

(* A step that leaves the handshake where it is. *)
LEMMA AgreeServerStays ==
    ASSUME AuthInv, AgreeInv, TypeInv, NEW t, NEW q, Takes("server", t, q), Reads(Queue("server"), q),
           ssl["server"].state # "Failed", Changes(ssl["server"], t, {"state", "ccs_ok", "flush", "wbuf", "data"}),
           Position(t) = Position(ssl["server"]), Position(t) # "SW_HELLO_VERIFY",
           t.state = ssl["server"].state \/ t.state \in {"SR_CLNT_HELLO", "SR_CERT", "SR_FINISHED", "ST_OK"},
           ssl["server"].state \notin {"SW_FINISHED", "SW_SESSION_TICKET"},
           ServerWrote(ssl["client"], ssl["server"], t), t.data \in 0 .. DataBound \/ t.data = ssl["server"].data
    PROVE  AgreeInv' /\ TypeInv'
<1> DEFINE S == ssl["server"]
<1>1. Typed(S) /\ ServerState(S) /\ S.who = "server"
    BY ServerAgrees
<1>2. Changes(S, t, Aside)
    BY DEF Changes, Aside, Fields
<1> HIDE DEF S
<1>3. ServerState(t)
    BY <1>1, <1>2, ServerFrame DEF S
<1>4. /\ DOMAIN t = Fields /\ t.who = S.who /\ t.hit = S.hit /\ t.cert_request = S.cert_request /\ t.renegotiate = S.renegotiate
      /\ t.bbio = S.bbio /\ t.cr = S.cr /\ t.previous_server_finished = S.previous_server_finished
    BY DEF Changes, Fields, S
<1>5. TypedStep(S, t)
    BY <1>1, <1>4 DEF Typed, TypedStep, States, ReadStates, S
<1> QED BY <1>3, <1>4, <1>5, AgreeServerPlain DEF S

LEMMA AgreeServerFlushes ==
    ASSUME AuthInv, AgreeInv, TypeInv, Do("server", "FLUSH", FlushBuffer)
    PROVE  AgreeInv' /\ TypeInv'
<1> DEFINE S == ssl["server"]
           C == ssl["client"]
           t == FlushBuffer(S)
<1>1. S.state = "FLUSH" /\ Takes("server", t, Queue("server")) /\ Reads(Queue("server"), Queue("server"))
    BY DEF Do, Takes, Reads
<1>2. DOMAIN S = Fields /\ ServerAuth(cfg, S)
    BY <1>1, ServerAgrees
<1>3. Changes(S, t, {"state", "ccs_ok", "flush"}) /\ t.state = S.next_state
    BY <1>2, FlushSheet
<1> HIDE DEF t, S, C
<1>4. S.next_state \in {"SR_CLNT_HELLO", "SR_CERT", "SR_FINISHED", "ST_OK"}
    BY <1>1, <1>2 DEF ServerAuth
<1>5. Position(t) = S.next_state /\ Position(S) = S.next_state
    BY <1>1, <1>3, <1>4, PositionIs
<1>6. Changes(S, t, {"state", "ccs_ok", "flush", "wbuf", "data"}) /\ t.wbuf = S.wbuf /\ t.data = S.data
    BY <1>3 DEF Changes, Fields
<1>7. ServerWrote(C, S, t)
    BY <1>6 DEF ServerWrote
<1> QED BY <1>1, <1>3, <1>4, <1>5, <1>6, <1>7, AgreeServerStays DEF S, C

LEMMA AgreeServerEnds ==
    ASSUME AuthInv, AgreeInv, TypeInv, ssl_update_cache
    PROVE  AgreeInv' /\ TypeInv'
<1> DEFINE S == ssl["server"]
           C == ssl["client"]
           t == Accepted(S)
<1>1. S.state = "ST_OK" /\ Takes("server", t, Queue("server")) /\ Reads(Queue("server"), Queue("server")) /\ S.state # "Failed"
    BY DEF ssl_update_cache, Takes, Reads
<1>2. /\ ServerAt(S, "ST_OK") /\ DOMAIN S = Fields /\ Typed(S) /\ S.who = "server"
      /\ Changes(S, S, {"reuse_message", "handshake_hash", "handshake_transcript"})
    BY <1>1, ServerAgrees
<1>3. Fails(S, t) \/ ServerState(t)
    BY <1>2, AgreeAccepted
<1>4. \/ Fails(S, t)
      \/ /\ Changes(S, t, {"state", "key_block", "bbio", "wbuf", "renegotiate", "new_session", "done"})
         /\ t.state = "Established" /\ ~t.bbio /\ t.wbuf = << >> /\ t.renegotiate \in {0, S.renegotiate}
    BY <1>2, AcceptedSheet
<1> HIDE DEF t, S, C
<1>5. CASE Fails(S, t)
    BY <1>1, <1>2, <1>5, AgreeServerDies DEF S
<1>6. CASE ~Fails(S, t)
    <2>1. /\ DOMAIN t = Fields /\ t.who = S.who /\ t.hit = S.hit /\ t.data = S.data /\ t.cert_request = S.cert_request
          /\ t.cr = S.cr /\ t.previous_server_finished = S.previous_server_finished
        BY <1>4, <1>6 DEF Changes, Fields
    <2>2. TypedStep(S, t)
        BY <1>2, <1>4, <1>6, <2>1 DEF TypedStep, Typed, States, ReadStates
    <2>3. ServerWrote(C, S, t)
        BY <1>4, <1>6 DEF ServerWrote
    <2>4. Position(t) # "SW_HELLO_VERIFY"
        BY <1>4, <1>6, PositionIs
    <2> QED BY <1>1, <1>3, <1>6, <2>1, <2>2, <2>3, <2>4, AgreeServerPlain DEF S, C
<1> QED BY <1>5, <1>6

(* What the record layer does for a server that waits. *)
LEMMA ServerListens ==
    ASSUME AuthInv, AgreeInv, TypeInv, Waits("server")
    PROVE  LET S == ssl["server"]
           IN  /\ S.state \in ReadStates /\ S.state # "Failed" /\ ServerAt(S, S.state) /\ S.reuse_message = Null
               /\ Position(S) = S.state /\ S.state \notin {"SW_HELLO_VERIFY", "SW_FINISHED", "SW_SESSION_TICKET"}
<1> DEFINE S == ssl["server"]
<1>1. S.state \in ReadStates /\ S.reuse_message = Null
    BY DEF Waits
<1>2. S.state # "Failed"
    BY <1>1 DEF ReadStates
<1>3. ServerAt(S, S.state)
    BY <1>2, ServerAgrees
<1> HIDE DEF S
<1>4. S.state \notin {"FLUSH", "SW_HELLO_VERIFY", "SW_FINISHED", "SW_SESSION_TICKET"}
    BY <1>1 DEF ReadStates
<1> QED BY <1>1, <1>2, <1>3, <1>4, PositionIs DEF S

LEMMA AgreeServerDrops ==
    ASSUME AuthInv, AgreeInv, TypeInv, Waits("server"), net["server"] # << >>, NEW t, StepAfterRead("server", t),
           t \in {ssl["server"], Abort(ssl["server"]), Die(ssl["server"])}
    PROVE  AgreeInv' /\ TypeInv'
<1> DEFINE S == ssl["server"]
           C == ssl["client"]
<1>1. Takes("server", t, Tail(Queue("server"))) /\ Reads(Queue("server"), Tail(Queue("server")))
    BY IncomingIs DEF Takes, Endpoint
<1>2. /\ S.state \in ReadStates /\ S.state # "Failed" /\ Position(S) = S.state
      /\ S.state \notin {"SW_HELLO_VERIFY", "SW_FINISHED", "SW_SESSION_TICKET"}
    BY ServerListens
<1>3. DOMAIN S = Fields /\ Changes(S, S, {"reuse_message", "handshake_hash", "handshake_transcript"})
    BY <1>2, ServerAgrees
<1>4. Fails(S, Abort(S)) /\ Fails(S, Die(S))
    BY <1>3, AbortSheet, DieSheet
<1>5. CASE t = S
    <2>1. Changes(S, t, {"state", "ccs_ok", "flush", "wbuf", "data"}) /\ ServerWrote(C, S, t)
        BY <1>3, <1>5 DEF Changes, ServerWrote
    <2> QED BY <1>1, <1>2, <1>5, <2>1, AgreeServerStays
<1>6. CASE Fails(S, t)
    BY <1>1, <1>2, <1>3, <1>6, AgreeServerDies
<1> QED BY <1>4, <1>5, <1>6

LEMMA AgreeServerCcs ==
    ASSUME AuthInv, AgreeInv, TypeInv, ssl3_read_change_cipher_spec("server")
    PROVE  AgreeInv' /\ TypeInv'
<1> DEFINE C == ssl["client"]
           S == ssl["server"]
           t == ReadCcs(S)
<1>1. /\ Waits("server") /\ StepAfterRead("server", t) /\ net["server"] # << >>
      /\ Head(net["server"]).type = "ccs" /\ Head(net["server"]).key = S.rkey
    BY DEF ssl3_read_change_cipher_spec, Incoming, Opens
<1>2. /\ Takes("server", t, Tail(Queue("server"))) /\ Reads(Queue("server"), Tail(Queue("server")))
      /\ Queue("server")[1] = Head(net["server"]) /\ 1 \in 1 .. Len(Queue("server"))
    BY <1>1, IncomingIs DEF Takes, Endpoint
<1>3. /\ S.state \in ReadStates /\ S.state # "Failed" /\ ServerAt(S, S.state) /\ S.reuse_message = Null
      /\ Position(S) = S.state /\ S.state # "SW_HELLO_VERIFY"
    BY <1>1, ServerListens
<1>4. DOMAIN S = Fields /\ Typed(S) /\ S.who = "server" /\ LinkS(cfg, C, S, Queue("server"))
    BY <1>3, ServerAgrees
<1>6. \/ t.state = "Failed" /\ Changes(S, t, {"state", "wbuf", "flush", "ccs_ok", "change_cipher_spec"})
         /\ (t.wbuf = << >> \/ t.wbuf = Append(S.wbuf, WireRecord(S, "alert", NoMessage)))
      \/ Changes(S, t, {"ccs_ok", "change_cipher_spec", "key_block", "rkey", "peer_finished"})
    BY <1>4, ReadCcsSheet DEF Changes
<1>7. Number(S.rkey) < S.cr
    <2>1. FromClient(C, S, Queue("server")[1])
        BY <1>2, <1>4 DEF LinkS
    <2> QED BY <1>1, <1>2, <2>1 DEF FromClient
<1>8. t.state = "Failed" \/ ServerState(t)
    BY <1>3, <1>7, AgreeServerReadCcs
<1> HIDE DEF t, C, S
<1>9. CASE t.state = "Failed" /\ Changes(S, t, {"state", "wbuf", "flush", "ccs_ok", "change_cipher_spec"})
           /\ (t.wbuf = << >> \/ t.wbuf = Append(S.wbuf, WireRecord(S, "alert", NoMessage)))
    <2>1. /\ DOMAIN t = Fields /\ t.who = S.who /\ t.hit = S.hit /\ t.bbio = S.bbio /\ t.data = S.data
          /\ t.cert_request = S.cert_request /\ t.renegotiate = S.renegotiate /\ t.cr = S.cr
          /\ t.previous_server_finished = S.previous_server_finished
        BY <1>9 DEF Changes, Fields
    <2>2. TypedStep(S, t)
        BY <1>4, <1>9, <2>1, TypedOn DEF States
    <2>3. ServerWrote(C, S, t)
        BY <1>9, OtherFromServer DEF ServerWrote
    <2>4. Position(t) # "SW_HELLO_VERIFY"
        BY <1>9, PositionIs
    <2> QED BY <1>2, <1>3, <1>9, <2>1, <2>2, <2>3, <2>4, AgreeServerPlain DEF C, S
<1>10. CASE Changes(S, t, {"ccs_ok", "change_cipher_spec", "key_block", "rkey", "peer_finished"})
    <2>1. /\ DOMAIN t = Fields /\ t.who = S.who /\ t.hit = S.hit /\ t.bbio = S.bbio /\ t.data = S.data /\ t.state = S.state
          /\ t.cert_request = S.cert_request /\ t.renegotiate = S.renegotiate /\ t.cr = S.cr /\ t.wbuf = S.wbuf
          /\ t.previous_server_finished = S.previous_server_finished /\ t.next_state = S.next_state
        BY <1>10 DEF Changes, Fields
    <2>2. TypedStep(S, t)
        BY <1>4, <2>1 DEF Typed, TypedStep
    <2>3. ServerWrote(C, S, t)
        BY <2>1 DEF ServerWrote
    <2>4. Position(t) = Position(S)
        BY <2>1 DEF Position
    <2> QED BY <1>2, <1>3, <1>8, <2>1, <2>2, <2>3, <2>4, AgreeServerPlain DEF C, S
<1> QED BY <1>6, <1>9, <1>10

LEMMA AgreeServerBegs ==
    ASSUME AuthInv, AgreeInv, TypeInv, NEW t, NEW q, Takes("server", t, q), Reads(Queue("server"), q),
           ssl["server"].state = "Established", t.state \in {"RENEGOTIATE", "ACCEPT"}, t.renegotiate = 1,
           Changes(ssl["server"], t, {"state", "renegotiate", "new_session", "total_renegotiations"})
    PROVE  AgreeInv' /\ TypeInv'
<1> DEFINE S == ssl["server"]
<1>1. ServerAt(S, "Established") /\ Typed(S) /\ S.who = "server"
    BY ServerAgrees
<1>2. /\ DOMAIN t = Fields /\ t.who = S.who /\ t.hit = S.hit /\ t.bbio = S.bbio /\ t.data = S.data /\ t.cert_request = S.cert_request
      /\ t.cr = S.cr /\ t.wbuf = S.wbuf /\ t.previous_server_finished = S.previous_server_finished
    BY DEF Changes, Fields
<1>3. Changes(S, t, Aside)
    BY DEF Changes, Aside
<1>4. ServerState(t)
    BY <1>1, <1>3, AgreeServerRenegotiate
<1>5. TypedStep(S, t)
    BY <1>1, <1>2 DEF Typed, TypedStep, States
<1>6. Position(t) # "SW_HELLO_VERIFY"
    BY PositionIs
<1> QED BY <1>2, <1>4, <1>5, <1>6, AgreeServerPlain DEF ServerWrote

LEMMA AgreeServerReadBytes ==
    ASSUME AuthInv, AgreeInv, TypeInv, ssl3_read_bytes("server")
    PROVE  AgreeInv' /\ TypeInv'
<1> DEFINE S == ssl["server"]
<1>1. CASE ssl3_read_change_cipher_spec("server")
    BY <1>1, AgreeServerCcs
<1>2. CASE ssl3_read_alert("server")
    BY <1>2, AgreeServerDrops DEF ssl3_read_alert, Incoming
<1>3. CASE BadRecord("server")
    BY <1>3, AgreeServerDrops DEF BadRecord
<1>4. CASE SkipHelloRequest("server")
    BY <1>4, AgreeServerDrops DEF SkipHelloRequest, Incoming
<1>5. CASE ReadData("server")
    <2>1. PICK call \in cfg.calls :
            StepAfterRead("server", IF MayReadData(ssl["server"], call) THEN ssl["server"] ELSE Abort(ssl["server"]))
      BY <1>5 DEF ReadData
    <2>2. Waits("server") /\ Incoming("server", "data") /\ UNCHANGED cache
      BY <1>5 DEF ReadData
    <2> QED BY <2>1, <2>2, AgreeServerDrops DEF Incoming
<1>6. CASE ssl3_read_handshake_unexpected("server")
    <2> DEFINE m == Head(net["server"]).msg
               t == Unexpected(S, m)
    <2>1. /\ S.state = "Established" /\ Incoming("server", "handshake") /\ net["server"] # << >>
          /\ Step("server", t) \/ StepAfterRead("server", t)
        BY <1>6 DEF ssl3_read_handshake_unexpected, Incoming
    <2>2. /\ DOMAIN S = Fields /\ S.who = "server"
          /\ Changes(S, S, {"reuse_message", "handshake_hash", "handshake_transcript"})
        BY <2>1, ServerAgrees
    <2>3. Reads(Queue("server"), Queue("server")) /\ Reads(Queue("server"), Tail(Queue("server")))
        BY <2>1, IncomingIs DEF Endpoint, Reads
    <2>4. PICK q : Takes("server", t, q) /\ Reads(Queue("server"), q)
        BY <2>1, <2>3 DEF Takes
    <2>5. \/ Fails(S, t)
          \/ Changes(S, t, {"state", "renegotiate", "new_session"}) /\ t.state = "ACCEPT" /\ t.renegotiate = 1
        BY <2>2, UnexpectedSheet
    <2> HIDE DEF t, m
    <2>6. CASE Fails(S, t)
        BY <2>1, <2>2, <2>4, <2>6, AgreeServerDies
    <2>7. CASE Changes(S, t, {"state", "renegotiate", "new_session"}) /\ t.state = "ACCEPT" /\ t.renegotiate = 1
        <3>1. Changes(S, t, {"state", "renegotiate", "new_session", "total_renegotiations"})
            BY <2>7 DEF Changes, Fields
        <3> QED BY <2>1, <2>4, <2>7, <3>1, AgreeServerBegs
    <2> QED BY <2>5, <2>6, <2>7
<1> QED BY <1>1, <1>2, <1>3, <1>4, <1>5, <1>6 DEF ssl3_read_bytes

LEMMA AgreeServerOther ==
    ASSUME AuthInv, AgreeInv, TypeInv, Reenter("server") \/ Request("server")
    PROVE  AgreeInv' /\ TypeInv'
<1> DEFINE S == ssl["server"]
           C == ssl["client"]
<1>0. Reads(Queue("server"), Queue("server")) /\ DOMAIN S = Fields
    BY DEF Reads, AuthInv, Auth, IsSsl
<1>1. CASE Reenter("server")
    <2> DEFINE t == Goto(S, S.state)
    <2>1. Waits("server") /\ Takes("server", t, Queue("server")) /\ S.state \in AllowsCcs
        BY <1>1 DEF Reenter, Takes
    <2>2. /\ S.state # "Failed" /\ Position(S) = S.state
          /\ S.state \notin {"SW_HELLO_VERIFY", "SW_FINISHED", "SW_SESSION_TICKET"}
        BY <2>1, ServerListens
    <2>3. Changes(S, t, {"state", "ccs_ok", "flush", "wbuf", "data"}) /\ t.wbuf = S.wbuf /\ t.data = S.data /\ t.state = S.state
        BY <1>0 DEF Goto, Changes, Fields
    <2>4. t.next_state = S.next_state
        BY <1>0 DEF Goto, Fields
    <2> HIDE DEF t, S, C
    <2>5. Position(t) = Position(S) /\ ServerWrote(C, S, t)
        BY <2>3, <2>4 DEF Position, ServerWrote
    <2> QED BY <1>0, <2>1, <2>2, <2>3, <2>5, AgreeServerStays DEF S, C
<1>2. CASE WriteData("server")
    <2> DEFINE t == [Write(S, "data", NoMessage) EXCEPT !.data = @ + 1]
    <2>1. S.state = "Established" /\ Takes("server", t, Queue("server")) /\ S.data < DataBound
        BY <1>2 DEF WriteData, Takes
    <2>2. /\ Changes(S, t, {"state", "ccs_ok", "flush", "wbuf", "data"}) /\ t.data = S.data + 1 /\ t.state = S.state
          /\ t.wbuf = Append(S.wbuf, WireRecord(S, "data", NoMessage))
        BY <1>0 DEF Write, Changes, Fields
    <2>3. S.data \in 0 .. DataBound /\ DataBound \in Nat
        BY <2>1, ServerAgrees, BoundAssumption DEF Typed
    <2> HIDE DEF t, S, C
    <2>4. t.data \in 0 .. DataBound
        BY <2>1, <2>2, <2>3
    <2>5. Position(t) = "Established" /\ Position(S) = "Established"
        BY <2>1, <2>2, PositionIs
    <2>6. ServerWrote(C, S, t)
        BY <2>2, OtherFromServer DEF ServerWrote
    <2> QED BY <1>0, <2>1, <2>2, <2>4, <2>5, <2>6, AgreeServerStays DEF S, C
<1>3. ASSUME NEW abbreviated \in BOOLEAN, SSL_renegotiate("server", abbreviated) PROVE AgreeInv' /\ TypeInv'
    <2> DEFINE t == [S EXCEPT !.state = "RENEGOTIATE", !.renegotiate = 1, !.new_session = ~abbreviated,
                              !.total_renegotiations = @ + 1]
    <2>1. S.state = "Established" /\ Takes("server", t, Queue("server"))
        BY <1>3 DEF SSL_renegotiate, Takes
    <2>2. /\ Changes(S, t, {"state", "renegotiate", "new_session", "total_renegotiations"}) /\ t.state = "RENEGOTIATE"
          /\ t.renegotiate = 1
        BY <1>0 DEF Changes, Fields
    <2> HIDE DEF t
    <2> QED BY <1>0, <2>1, <2>2, AgreeServerBegs
<1> QED BY <1>1, <1>2, <1>3 DEF Request

LEMMA AgreeAsksForCookie ==
    ASSUME AuthInv, AgreeInv, TypeInv, Do("server", "SW_HELLO_VERIFY", ssl3_send_dtls_hello_verify_request)
    PROVE  AgreeInv' /\ TypeInv'
<1> DEFINE S == ssl["server"]
           C == ssl["client"]
           t == ssl3_send_dtls_hello_verify_request(S)
           m == Message("HelloVerifyRequest", [none |-> TRUE])
           r == WireRecord(S, "handshake", m)
<1>1. S.state = "SW_HELLO_VERIFY" /\ Takes("server", t, Queue("server")) /\ Reads(Queue("server"), Queue("server"))
    BY DEF Do, Takes, Reads
<1>2. /\ ServerAt(S, "SW_HELLO_VERIFY") /\ DOMAIN S = Fields /\ Position(S) = "SW_HELLO_VERIFY"
      /\ LinkS(cfg, C, S, Queue("server"))
    BY <1>1, ServerAgrees, PositionIs
<1>3. ServerState(t)
    BY <1>2, AgreeVerifyRequest
<1>4. /\ Changes(S, t, {"wbuf", "handshake_hash", "handshake_transcript", "frozen", "state", "next_state"})
      /\ Sent(S, t, m) /\ t.state = "FLUSH" /\ t.next_state = "SR_CLNT_HELLO"
    BY <1>2, VerifyRequestSheet
<1>5. r.type = "handshake" /\ r.msg.mt = "HelloVerifyRequest"
    BY DEF WireRecord, Message
<1>6. t.wbuf = Append(S.wbuf, r)
    BY <1>4 DEF Sent
<1> HIDE DEF t, m, r, S, C
<1>7. FromServer(cfg, C, S, r)
    BY <1>2, <1>5 DEF FromServer, LinkS, Is
<1>8. ServerWrote(C, S, t)
    BY <1>6, <1>7 DEF ServerWrote
<1>9. Changes(S, t, HandlerChanges) /\ t.cert_request = S.cert_request /\ t.renegotiate = S.renegotiate
    BY <1>4 DEF Changes, Fields, HandlerChanges
<1>10. Position(t) # "SW_HELLO_VERIFY"
    BY <1>4, PositionIs
<1> QED BY <1>1, <1>3, <1>4, <1>8, <1>9, <1>10, AgreeServerGoes DEF S, C, States

(* The server's Finished takes the place of that of the handshake before. *)
LEMMA GenuineFinished ==
    ASSUME NEW S, NEW t, NEW x, ServerOld(S), t.cr = S.cr, Genuine(S, x)
    PROVE  Genuine(t, x)
    BY SomeIs DEF Genuine, ServerOld

LEMMA LinkCFinished ==
    ASSUME NEW c, NEW C, NEW S, NEW t, NEW qc, NEW r, LinkC(c, C, S, qc), IsSeq(qc), ServerOld(S), t.cr = S.cr,
           FromServer(c, C, t, r)
    PROVE  LinkC(c, C, t, Append(qc, r))
<1>1. \A x : Genuine(S, x) => Genuine(t, x)
    BY GenuineFinished
<1>2. ASSUME NEW i \in 1 .. Len(qc) PROVE FromServer(c, C, t, qc[i])
    BY <1>1 DEF LinkC, FromServer
<1> DEFINE q2 == Append(qc, r)
<1>3. Len(q2) = Len(qc) + 1 /\ (\A i \in 1 .. Len(qc) : q2[i] = qc[i]) /\ q2[Len(qc) + 1] = r /\ Len(qc) \in Nat
    BY SeqAppend DEF IsSeq
<1> HIDE DEF q2
<1>4. \A i \in 1 .. Len(q2) : FromServer(c, C, t, q2[i])
    <2>1. \A i \in 1 .. Len(q2) : i \in 1 .. Len(qc) \/ i = Len(qc) + 1
        BY <1>3
    <2> QED BY <1>2, <1>3, <2>1
<1>5. LinkC(c, C, t, q2)
    BY <1>1, <1>4 DEF LinkC
<1> QED BY <1>5 DEF q2

LEMMA AgreeServerFinishes ==
    ASSUME AuthInv, AgreeInv, TypeInv, Do("server", "SW_FINISHED", ssl3_send_server_finished)
    PROVE  AgreeInv' /\ TypeInv'
<1> DEFINE S == ssl["server"]
           C == ssl["client"]
           t == ssl3_send_server_finished(S)
           m == VerifyData(S, "server")
           r == WireRecord(S, "handshake", m)
<1>1. S.state = "SW_FINISHED" /\ Takes("server", t, Queue("server")) /\ Reads(Queue("server"), Queue("server"))
    BY DEF Do, Takes, Reads
<1>2. /\ ServerAt(S, "SW_FINISHED") /\ DOMAIN S = Fields /\ Position(S) = "SW_FINISHED" /\ S.who = "server"
      /\ LinkS(cfg, C, S, Queue("server")) /\ IsSeq(Queue("server")) /\ IsSeq(Queue("client"))
      /\ C.state # "Failed" => LinkC(cfg, C, S, Queue("client"))
      /\ ServerAuth(cfg, S) /\ Typed(S) /\ S.cr \in Nat /\ ServerState(S)
    BY <1>1, ServerAgrees, PositionIs
<1>3. S.reuse_message = Null
    BY <1>1, <1>2 DEF ServerAuth
<1>4. ServerState(t) /\ \E h : Hellos(S, h) /\ m = Fin("server", S, h)
    BY <1>2, <1>3, AgreeSendServerFinished
<1>5. /\ Changes(S, t, {"wbuf", "handshake_hash", "handshake_transcript", "previous_server_finished", "state", "next_state"})
      /\ Sent(S, t, m) /\ t.previous_server_finished = Some(m)
      /\ t.state = "FLUSH" /\ t.next_state \in {"SR_FINISHED", "ST_OK"}
    BY <1>2, ServerFinishedSheet
<1>6. r.type = "handshake" /\ r.msg = m
    BY DEF WireRecord
<1>7. t.wbuf = Append(S.wbuf, r)
    BY <1>5 DEF Sent
<1> HIDE DEF t, m, r
<1>8. IsSeq(t.wbuf) /\ net["client"] \o t.wbuf = Append(Queue("client"), r)
    BY <1>7, ServerAppends
<1> HIDE DEF S, C
<1>9. ServerOld(S)
    BY <1>1, <1>2 DEF ServerState, ServerAnswering
<1>10. /\ DOMAIN t = Fields /\ t.who = S.who /\ t.hit = S.hit /\ t.bbio = S.bbio /\ t.data = S.data /\ t.cr = S.cr
       /\ t.cert_request = S.cert_request /\ t.renegotiate = S.renegotiate
    BY <1>5 DEF Changes, Fields
<1>11. TypedStep(S, t)
    BY <1>2, <1>5, <1>10, TypedOn DEF States
<1>12. m.mt = "Finished" /\ Cr(m) = S.cr
    BY <1>4, CrFin, DigestFin DEF Hellos
<1>13. FromServer(cfg, C, t, r)
    BY <1>2, <1>5, <1>6, <1>10, <1>12 DEF FromServer, Genuine, VerifyRequest, Is
<1>14. C.state # "Failed" => LinkC(cfg, C, t, net["client"] \o t.wbuf)
    BY <1>2, <1>8, <1>9, <1>10, <1>13, LinkCFinished
<1>15. Position(t) # "SW_HELLO_VERIFY"
    BY <1>5, PositionIs
<1>16. LinkS(cfg, C, t, Queue("server"))
    BY <1>1, <1>2, <1>10, <1>15, LinkSServer
<1>17. S.state # "Failed"
    BY <1>1
<1> QED BY <1>1, <1>4, <1>8, <1>11, <1>14, <1>16, <1>17, AgreeServerStep DEF S, C

(* The server takes up a hello of the client. *)
LEMMA LinkSHello ==
    ASSUME NEW c, NEW C, NEW S, NEW t, NEW qs, LinkS(c, C, S, qs), IsSeq(qs), qs # << >>, Is(qs[1], "ClientHello"),
           t.cr = qs[1].msg.body.cr, S.cr \in Nat, Position(t) # "SW_HELLO_VERIFY"
    PROVE  LinkS(c, C, t, Tail(qs))
<1> DEFINE q == Tail(qs)
<1>1. /\ Len(q) = Len(qs) - 1 /\ Len(qs) \in Nat \ {0} /\ \A i \in 1 .. Len(q) : q[i] = qs[i + 1]
    BY SeqTail
<1> HIDE DEF q
<1>2. 1 \in 1 .. Len(qs)
    BY <1>1
<1>3. t.cr \in Nat /\ S.cr < t.cr
    BY <1>2 DEF LinkS, FromClient
<1>4. ASSUME NEW i \in 1 .. Len(q) PROVE ~Is(q[i], "ClientHello") /\ FromClient(C, t, q[i])
    <2>1. q[i] = qs[i + 1] /\ i + 1 \in 1 .. Len(qs) /\ i + 1 # 1
        BY <1>1
    <2>2. ~Is(q[i], "ClientHello") /\ FromClient(C, S, q[i])
        BY <1>2, <2>1 DEF LinkS
    <2>3. q[i].type = "ccs" => Number(q[i].key) \in Nat /\ Number(q[i].key) < t.cr
        BY <1>3, <2>2 DEF FromClient
    <2> QED BY <2>2, <2>3 DEF FromClient
<1>5. LinkS(c, C, t, q)
    BY <1>4 DEF LinkS
<1> QED BY <1>5 DEF q

LEMMA LinkCHello ==
    ASSUME NEW c, NEW C, NEW S, NEW t, NEW qc, LinkC(c, C, S, qc), ~Starting(C), NEW k \in Nat, t.cr = k,
           S.cr < k, k <= C.n, C.n \in Nat, c.dtls => NoVerifyRequest(qc)
    PROVE  LinkC(c, C, t, qc)
<1>1. ASSUME NEW x, Genuine(S, x) PROVE Genuine(t, x)
    <2>1. S.cr \in Nat /\ Cr(x) \in Nat /\ Cr(x) <= S.cr
        BY <1>1 DEF LinkC, Genuine
    <2>2. Cr(x) < t.cr /\ Cr(x) <= t.cr /\ Cr(x) # t.cr
        BY <2>1
    <2> QED BY <2>1, <2>2 DEF Genuine
<1>2. S.cr # C.n /\ S.cr \in Nat
    BY DEF LinkC
<1>3. ASSUME NEW i \in 1 .. Len(qc) PROVE FromServer(c, C, t, qc[i])
    <2> DEFINE r == qc[i]
    <2>1. FromServer(c, C, S, r) /\ (c.dtls => ~VerifyRequest(r))
        BY DEF LinkC, NoVerifyRequest
    <2> HIDE DEF r
    <2>2. ~VerifyRequest(r)
        BY <2>1 DEF FromServer
    <2>3. Number(r.key) \in Nat /\ Number(r.key) < S.cr => Number(r.key) < t.cr
        BY <1>2
    <2>4. FromServer(c, C, t, r)
        BY <1>1, <2>1, <2>2, <2>3 DEF FromServer
    <2> QED BY <2>4 DEF r
<1> QED BY <1>1, <1>2, <1>3 DEF LinkC, Starting

LEMMA AgreeHearsClient ==
    ASSUME AuthInv, AgreeInv, TypeInv, Get("server", "SR_CLNT_HELLO", ssl3_get_client_hello)
    PROVE  AgreeInv' /\ TypeInv'
<1> DEFINE S == ssl["server"]
           C == ssl["client"]
           qs == Queue("server")
           qc == Queue("client")
<1>1. PICK s, m, q : HasRead(S, s, m) /\ FromPeer("server", m, q) /\ Takes("server", ssl3_get_client_hello(s, m), q)
    BY KeptFrom, NextFrom DEF Get, Reused, ssl3_get_message, Incoming, Endpoint
<1> DEFINE t == ssl3_get_client_hello(s, m)
<1>2. /\ S.state = "SR_CLNT_HELLO" /\ S.state # "Failed" /\ ServerAt(S, "SR_CLNT_HELLO") /\ DOMAIN S = Fields
      /\ S.who = "server" /\ ServerAuth(cfg, S) /\ Typed(S) /\ S.cr \in Nat /\ C.n \in Nat
      /\ LinkS(cfg, C, S, qs) /\ IsSeq(qs) /\ IsSeq(qc)
      /\ C.state # "Failed" => LinkC(cfg, C, S, qc)
      /\ qc = net["client"] \o S.wbuf /\ IsSeq(S.wbuf)
    BY ServerAgrees DEF Get
<1>3. S.reuse_message = Null
    BY <1>2 DEF ServerAuth
<1>4. qs # << >> /\ q = Tail(qs) /\ qs[1].type = "handshake" /\ qs[1].msg = m /\ Takes("server", t, q)
    BY <1>1, <1>3 DEF FromPeer
<1>5. 1 \in 1 .. Len(qs) /\ Reads(qs, q)
    <2>1. Len(qs) \in Nat \ {0}
        BY <1>2, <1>4, SeqTail
    <2> QED BY <1>4, <2>1 DEF Reads
<1>6. m.mt = "ClientHello" =>
        /\ Is(qs[1], "ClientHello") /\ m.body.cr \in Nat /\ S.cr < m.body.cr /\ m.body.cr <= C.n
        /\ Digest(m).body.cr = m.body.cr
    BY <1>2, <1>4, <1>5 DEF LinkS, FromClient, Is
<1>7. Fails(s, t) \/ ServerState(t)
    BY <1>1, <1>2, <1>3, <1>6, AgreeGetClientHello
<1>8. /\ DOMAIN s = Fields /\ Changes(S, s, {"reuse_message", "handshake_hash", "handshake_transcript"})
    BY <1>1, <1>2, ReadKeeps
<1>9. \/ Fails(s, t)
      \/ /\ m.mt = "ClientHello" /\ cfg.dtls /\ Changes(s, t, {"state", "ccs_ok"}) /\ t.state = "SW_HELLO_VERIFY"
      \/ /\ m.mt = "ClientHello"
         /\ Changes(s, t, {"cr", "sr", "cipher", "ticket_expected", "hit", "session", "handshake_hash",
                           "status_expected", "renegotiate", "handshake_transcript", "state", "ccs_ok"})
         /\ t.state = "SW_SRVR_HELLO" /\ t.cr = m.body.cr /\ t.renegotiate \in {2, s.renegotiate} /\ t.hit \in BOOLEAN
    BY <1>8, GetClientHelloSheet
<1> HIDE DEF t, S, C, qs, qc
<1>10. CASE Fails(s, t)
    BY <1>2, <1>4, <1>5, <1>8, <1>10, AgreeServerDies DEF S, qs
<1>11. CASE ~Fails(s, t) /\ t.state = "SW_HELLO_VERIFY"
    <2>1. m.mt = "ClientHello" /\ cfg.dtls /\ Changes(s, t, {"state", "ccs_ok"})
        BY <1>9, <1>11
    <2>2. /\ DOMAIN t = Fields /\ t.who = S.who /\ t.hit = S.hit /\ t.bbio = S.bbio /\ t.data = S.data /\ t.cr = S.cr /\ t.wbuf = S.wbuf
          /\ t.cert_request = S.cert_request /\ t.renegotiate = S.renegotiate
          /\ t.previous_server_finished = S.previous_server_finished
        BY <1>8, <2>1 DEF Changes, Fields
    <2>3. TypedStep(S, t)
        BY <1>2, <1>11, <2>2, TypedOn DEF States
    <2>4. ServerWrote(C, S, t) /\ S.cr < C.n
        BY <1>2, <1>6, <2>1, <2>2 DEF ServerWrote
    <2> QED BY <1>2, <1>4, <1>5, <1>7, <1>11, <2>1, <2>2, <2>3, <2>4, AgreeServerPlain DEF S, C, qs
<1>12. CASE ~Fails(s, t) /\ t.state # "SW_HELLO_VERIFY"
    <2>1. /\ m.mt = "ClientHello"
          /\ Changes(s, t, {"cr", "sr", "cipher", "ticket_expected", "hit", "session", "handshake_hash",
                            "status_expected", "renegotiate", "handshake_transcript", "state", "ccs_ok"})
          /\ t.state = "SW_SRVR_HELLO" /\ t.cr = m.body.cr /\ t.renegotiate \in {2, s.renegotiate} /\ t.hit \in BOOLEAN
        BY <1>9, <1>12
    <2>2. /\ DOMAIN t = Fields /\ t.who = S.who /\ t.bbio = S.bbio /\ t.data = S.data /\ t.wbuf = S.wbuf
          /\ t.cert_request = S.cert_request /\ t.renegotiate \in {2, S.renegotiate}
        BY <1>8, <2>1 DEF Changes, Fields
    <2>3. TypedStep(S, t)
        BY <1>2, <2>1, <2>2, TypedOn DEF States
    <2>4. Position(t) # "SW_HELLO_VERIFY"
        BY <2>1, PositionIs
    <2>5. LinkS(cfg, C, t, q)
        BY <1>2, <1>4, <1>6, <2>1, <2>4, LinkSHello
    <2>6. ASSUME C.state # "Failed" PROVE LinkC(cfg, C, t, qc)
        <3>1. ~Starting(C)
            BY <1>2, <1>5, <1>6, <2>1 DEF LinkS
        <3>2. cfg.dtls => NoVerifyRequest(qc)
            <4> SUFFICES ASSUME cfg.dtls PROVE NoVerifyRequest(qc)
                OBVIOUS
            <4>1. Cookies(cfg, C, S, qs, qc)
                BY DEF AuthInv, Auth, C, S, qs, qc
            <4>2. CookiePhase(C, S, qs, qc)
                BY <1>2, <2>6, <4>1 DEF Cookies
            <4> QED BY <1>4, <4>2, NoneEmpty DEF CookiePhase
        <3> QED BY <1>2, <1>6, <2>1, <2>6, <3>1, <3>2, LinkCHello
    <2>7. net["client"] \o t.wbuf = qc /\ IsSeq(t.wbuf)
        BY <1>2, <2>2
    <2> QED BY <1>2, <1>4, <1>7, <1>12, <2>3, <2>5, <2>6, <2>7, AgreeServerStep DEF S, C
<1> QED BY <1>10, <1>11, <1>12

LEMMA AgreeAcceptStep ==
    ASSUME AuthInv, AgreeInv, TypeInv, ssl3_accept
    PROVE  AgreeInv' /\ TypeInv'
    BY AgreeServerBegins, AgreeAsksForHello, AgreeHearsClient, AgreeAsksForCookie, AgreeAnswersHello,
       AgreeShowsCertificate, AgreeStaples, AgreeServerKeyExchanges, AgreeRequestsCertificate, AgreeIsDone,
       AgreeServerSkips, AgreeReceivesCertificate, AgreeReceivesKeyExchange, AgreeReceivesVerify, AgreeReceivesFinished,
       AgreeSendsTicket, AgreeServerChanges, AgreeServerFinishes, AgreeServerEnds
    DEF ssl3_accept

-----------------------------------------------------------------------------
(* The theorem of agreement. *)

LEMMA AgreeOmit ==
    ASSUME AuthInv, AgreeInv, TypeInv, NEW e \in Endpoint, Omit(e)
    PROVE  AgreeInv' /\ TypeInv'
<1> DEFINE C == ssl["client"]
           S == ssl["server"]
<1>1. /\ net[e] # << >> /\ net' = [net EXCEPT ![e] = Tail(@)] /\ omitted < OmissionBound /\ omitted' = omitted + 1
      /\ cfg' = cfg /\ ssl' = ssl
    BY DEF Omit
<1>2. IsSeq(net[e]) /\ IsSeq(ssl[Peer(e)].wbuf) /\ Queue(e) = net[e] \o ssl[Peer(e)].wbuf
    BY AuthQueues
<1>3. net'[e] = Tail(net[e]) /\ \A x \in Endpoint : x # e => net'[x] = net[x]
    BY <1>1 DEF AuthInv, Shape
<1>4. Queue(e)' = Tail(Queue(e)) /\ Queue(e) # << >>
    BY <1>1, <1>2, <1>3, ConcatTail DEF Queue
<1>5. ASSUME NEW x \in Endpoint PROVE Reads(Queue(x), Queue(x)')
    <2>1. CASE x = e
        BY <1>4, <2>1 DEF Reads
    <2>2. CASE x # e
        BY <1>1, <1>3, <2>2 DEF Queue, Reads
    <2> QED BY <2>1, <2>2
<1> DEFINE qs == Queue("server")
           qc == Queue("client")
           qs2 == Queue("server")'
           qc2 == Queue("client")'
<1>6. Reads(qs, qs2) /\ Reads(qc, qc2) /\ IsSeq(qs) /\ IsSeq(qc)
    BY <1>5, AuthQueues DEF Endpoint
<1>7. Agree(cfg, C, S, qs, qc)
    BY DEF AgreeInv
<1>8. TypeInv'
    BY <1>1, BoundAssumption DEF TypeInv
<1> HIDE DEF C, S, qs, qc, qs2, qc2
<1>9. LinkC(cfg, C, S, qc) => LinkC(cfg, C, S, qc2)
    <2> SUFFICES ASSUME LinkC(cfg, C, S, qc) PROVE LinkC(cfg, C, S, qc2)
        OBVIOUS
    <2>1. /\ ClientPlace(C) \notin {"BEFORE", "CW_CLNT_HELLO", "CR_SRVR_HELLO"} => S.cr = C.n
          /\ Starting(C) => S.cr < C.n
        BY DEF LinkC
    <2> QED BY <1>6, <2>1, LinkCClient
<1>10. LinkS(cfg, C, S, qs) => LinkS(cfg, C, S, qs2)
    <2> SUFFICES ASSUME LinkS(cfg, C, S, qs) PROVE LinkS(cfg, C, S, qs2)
        OBVIOUS
    <2>1. Position(S) = "SW_HELLO_VERIFY" => cfg.dtls /\ S.cr < C.n
        BY DEF LinkS
    <2> QED BY <1>6, <2>1, LinkSServer
<1>11. Agree(cfg, C, S, qs2, qc2)
    BY <1>7, <1>9, <1>10 DEF Agree
<1> QED BY <1>1, <1>8, <1>11 DEF AgreeInv, C, S, qs2, qc2

LEMMA AgreeInit == ASSUME Init PROVE AgreeInv /\ TypeInv
<1> DEFINE C == ssl["client"]
           S == ssl["server"]
<1>1. /\ C = NewSsl("client", ClientSession(cfg)) /\ S = NewSsl("server", NoSession)
      /\ net = [e \in Endpoint |-> << >>] /\ DOMAIN ssl = Endpoint /\ omitted = 0
    BY DEF Init, Endpoint
<1>2. /\ C.who = "client" /\ C.state = "BEFORE" /\ C.n = 0 /\ C.rkey = Null /\ C.wkey = Null /\ C.key_block = Null
      /\ ~C.change_cipher_spec /\ ~C.cipher /\ C.reuse_message = Null /\ C.previous_server_finished = Null
      /\ C.cert_request = 0 /\ C.renegotiate = 0 /\ C.data = 0 /\ ~C.bbio /\ C.wbuf = << >> /\ C.hit = FALSE
    BY <1>1 DEF NewSsl
<1>3. /\ S.who = "server" /\ S.state = "BEFORE" /\ S.cr = 0 /\ S.rkey = Null /\ S.wkey = Null /\ S.key_block = Null
      /\ ~S.change_cipher_spec /\ S.previous_server_finished = Null
      /\ S.cert_request = 0 /\ S.renegotiate = 0 /\ S.data = 0 /\ S.wbuf = << >> /\ S.hit = FALSE
    BY <1>1 DEF NewSsl
<1>4. Queue("server") = << >> /\ Queue("client") = << >>
    <2>1. net["client"] = << >> /\ net["server"] = << >>
        BY <1>1 DEF Endpoint
    <2> QED BY <1>2, <1>3, <2>1, SeqEmpty, ConcatEmpty DEF Queue, Peer
<1> HIDE DEF C, S
<1>5. ClientPlace(C) = "BEFORE" /\ Position(S) = "BEFORE"
    BY <1>2, <1>3, PlaceIs, PositionIs
<1>6. ClientState(cfg, C)
    BY <1>2, <1>5 DEF ClientState, ClientAsks
<1>7. ServerState(S)
    BY <1>3, <1>5, NumberNull DEF ServerState, ServerHearing, ServerAsksFor
<1>8. LinkC(cfg, C, S, << >>)
    BY <1>2, <1>3, <1>5 DEF LinkC, Starting
<1>9. LinkS(cfg, C, S, << >>)
    BY <1>2, <1>5 DEF LinkS, Starting
<1>10. AgreeInv
    BY <1>4, <1>6, <1>7, <1>8, <1>9 DEF AgreeInv, Agree, C, S
<1>11. Typed(C) /\ Typed(S)
    <2>1. C.hit \in BOOLEAN /\ S.hit \in BOOLEAN
        BY <1>2, <1>3
    <2>2. 0 \in 0 .. DataBound /\ 0 \in 0 .. 2
        BY BoundAssumption
    <2> QED BY <1>2, <1>3, <2>1, <2>2 DEF Typed, States
<1>12. TypeInv
    BY <1>1, <1>11, BoundAssumption DEF TypeInv, Endpoint, C, S
<1> QED BY <1>10, <1>12

LEMMA AgreeStep == ASSUME AuthInv, AgreeInv, TypeInv, [Next]_vars PROVE AgreeInv' /\ TypeInv'
<1>1. CASE UNCHANGED vars
    BY <1>1 DEF AgreeInv, TypeInv, Queue, vars
<1>2. ASSUME NEW e \in Endpoint, Progress(e) PROVE AgreeInv' /\ TypeInv'
    BY <1>2, AgreeConnectStep, AgreeAcceptStep, AgreeFlushes, AgreeServerFlushes, AgreeClientReadBytes,
       AgreeServerReadBytes, AgreeClientOther, AgreeServerOther DEF Progress, Endpoint
<1>3. ASSUME NEW e \in Endpoint, Request(e) PROVE AgreeInv' /\ TypeInv'
    BY <1>3, AgreeClientOther, AgreeServerOther DEF Endpoint
<1>4. ASSUME NEW e \in Endpoint, Omit(e) PROVE AgreeInv' /\ TypeInv'
    BY <1>4, AgreeOmit
<1> QED BY <1>1, <1>2, <1>3, <1>4 DEF Next

(* Finished messages that are the same are computed from the same. *)
LEMMA FinIs ==
    ASSUME NEW who, NEW x, NEW y, NEW h, NEW g, Fin(who, x, h) = Fin(who, y, g)
    PROVE  x.session.master = y.session.master /\ h = g
<1>1. /\ Fin(who, x, h).body.master = x.session.master /\ Fin(who, y, g).body.master = y.session.master
      /\ Fin(who, x, h).body.hash = Some(h) /\ Fin(who, y, g).body.hash = Some(g)
    BY DEF Fin, Message
<1> QED BY <1>1, SomeIs

(* The end of what is hashed tells a full handshake from a resumption, and a *)
(* handshake with a ticket from one without.                                 *)
LEMMA EndedIs ==
    ASSUME NEW who, NEW x, NEW g, IsSeq(g)
    PROVE  /\ Ended(who, x, g) = Append(g, FinDigest(who, x)) /\ FinDigest(who, x).mt = "Finished"
           /\ Len(Ended(who, x, g)) = Len(g) + 1 /\ IsSeq(Ended(who, x, g))
    BY SeqAppend DEF Ended, FinDigest, Message

LEMMA BeforeIs ==
    ASSUME NEW x, NEW h, Before(x, h), ~x.hit
    PROVE  \E g : /\ IsSeq(g) /\ IsSeq(h) /\ Len(g) \in Nat /\ Len(g) >= 2 /\ Len(h) = Len(g) + 1
                  /\ h = Append(g, FinDigest("client", x)) /\ FinDigest("client", x).mt = "Finished"
                  /\ x.previous_client_finished = Some(Fin("client", x, g))
<1>1. PICK g : Hellos(x, g) /\ h = Ended("client", x, g) /\ x.previous_client_finished = Some(Fin("client", x, g))
    BY DEF Before
<1>2. IsSeq(g) /\ Len(g) >= 2 /\ IsSeq(h)
    BY <1>1 DEF Hellos, Before
<1>3. Len(g) \in Nat
    BY <1>2 DEF IsSeq
<1>4. /\ h = Append(g, FinDigest("client", x)) /\ FinDigest("client", x).mt = "Finished" /\ Len(h) = Len(g) + 1
    BY <1>1, <1>2, EndedIs
<1> QED BY <1>1, <1>2, <1>3, <1>4

LEMMA ReadyHit ==
    ASSUME NEW x, NEW y, NEW h, Ready(x, h), Ready(y, h), x.hit
    PROVE  y.hit
<1> SUFFICES ASSUME ~y.hit PROVE FALSE
    OBVIOUS
<1>1. CASE Before(x, h)
    <2>1. Len(h) = 2
        BY <1>1 DEF Before
    <2>2. CASE Before(y, h)
        BY <2>1, <2>2, BeforeIs
    <2>3. CASE \E g, m : Before(y, g) /\ m.mt = "NewSessionTicket" /\ h = Append(g, m)
        <3>1. PICK g, m : Before(y, g) /\ h = Append(g, m)
            BY <2>3
        <3>2. IsSeq(g) /\ Len(g) \in Nat /\ Len(g) >= 3
            BY <3>1, BeforeIs
        <3>3. Len(h) = Len(g) + 1
            BY <3>1, <3>2, SeqAppend
        <3> DEFINE n == Len(g)
        <3>4. n \in Nat /\ n >= 3 /\ n + 1 = 2
            BY <2>1, <3>2, <3>3
        <3> HIDE DEF n
        <3> QED BY <3>4
    <2> QED BY <2>2, <2>3 DEF Ready
<1>2. CASE \E g, m : Before(x, g) /\ m.mt = "NewSessionTicket" /\ h = Append(g, m)
    <2>1. PICK g, m : Before(x, g) /\ m.mt = "NewSessionTicket" /\ h = Append(g, m)
        BY <1>2
    <2>2. IsSeq(g) /\ Len(g) = 2
        BY <2>1 DEF Before, Hellos
    <2>3. CASE Before(y, h)
        <3>1. PICK f : IsSeq(f) /\ h = Append(f, FinDigest("client", y)) /\ FinDigest("client", y).mt = "Finished"
            BY <2>3, BeforeIs
        <3>2. m = FinDigest("client", y)
            BY <2>1, <2>2, <3>1, SameAppend
        <3> QED BY <2>1, <3>1, <3>2
    <2>4. CASE \E f, n : Before(y, f) /\ n.mt = "NewSessionTicket" /\ h = Append(f, n)
        <3>1. PICK f, n : Before(y, f) /\ h = Append(f, n)
            BY <2>4
        <3>2. IsSeq(f) /\ Len(f) \in Nat /\ Len(f) >= 3
            BY <3>1, BeforeIs
        <3>3. g = f
            BY <2>1, <2>2, <3>1, <3>2, SameAppend
        <3> DEFINE k == Len(f)
        <3>4. k \in Nat /\ k >= 3 /\ k = 2
            BY <2>2, <3>2, <3>3
        <3> HIDE DEF k
        <3> QED BY <3>4
    <2> QED BY <2>3, <2>4 DEF Ready
<1> QED BY <1>1, <1>2 DEF Ready

LEMMA ReadySame ==
    ASSUME NEW x, NEW y, NEW h, Same(x, y), Ready(x, h), Ready(y, h), ~x.hit
    PROVE  y.previous_client_finished = x.previous_client_finished
<1>1. ~y.hit /\ \A g : Fin("client", y, g) = Fin("client", x, g)
    BY SameKeys DEF Same
<1>2. ASSUME NEW g, Before(x, g), Before(y, g) PROVE y.previous_client_finished = x.previous_client_finished
    <2>1. PICK a : IsSeq(a) /\ g = Append(a, FinDigest("client", x)) /\ x.previous_client_finished = Some(Fin("client", x, a))
        BY <1>2, BeforeIs
    <2>2. PICK b : IsSeq(b) /\ g = Append(b, FinDigest("client", y)) /\ y.previous_client_finished = Some(Fin("client", y, b))
        BY <1>1, <1>2, BeforeIs
    <2>3. a = b
        BY <2>1, <2>2, SameAppend
    <2> QED BY <1>1, <2>1, <2>2, <2>3
<1>3. ASSUME NEW u, NEW v, NEW g, NEW m, ~u.hit, ~v.hit, Before(u, h), Before(v, g), m.mt = "NewSessionTicket",
             h = Append(g, m)
      PROVE  FALSE
    <2>1. PICK f : IsSeq(f) /\ h = Append(f, FinDigest("client", u)) /\ FinDigest("client", u).mt = "Finished"
        BY <1>3, BeforeIs
    <2>2. IsSeq(g)
        BY <1>3, BeforeIs
    <2>3. m = FinDigest("client", u)
        BY <1>3, <2>1, <2>2, SameAppend
    <2> QED BY <1>3, <2>1, <2>3
<1>4. CASE Before(x, h)
    <2>1. Before(y, h)
        BY <1>1, <1>3, <1>4 DEF Ready
    <2> QED BY <1>2, <1>4, <2>1
<1>5. CASE \E g, m : Before(x, g) /\ m.mt = "NewSessionTicket" /\ h = Append(g, m)
    <2>1. PICK g, m : Before(x, g) /\ m.mt = "NewSessionTicket" /\ h = Append(g, m)
        BY <1>5
    <2>2. ~Before(y, h)
        BY <1>1, <1>3, <2>1
    <2>3. PICK f, n : Before(y, f) /\ h = Append(f, n)
        BY <2>2 DEF Ready
    <2>4. IsSeq(g) /\ IsSeq(f)
        BY <1>1, <2>1, <2>3, BeforeIs
    <2>5. g = f
        BY <2>1, <2>3, <2>4, SameAppend
    <2> QED BY <1>2, <2>1, <2>3, <2>5
<1> QED BY <1>4, <1>5 DEF Ready

(* Two that have completed a handshake with the same Finished of the server. *)
LEMMA CompleteSame ==
    ASSUME NEW C, NEW S, Complete(C), Complete(S), C.hit \in BOOLEAN, S.hit \in BOOLEAN, C.cr = S.cr,
           C.previous_server_finished = S.previous_server_finished
    PROVE  /\ Same(C, S) /\ C.handshake_hash = S.handshake_hash
           /\ C.previous_client_finished = S.previous_client_finished
<1>1. PICK h : /\ Ready(C, h) /\ C.previous_server_finished = Some(Fin("server", C, h))
               /\ ~C.hit => C.handshake_hash = Some(Ended("server", C, h))
               /\ C.hit => LET g == Ended("server", C, h)
                           IN  /\ C.previous_client_finished = Some(Fin("client", C, g))
                               /\ C.handshake_hash = Some(Ended("client", C, g))
    BY DEF Complete
<1>2. PICK k : /\ Ready(S, k) /\ S.previous_server_finished = Some(Fin("server", S, k))
               /\ ~S.hit => S.handshake_hash = Some(Ended("server", S, k))
               /\ S.hit => LET g == Ended("server", S, k)
                           IN  /\ S.previous_client_finished = Some(Fin("client", S, g))
                               /\ S.handshake_hash = Some(Ended("client", S, g))
    BY DEF Complete
<1>3. Fin("server", C, h) = Fin("server", S, k)
    <2>1. Some(Fin("server", C, h)) = Some(Fin("server", S, k))
        BY <1>1, <1>2
    <2> QED BY <2>1 DEF Some
<1>4. C.session.master = S.session.master /\ h = k
    BY <1>3, FinIs
<1>5. Hellos(C, h) /\ Hellos(S, h)
    BY <1>1, <1>2, <1>4, ReadyHellos
<1>6. C.sr = S.sr
    BY <1>5 DEF Hellos
<1>7. C.hit <=> S.hit
    BY <1>1, <1>2, <1>4, ReadyHit
<1>8. C.hit = S.hit
    BY <1>7, Zenon
<1>9. Same(C, S)
    BY <1>4, <1>6, <1>8 DEF Same
<1>10. \A who, g : Fin(who, S, g) = Fin(who, C, g) /\ Ended(who, S, g) = Ended(who, C, g)
    BY <1>9, SameKeys
<1>11. C.handshake_hash = S.handshake_hash
    BY <1>1, <1>2, <1>4, <1>7, <1>10
<1>12. C.previous_client_finished = S.previous_client_finished
    <2>1. CASE C.hit
        BY <1>1, <1>2, <1>4, <1>7, <1>10, <2>1
    <2>2. CASE ~C.hit
        BY <1>1, <1>2, <1>4, <1>9, <2>2, ReadySame
    <2> QED BY <2>1, <2>2
<1> QED BY <1>9, <1>11, <1>12

LEMMA AgreeImplies == ASSUME AuthInv, AgreeInv, TypeInv PROVE Agreement
<1> DEFINE C == ssl["client"]
           S == ssl["server"]
<1>1. /\ cfg \in Configs /\ ClientAuth(cfg, C) /\ ServerAuth(cfg, S) /\ C.who = "client" /\ S.who = "server"
    BY DEF AuthInv, Auth, IsSsl
<1>2. Agree(cfg, C, S, Queue("server"), Queue("client"))
    BY DEF AgreeInv
<1>3. Typed(C) /\ Typed(S) /\ omitted \in 0 .. OmissionBound
    BY DEF TypeInv, Endpoint
<1> HIDE DEF C, S
<1>4. C.state = "Established" =>
        /\ ClientDone(C) /\ S.cr = C.n
        /\ C.previous_server_finished # Null => Genuine(S, C.previous_server_finished[1])
    <2> SUFFICES ASSUME C.state = "Established"
                 PROVE  /\ ClientDone(C) /\ S.cr = C.n
                        /\ C.previous_server_finished # Null => Genuine(S, C.previous_server_finished[1])
        OBVIOUS
    <2>1. ClientPlace(C) = "Established" /\ ClientState(cfg, C) /\ LinkC(cfg, C, S, Queue("client"))
        BY <1>2, PlaceIs DEF Agree
    <2>2. ClientDone(C)
        BY <2>1 DEF ClientState
    <2> QED BY <2>1, <2>2 DEF LinkC
<1>5. S.state = "Established" => ServerDone(S)
    <2>1. S.state = "Established" => Position(S) = "Established" /\ ServerState(S)
        BY <1>2, PositionIs DEF Agree
    <2> QED BY <2>1 DEF ServerState
<1>6. /\ C.reuse_message # Null => C.state \in ReadStates \union {"Failed"} /\ C.state # "Established"
      /\ S.reuse_message # Null => S.state \in ReadStates \union {"Failed"} /\ S.state # "Established"
    BY <1>1 DEF ClientAuth, ServerAuth, ClientKeeps, ReadStates
<1>7. /\ C.state = "Established" => ~C.change_cipher_spec
      /\ S.state = "Established" => ~S.change_cipher_spec
    BY <1>4, <1>5 DEF ClientDone, ServerDone
<1>8. TypeOK
    BY <1>1, <1>3, <1>6, <1>7 DEF TypeOK, Typed, Established, Endpoint, C, S
<1>9. ASSUME C.state = "Established", S.state = "Established"
      PROVE  /\ C.session.master = S.session.master /\ Keys(C) = Keys(S)
             /\ C.hit = S.hit /\ C.handshake_hash = S.handshake_hash
             /\ C.previous_client_finished = S.previous_client_finished
             /\ C.previous_server_finished = S.previous_server_finished
             /\ C.wkey = <<"client">> \o Keys(C) /\ S.rkey = C.wkey
             /\ S.wkey = <<"server">> \o Keys(S) /\ C.rkey = S.wkey
    <2>1. Complete(C) /\ Complete(S) /\ C.cr = S.cr /\ C.hit \in BOOLEAN /\ S.hit \in BOOLEAN
        BY <1>3, <1>4, <1>5, <1>9 DEF ClientDone, ServerDone, Typed
    <2>2. PICK h : Ready(C, h) /\ C.previous_server_finished = Some(Fin("server", C, h))
        BY <2>1 DEF Complete
    <2>3. Cr(Fin("server", C, h)) = S.cr
        BY <2>1, <2>2, ReadyHellos, CrFin DEF Hellos
    <2>4. Genuine(S, Fin("server", C, h))
        BY <1>4, <1>9, <2>2, SomeIs
    <2>5. S.previous_server_finished = C.previous_server_finished
        BY <2>2, <2>3, <2>4 DEF Genuine
    <2>6. /\ Same(C, S) /\ C.handshake_hash = S.handshake_hash
          /\ C.previous_client_finished = S.previous_client_finished
        BY <2>1, <2>5, CompleteSame
    <2>7. Keys(S) = Keys(C)
        BY <2>6, SameKeys
    <2>8. /\ C.rkey = KeyOf("server", C) /\ C.wkey = KeyOf("client", C)
          /\ S.rkey = KeyOf("client", S) /\ S.wkey = KeyOf("server", S)
        BY <1>1, <2>1 DEF Complete, Peer
    <2> QED BY <2>5, <2>6, <2>7, <2>8 DEF Same, KeyOf
<1> QED BY <1>8, <1>9 DEF Agreement, Established, Endpoint, C, S

(* ssl_clnt.c, ssl_srvr.c, tls12_lib.c: whenever both endpoints have         *)
(* completed a handshake, they have completed the same one: one master       *)
(* secret, one transcript, the same Finished messages and the same keys, for *)
(* every configuration and any number of renegotiations, data records and    *)
(* omitted plaintext records.  Argument: AgreeInv says state by state what   *)
(* an endpoint has hashed and which keys it has, and that a server's         *)
(* Finished of the present handshake is the one that the server remembers.   *)
THEOREM SpecAgreement == Spec => []Agreement
<1>1. Init => AuthInv /\ AgreeInv /\ TypeInv
    BY AuthInit, AgreeInit
<1>2. (AuthInv /\ AgreeInv /\ TypeInv) /\ [Next]_vars => (AuthInv /\ AgreeInv /\ TypeInv)'
    BY AuthStep, AgreeStep
<1>3. AuthInv /\ AgreeInv /\ TypeInv => Agreement
    BY AgreeImplies
<1> QED BY <1>1, <1>2, <1>3, PTL DEF Spec
=============================================================================
