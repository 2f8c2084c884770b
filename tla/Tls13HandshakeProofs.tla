------------------------ MODULE Tls13HandshakeProofs ------------------------
(* The TLS 1.3 handshake: the state machine never leaves its table and never *)
(* rewrites its past, an endpoint that completes has authenticated its peer, *)
(* and two endpoints that complete agree, for every pair of configurations,  *)
(* every blocking of writes and every damage of hellos.                      *)
(*                                                                           *)
(* Inv says what an endpoint that is alive knows at its place in the table,  *)
(* and what the records it has sent say of it: a Finished message on its way *)
(* names the keys and the hash its sender still holds.                       *)
EXTENDS Tls13Handshake, TLAPS

Fields ==
    {"mode", "cfg", "st", "hs", "n", "alert", "hs_msg", "need_flush", "send_dummy_ccs",
     "send_dummy_ccs_after", "ccs_allowed", "ccs_seen", "ccs_sent", "wrec", "out", "read", "write",
     "transcript", "frozen", "handshake_hash", "transcript_hash", "clienthello_hash", "hrr",
     "server_group", "cipher", "key_share", "sid", "client_groups", "shared", "handshake_traffic",
     "application_traffic", "peer_cert", "peer_proved"}

Shape(e) == DOMAIN e = Fields /\ e = [x \in Fields |-> e[x]]

IsSeq(q) == q \in Seq(ToSet(q))

Content == {"ccs", "alert", "handshake"}

(* The handshake goes on, or is complete. *)
Alive(e) == e.st \in {"run", "completed"} /\ e.alert = None

(* The part of the state that keeps its type even when the endpoint fails. *)
Typed(e) ==
    /\ Shape(e)
    /\ e.mode \in Peer /\ e.cfg.cert \in {None, "good", "bad"}
    /\ e.st \in Status /\ (e.st = "completed" => Alive(e))
    /\ e.hs \subseteq Flag /\ e.n \in 0 .. TLS13_NUM_MESSAGE_TYPES - 1
    /\ e.ccs_seen \in 0 .. 2 /\ IsSeq(e.out)

Rows ==
    {{}, {"NEGOTIATED"}, {"NEGOTIATED", "WITHOUT_HRR"},
     {"NEGOTIATED", "WITHOUT_CR"}, {"NEGOTIATED", "WITHOUT_HRR", "WITHOUT_CR"},
     {"NEGOTIATED", "WITH_CCV"}, {"NEGOTIATED", "WITHOUT_HRR", "WITH_CCV"}}

Hellos == {"CLIENT_HELLO", "SERVER_HELLO_RETRY_REQUEST", "CLIENT_HELLO_RETRY", "SERVER_HELLO"}
AfterServerFinished ==
    {"CLIENT_CERTIFICATE", "CLIENT_CERTIFICATE_VERIFY", "CLIENT_FINISHED", "APPLICATION_DATA"}
AfterServerVerify == AfterServerFinished \cup {"SERVER_FINISHED"}
AfterServerCertificate == AfterServerVerify \cup {"SERVER_CERTIFICATE_VERIFY"}

(* The ServerHello is out, and the ChangeCipherSpec after it is not. *)
HelloSent(e) == Active(e) = "SERVER_HELLO" /\ e.send_dummy_ccs_after

(* Where the endpoint is in the table. *)
Placed(e) ==
    /\ e.hs \in Rows /\ Active(e) \in MessageType
    /\ e.st = "completed" => Active(e) = "APPLICATION_DATA"
    /\ Active(e) \in Hellos \ {"SERVER_HELLO"} => e.hs = {}
    /\ Active(e) = "SERVER_HELLO" /\ e.mode = "client" => e.hs = {}
    /\ Active(e) = "SERVER_HELLO" /\ ~HelloSent(e) => e.hs \in {{}, {"NEGOTIATED", "WITHOUT_HRR"}}
    /\ HelloSent(e) => e.hs # {}
    /\ "WITH_CCV" \in e.hs => Active(e) \in AfterServerFinished

SendsNext(e) == state_machine[Active(e)].sender = e.mode

(* The message m is the one the endpoint has to send. *)
Fits(e, m) ==
    /\ SendsNext(e) /\ "type" \in DOMAIN m /\ m.type = state_machine[Active(e)].type
    /\ m.type = "certificate" =>
          m = Certificate(IF e.cfg.cert = None THEN "empty" ELSE e.cfg.cert)
    /\ Active(e) = "SERVER_CERTIFICATE" => e.cfg.cert # None
    /\ m.type = "finished" => m = Finished(e, e.mode, e.handshake_hash)

(* What is built or sealed and not yet written. *)
Pending(e) ==
    /\ e.hs_msg # None => Fits(e, e.hs_msg)
    /\ e.wrec # None => /\ SendsNext(e) /\ e.wrec.ct \in {"ccs", "handshake"}
                        /\ e.wrec.ct = "handshake" => Fits(e, e.wrec.msg)
    /\ e.send_dummy_ccs_after =>
          /\ SendsNext(e) /\ e.send_dummy_ccs /\ e.hs_msg = None
          /\ e.wrec # None => e.wrec.ct = "ccs"
          /\ Active(e) \in {"SERVER_HELLO", "SERVER_HELLO_RETRY_REQUEST"}

(* The handshake keys are those of the shared secret and the cipher. *)
Keyed(e) == e.handshake_traffic = TrafficKeys(e, "handshake", e.handshake_traffic["server"].context)

Engaged(e) == Active(e) \notin Hellos \/ HelloSent(e) => Keyed(e)

(* What a client knows of its server. *)
ServerSeen(e, o) ==
    /\ Active(e) \in AfterServerCertificate =>
          /\ e.peer_cert = o.cfg.cert /\ e.peer_cert # None
          /\ e.cfg.verify # "none" => e.peer_cert = "good"
    /\ Active(e) \in AfterServerVerify => e.peer_proved

(* What a server knows of its client. *)
ClientSeen(e, o) ==
    /\ e.peer_cert # None =>
          /\ e.peer_cert = "good" /\ e.peer_cert = o.cfg.cert
          /\ "WITH_CCV" \in e.hs /\ e.cfg.verify # "none"
    /\ Active(e) \notin Hellos \/ HelloSent(e) => (e.cfg.verify = "none" <=> "WITHOUT_CR" \in e.hs)
    /\ Active(e) \in AfterServerFinished \ {"CLIENT_CERTIFICATE"} /\ e.cfg.verify = "require" =>
          e.peer_cert = "good"
    /\ Active(e) \in {"CLIENT_FINISHED", "APPLICATION_DATA"} /\ e.peer_cert # None => e.peer_proved

-----------------------------------------------------------------------------
(* The two Finished messages. *)

FinishedDigest == [type |-> "finished"]

(* The hash after a message. *)
Hashed(hash, digest) == IF hash = None THEN None ELSE Append(hash, digest)

(* The server has sent its Finished. *)
ServerDone(e) ==
    /\ Active(e) \in AfterServerFinished
    /\ e.write = e.application_traffic["server"]
    /\ \A p \in Peer : e.application_traffic[p].level = "application"

(* What a Finished message that e has sent says of e. *)
FinishedSent(e, m) ==
    /\ m = Finished(e, e.mode, m.mac.over)
    /\ e.mode = "server" =>
          /\ ServerDone(e)
          /\ e.application_traffic = TrafficKeys(e, "application", Hashed(m.mac.over, FinishedDigest))
    /\ e.mode = "client" =>
          /\ Active(e) = "APPLICATION_DATA"
          /\ e.handshake_hash = Hashed(m.mac.over, FinishedDigest)

(* A handshake message that e has sent. *)
Carries(e, m) ==
    /\ "type" \in DOMAIN m
    /\ m.type = "certificate" =>
          /\ m = Certificate(IF e.cfg.cert = None THEN "empty" ELSE e.cfg.cert)
          /\ e.mode = "server" => e.cfg.cert # None
    /\ m.type = "finished" /\ Alive(e) => FinishedSent(e, m)

(* A record e has handed to its BIO. *)
Sound(e, rec) == rec.ct \in Content /\ (rec.ct = "handshake" => Carries(e, rec.msg))

(* A client that has accepted the Finished of a server. *)
ServerAgreed(e, o) ==
    Active(e) \in AfterServerFinished =>
        /\ Alive(o) => /\ ServerDone(o)
                       /\ e.application_traffic = o.application_traffic /\ e.cipher = o.cipher
        /\ e.read = e.application_traffic["server"]
        /\ Active(e) = "APPLICATION_DATA" => e.write = e.application_traffic["client"]

(* A server that has sent its own, and accepted that of a client. *)
ClientAgreed(e, o) ==
    /\ Active(e) \in AfterServerFinished => ServerDone(e)
    /\ Active(e) = "APPLICATION_DATA" =>
        /\ Alive(o) => Active(o) = "APPLICATION_DATA" /\ e.handshake_hash = o.handshake_hash
        /\ e.read = e.application_traffic["client"]

Living(e, o) ==
    /\ Placed(e) /\ Pending(e) /\ Engaged(e)
    /\ e.mode = "client" => ServerSeen(e, o) /\ ServerAgreed(e, o)
    /\ e.mode = "server" => ClientSeen(e, o) /\ ClientAgreed(e, o)

EndpointInv(e, o) == Typed(e) /\ (Alive(e) => Living(e, o))

Records(e, q) == IsSeq(q) /\ \A i \in 1 .. Len(q) : Sound(e, q[i])

Inv ==
    /\ DOMAIN ep = Peer /\ DOMAIN wire = Peer
    /\ closed \subseteq Peer /\ damage \in 0 .. DamageBound
    /\ \A p \in Peer :
          /\ ep[p].mode = p /\ EndpointInv(ep[p], ep[Other(p)])
          /\ Records(ep[p], ep[p].out) /\ Records(ep[p], wire[Other(p)])
-----------------------------------------------------------------------------
(* The rows of the handshakes table, position by position. *)

Names ==
    {"CLIENT_HELLO", "CLIENT_HELLO_RETRY", "CLIENT_CERTIFICATE", "CLIENT_CERTIFICATE_VERIFY",
     "CLIENT_FINISHED", "SERVER_HELLO", "SERVER_HELLO_RETRY_REQUEST", "SERVER_ENCRYPTED_EXTENSIONS",
     "SERVER_CERTIFICATE", "SERVER_CERTIFICATE_REQUEST", "SERVER_CERTIFICATE_VERIFY",
     "SERVER_FINISHED", "APPLICATION_DATA"}

(* z is q followed by v. *)
Joins(z, q, v, a, b) ==
    /\ z \in Seq(Names) /\ Len(z) = a + b
    /\ \A i \in 1 .. a : z[i] = q[i]
    /\ \A i \in 1 .. b : z[a + i] = v[i]

(* A concatenation, its parts of known lengths. *)
LEMMA Joined ==
    ASSUME NEW s, NEW t, NEW a, NEW b, s \in Seq(Names), t \in Seq(Names), Len(s) = a, Len(t) = b
    PROVE  Joins(s \o t, s, t, a, b)
<1>1. Joins(s \o t, s, t, Len(s), Len(t))
  BY DEF Joins
<1> QED BY <1>1, Zenon

(* The parts of the rows. *)
LEMMA HelloWithRetryPart ==
    /\ HelloWithRetry \in Seq(Names) /\ Len(HelloWithRetry) = 4
    /\ HelloWithRetry[1] = "CLIENT_HELLO" /\ HelloWithRetry[2] = "SERVER_HELLO_RETRY_REQUEST"
    /\ HelloWithRetry[3] = "CLIENT_HELLO_RETRY" /\ HelloWithRetry[4] = "SERVER_HELLO"
  BY DEF Names, HelloWithRetry

(* The hellos of a handshake without a retry. *)
LEMMA HelloWithoutRetryPart ==
    /\ HelloWithoutRetry \in Seq(Names) /\ Len(HelloWithoutRetry) = 2
    /\ HelloWithoutRetry[1] = "CLIENT_HELLO" /\ HelloWithoutRetry[2] = "SERVER_HELLO"
  BY DEF Names, HelloWithoutRetry

(* The server's flight with a CertificateRequest, and the one without. *)
LEMMA ServerFlightWithRequestPart ==
    /\ ServerFlightWithRequest \in Seq(Names) /\ Len(ServerFlightWithRequest) = 5
    /\ ServerFlightWithRequest[1] = "SERVER_ENCRYPTED_EXTENSIONS"
    /\ ServerFlightWithRequest[2] = "SERVER_CERTIFICATE_REQUEST"
    /\ ServerFlightWithRequest[3] = "SERVER_CERTIFICATE"
    /\ ServerFlightWithRequest[4] = "SERVER_CERTIFICATE_VERIFY"
    /\ ServerFlightWithRequest[5] = "SERVER_FINISHED"
  BY DEF Names, ServerFlightWithRequest

LEMMA ServerFlightWithoutRequestPart ==
    /\ ServerFlightWithoutRequest \in Seq(Names) /\ Len(ServerFlightWithoutRequest) = 4
    /\ ServerFlightWithoutRequest[1] = "SERVER_ENCRYPTED_EXTENSIONS"
    /\ ServerFlightWithoutRequest[2] = "SERVER_CERTIFICATE"
    /\ ServerFlightWithoutRequest[3] = "SERVER_CERTIFICATE_VERIFY"
    /\ ServerFlightWithoutRequest[4] = "SERVER_FINISHED"
  BY DEF Names, ServerFlightWithoutRequest

(* The client's certificate, with and without its CertificateVerify. *)
LEMMA OnlyCertificatePart ==
    /\ <<"CLIENT_CERTIFICATE">> \in Seq(Names) /\ Len(<<"CLIENT_CERTIFICATE">>) = 1
    /\ <<"CLIENT_CERTIFICATE">>[1] = "CLIENT_CERTIFICATE"
  BY DEF Names

LEMMA CertificateAndVerifyPart ==
    /\ <<"CLIENT_CERTIFICATE", "CLIENT_CERTIFICATE_VERIFY">> \in Seq(Names)
    /\ Len(<<"CLIENT_CERTIFICATE", "CLIENT_CERTIFICATE_VERIFY">>) = 2
    /\ <<"CLIENT_CERTIFICATE", "CLIENT_CERTIFICATE_VERIFY">>[1] = "CLIENT_CERTIFICATE"
    /\ <<"CLIENT_CERTIFICATE", "CLIENT_CERTIFICATE_VERIFY">>[2] = "CLIENT_CERTIFICATE_VERIFY"
  BY DEF Names

(* The end of every row. *)
LEMMA FinishPart ==
    /\ Finish \in Seq(Names) /\ Len(Finish) = 2 /\ Finish[1] = "CLIENT_FINISHED"
    /\ Finish[2] = "APPLICATION_DATA"
  BY DEF Names, Finish

(* The sets of flags that name the rows differ. *)
LEMMA RowNames ==
    /\ {"NEGOTIATED"} # {"NEGOTIATED", "WITHOUT_CR"} /\ {"NEGOTIATED"} # {"NEGOTIATED", "WITH_PSK"}
    /\ {"NEGOTIATED"} # {"NEGOTIATED", "WITH_CCV"}
    /\ {"NEGOTIATED", "WITH_CCV"} # {"NEGOTIATED", "WITHOUT_CR"}
    /\ {"NEGOTIATED", "WITHOUT_CR"} # {"NEGOTIATED", "WITH_PSK"}
    /\ {"NEGOTIATED", "WITH_CCV"} # {"NEGOTIATED", "WITH_PSK"}
    /\ {} \ {"WITHOUT_HRR"} # {"NEGOTIATED"}
    /\ {} \ {"WITHOUT_HRR"} # {"NEGOTIATED", "WITHOUT_CR"}
    /\ {} \ {"WITHOUT_HRR"} # {"NEGOTIATED", "WITH_CCV"}
  OBVIOUS

At(hs, n, a) == tls13_handshake_active_state(hs, n) = a

(* The row a handshake starts in: what stands at each position. *)
LEMMA InitialRow ==
    /\ handshakes({}) \in Seq(Names) /\ At({}, 0, "CLIENT_HELLO")
    /\ At({}, 1, "SERVER_HELLO_RETRY_REQUEST") /\ At({}, 2, "CLIENT_HELLO_RETRY")
    /\ At({}, 3, "SERVER_HELLO") /\ \A n \in Nat : n >= 4 => At({}, n, "INVALID")
<1>1. handshakes({}) = HelloWithRetry
  BY RowNames, Zenon DEF handshakes
<1> QED BY <1>1, HelloWithRetryPart DEF At, tls13_handshake_active_state

(* The rows with a retry. *)
LEMMA RetryRequestRow ==
    /\ handshakes({"NEGOTIATED"}) \in Seq(Names) /\ At({"NEGOTIATED"}, 0, "CLIENT_HELLO")
    /\ At({"NEGOTIATED"}, 1, "SERVER_HELLO_RETRY_REQUEST")
    /\ At({"NEGOTIATED"}, 2, "CLIENT_HELLO_RETRY") /\ At({"NEGOTIATED"}, 3, "SERVER_HELLO")
    /\ At({"NEGOTIATED"}, 4, "SERVER_ENCRYPTED_EXTENSIONS")
    /\ At({"NEGOTIATED"}, 5, "SERVER_CERTIFICATE_REQUEST")
    /\ At({"NEGOTIATED"}, 6, "SERVER_CERTIFICATE")
    /\ At({"NEGOTIATED"}, 7, "SERVER_CERTIFICATE_VERIFY")
    /\ At({"NEGOTIATED"}, 8, "SERVER_FINISHED") /\ At({"NEGOTIATED"}, 9, "CLIENT_CERTIFICATE")
    /\ At({"NEGOTIATED"}, 10, "CLIENT_FINISHED") /\ At({"NEGOTIATED"}, 11, "APPLICATION_DATA")
    /\ \A n \in Nat : n >= 12 => At({"NEGOTIATED"}, n, "INVALID")
<1> DEFINE hs == {"NEGOTIATED"}
<1>1. hs \ {"WITHOUT_HRR"} = {"NEGOTIATED"} /\ "WITHOUT_HRR" \notin hs
  OBVIOUS
<1>2. handshakes(hs) = HelloWithRetry \o ServerFlightWithRequest \o <<"CLIENT_CERTIFICATE">> \o Finish
  <2> HIDE DEF hs
  <2> QED BY <1>1, RowNames, Zenon DEF handshakes
<1> HIDE DEF hs
<1>3. PICK z1 : z1 = HelloWithRetry \o ServerFlightWithRequest
  OBVIOUS
<1>4. Joins(z1, HelloWithRetry, ServerFlightWithRequest, 4, 5)
  BY <1>3, HelloWithRetryPart, ServerFlightWithRequestPart, Joined, Zenon
<1>5. /\ z1 \in Seq(Names) /\ Len(z1) = 9 /\ z1[1] = "CLIENT_HELLO"
      /\ z1[2] = "SERVER_HELLO_RETRY_REQUEST" /\ z1[3] = "CLIENT_HELLO_RETRY"
      /\ z1[4] = "SERVER_HELLO" /\ z1[5] = "SERVER_ENCRYPTED_EXTENSIONS"
      /\ z1[6] = "SERVER_CERTIFICATE_REQUEST" /\ z1[7] = "SERVER_CERTIFICATE"
      /\ z1[8] = "SERVER_CERTIFICATE_VERIFY" /\ z1[9] = "SERVER_FINISHED"
  BY <1>4, HelloWithRetryPart, ServerFlightWithRequestPart DEF Joins
<1>6. PICK z2 : z2 = z1 \o <<"CLIENT_CERTIFICATE">>
  OBVIOUS
<1>7. Joins(z2, z1, <<"CLIENT_CERTIFICATE">>, 9, 1)
  BY <1>6, <1>5, OnlyCertificatePart, Joined, Zenon
<1>8. /\ z2 \in Seq(Names) /\ Len(z2) = 10 /\ z2[1] = "CLIENT_HELLO"
      /\ z2[2] = "SERVER_HELLO_RETRY_REQUEST" /\ z2[3] = "CLIENT_HELLO_RETRY"
      /\ z2[4] = "SERVER_HELLO" /\ z2[5] = "SERVER_ENCRYPTED_EXTENSIONS"
      /\ z2[6] = "SERVER_CERTIFICATE_REQUEST" /\ z2[7] = "SERVER_CERTIFICATE"
      /\ z2[8] = "SERVER_CERTIFICATE_VERIFY" /\ z2[9] = "SERVER_FINISHED"
      /\ z2[10] = "CLIENT_CERTIFICATE"
  BY <1>7, <1>5, OnlyCertificatePart DEF Joins
<1>9. PICK z3 : z3 = z2 \o Finish
  OBVIOUS
<1>10. Joins(z3, z2, Finish, 10, 2)
  BY <1>9, <1>8, FinishPart, Joined, Zenon
<1>11. /\ z3 \in Seq(Names) /\ Len(z3) = 12 /\ z3[1] = "CLIENT_HELLO"
       /\ z3[2] = "SERVER_HELLO_RETRY_REQUEST" /\ z3[3] = "CLIENT_HELLO_RETRY"
       /\ z3[4] = "SERVER_HELLO" /\ z3[5] = "SERVER_ENCRYPTED_EXTENSIONS"
       /\ z3[6] = "SERVER_CERTIFICATE_REQUEST" /\ z3[7] = "SERVER_CERTIFICATE"
       /\ z3[8] = "SERVER_CERTIFICATE_VERIFY" /\ z3[9] = "SERVER_FINISHED"
       /\ z3[10] = "CLIENT_CERTIFICATE" /\ z3[11] = "CLIENT_FINISHED"
       /\ z3[12] = "APPLICATION_DATA"
  BY <1>10, <1>8, FinishPart DEF Joins
<1>12. handshakes(hs) = z3
  BY <1>2, <1>3, <1>6, <1>9
<1>13. /\ handshakes(hs) \in Seq(Names) /\ At(hs, 0, "CLIENT_HELLO")
       /\ At(hs, 1, "SERVER_HELLO_RETRY_REQUEST") /\ At(hs, 2, "CLIENT_HELLO_RETRY")
       /\ At(hs, 3, "SERVER_HELLO") /\ At(hs, 4, "SERVER_ENCRYPTED_EXTENSIONS")
       /\ At(hs, 5, "SERVER_CERTIFICATE_REQUEST") /\ At(hs, 6, "SERVER_CERTIFICATE")
       /\ At(hs, 7, "SERVER_CERTIFICATE_VERIFY") /\ At(hs, 8, "SERVER_FINISHED")
       /\ At(hs, 9, "CLIENT_CERTIFICATE") /\ At(hs, 10, "CLIENT_FINISHED")
       /\ At(hs, 11, "APPLICATION_DATA") /\ \A n \in Nat : n >= 12 => At(hs, n, "INVALID")
  BY <1>12, <1>11 DEF At, tls13_handshake_active_state
<1> QED BY <1>13 DEF hs

LEMMA RetryNoRequestRow ==
    /\ handshakes({"NEGOTIATED", "WITHOUT_CR"}) \in Seq(Names)
    /\ At({"NEGOTIATED", "WITHOUT_CR"}, 0, "CLIENT_HELLO")
    /\ At({"NEGOTIATED", "WITHOUT_CR"}, 1, "SERVER_HELLO_RETRY_REQUEST")
    /\ At({"NEGOTIATED", "WITHOUT_CR"}, 2, "CLIENT_HELLO_RETRY")
    /\ At({"NEGOTIATED", "WITHOUT_CR"}, 3, "SERVER_HELLO")
    /\ At({"NEGOTIATED", "WITHOUT_CR"}, 4, "SERVER_ENCRYPTED_EXTENSIONS")
    /\ At({"NEGOTIATED", "WITHOUT_CR"}, 5, "SERVER_CERTIFICATE")
    /\ At({"NEGOTIATED", "WITHOUT_CR"}, 6, "SERVER_CERTIFICATE_VERIFY")
    /\ At({"NEGOTIATED", "WITHOUT_CR"}, 7, "SERVER_FINISHED")
    /\ At({"NEGOTIATED", "WITHOUT_CR"}, 8, "CLIENT_FINISHED")
    /\ At({"NEGOTIATED", "WITHOUT_CR"}, 9, "APPLICATION_DATA")
    /\ \A n \in Nat : n >= 10 => At({"NEGOTIATED", "WITHOUT_CR"}, n, "INVALID")
<1> DEFINE hs == {"NEGOTIATED", "WITHOUT_CR"}
<1>1. hs \ {"WITHOUT_HRR"} = {"NEGOTIATED", "WITHOUT_CR"} /\ "WITHOUT_HRR" \notin hs
  OBVIOUS
<1>2. handshakes(hs) = HelloWithRetry \o ServerFlightWithoutRequest \o Finish
  <2> HIDE DEF hs
  <2> QED BY <1>1, RowNames, Zenon DEF handshakes
<1> HIDE DEF hs
<1>3. PICK z1 : z1 = HelloWithRetry \o ServerFlightWithoutRequest
  OBVIOUS
<1>4. Joins(z1, HelloWithRetry, ServerFlightWithoutRequest, 4, 4)
  BY <1>3, HelloWithRetryPart, ServerFlightWithoutRequestPart, Joined, Zenon
<1>5. /\ z1 \in Seq(Names) /\ Len(z1) = 8 /\ z1[1] = "CLIENT_HELLO"
      /\ z1[2] = "SERVER_HELLO_RETRY_REQUEST" /\ z1[3] = "CLIENT_HELLO_RETRY"
      /\ z1[4] = "SERVER_HELLO" /\ z1[5] = "SERVER_ENCRYPTED_EXTENSIONS"
      /\ z1[6] = "SERVER_CERTIFICATE" /\ z1[7] = "SERVER_CERTIFICATE_VERIFY"
      /\ z1[8] = "SERVER_FINISHED"
  BY <1>4, HelloWithRetryPart, ServerFlightWithoutRequestPart DEF Joins
<1>6. PICK z2 : z2 = z1 \o Finish
  OBVIOUS
<1>7. Joins(z2, z1, Finish, 8, 2)
  BY <1>6, <1>5, FinishPart, Joined, Zenon
<1>8. /\ z2 \in Seq(Names) /\ Len(z2) = 10 /\ z2[1] = "CLIENT_HELLO"
      /\ z2[2] = "SERVER_HELLO_RETRY_REQUEST" /\ z2[3] = "CLIENT_HELLO_RETRY"
      /\ z2[4] = "SERVER_HELLO" /\ z2[5] = "SERVER_ENCRYPTED_EXTENSIONS"
      /\ z2[6] = "SERVER_CERTIFICATE" /\ z2[7] = "SERVER_CERTIFICATE_VERIFY"
      /\ z2[8] = "SERVER_FINISHED" /\ z2[9] = "CLIENT_FINISHED" /\ z2[10] = "APPLICATION_DATA"
  BY <1>7, <1>5, FinishPart DEF Joins
<1>9. handshakes(hs) = z2
  BY <1>2, <1>3, <1>6
<1>10. /\ handshakes(hs) \in Seq(Names) /\ At(hs, 0, "CLIENT_HELLO")
       /\ At(hs, 1, "SERVER_HELLO_RETRY_REQUEST") /\ At(hs, 2, "CLIENT_HELLO_RETRY")
       /\ At(hs, 3, "SERVER_HELLO") /\ At(hs, 4, "SERVER_ENCRYPTED_EXTENSIONS")
       /\ At(hs, 5, "SERVER_CERTIFICATE") /\ At(hs, 6, "SERVER_CERTIFICATE_VERIFY")
       /\ At(hs, 7, "SERVER_FINISHED") /\ At(hs, 8, "CLIENT_FINISHED")
       /\ At(hs, 9, "APPLICATION_DATA") /\ \A n \in Nat : n >= 10 => At(hs, n, "INVALID")
  BY <1>9, <1>8 DEF At, tls13_handshake_active_state
<1> QED BY <1>10 DEF hs

LEMMA RetryVerifyRow ==
    /\ handshakes({"NEGOTIATED", "WITH_CCV"}) \in Seq(Names)
    /\ At({"NEGOTIATED", "WITH_CCV"}, 0, "CLIENT_HELLO")
    /\ At({"NEGOTIATED", "WITH_CCV"}, 1, "SERVER_HELLO_RETRY_REQUEST")
    /\ At({"NEGOTIATED", "WITH_CCV"}, 2, "CLIENT_HELLO_RETRY")
    /\ At({"NEGOTIATED", "WITH_CCV"}, 3, "SERVER_HELLO")
    /\ At({"NEGOTIATED", "WITH_CCV"}, 4, "SERVER_ENCRYPTED_EXTENSIONS")
    /\ At({"NEGOTIATED", "WITH_CCV"}, 5, "SERVER_CERTIFICATE_REQUEST")
    /\ At({"NEGOTIATED", "WITH_CCV"}, 6, "SERVER_CERTIFICATE")
    /\ At({"NEGOTIATED", "WITH_CCV"}, 7, "SERVER_CERTIFICATE_VERIFY")
    /\ At({"NEGOTIATED", "WITH_CCV"}, 8, "SERVER_FINISHED")
    /\ At({"NEGOTIATED", "WITH_CCV"}, 9, "CLIENT_CERTIFICATE")
    /\ At({"NEGOTIATED", "WITH_CCV"}, 10, "CLIENT_CERTIFICATE_VERIFY")
    /\ At({"NEGOTIATED", "WITH_CCV"}, 11, "CLIENT_FINISHED")
    /\ At({"NEGOTIATED", "WITH_CCV"}, 12, "APPLICATION_DATA")
    /\ \A n \in Nat : n >= 13 => At({"NEGOTIATED", "WITH_CCV"}, n, "INVALID")
<1> DEFINE hs == {"NEGOTIATED", "WITH_CCV"}
<1>1. hs \ {"WITHOUT_HRR"} = {"NEGOTIATED", "WITH_CCV"} /\ "WITHOUT_HRR" \notin hs
  OBVIOUS
<1>2. handshakes(hs) = HelloWithRetry \o ServerFlightWithRequest \o <<"CLIENT_CERTIFICATE", "CLIENT_CERTIFICATE_VERIFY">> \o Finish
  <2> HIDE DEF hs
  <2> QED BY <1>1, RowNames, Zenon DEF handshakes
<1> HIDE DEF hs
<1>3. PICK z1 : z1 = HelloWithRetry \o ServerFlightWithRequest
  OBVIOUS
<1>4. Joins(z1, HelloWithRetry, ServerFlightWithRequest, 4, 5)
  BY <1>3, HelloWithRetryPart, ServerFlightWithRequestPart, Joined, Zenon
<1>5. /\ z1 \in Seq(Names) /\ Len(z1) = 9 /\ z1[1] = "CLIENT_HELLO"
      /\ z1[2] = "SERVER_HELLO_RETRY_REQUEST" /\ z1[3] = "CLIENT_HELLO_RETRY"
      /\ z1[4] = "SERVER_HELLO" /\ z1[5] = "SERVER_ENCRYPTED_EXTENSIONS"
      /\ z1[6] = "SERVER_CERTIFICATE_REQUEST" /\ z1[7] = "SERVER_CERTIFICATE"
      /\ z1[8] = "SERVER_CERTIFICATE_VERIFY" /\ z1[9] = "SERVER_FINISHED"
  BY <1>4, HelloWithRetryPart, ServerFlightWithRequestPart DEF Joins
<1>6. PICK z2 : z2 = z1 \o <<"CLIENT_CERTIFICATE", "CLIENT_CERTIFICATE_VERIFY">>
  OBVIOUS
<1>7. Joins(z2, z1, <<"CLIENT_CERTIFICATE", "CLIENT_CERTIFICATE_VERIFY">>, 9, 2)
  BY <1>6, <1>5, CertificateAndVerifyPart, Joined, Zenon
<1>8. /\ z2 \in Seq(Names) /\ Len(z2) = 11 /\ z2[1] = "CLIENT_HELLO"
      /\ z2[2] = "SERVER_HELLO_RETRY_REQUEST" /\ z2[3] = "CLIENT_HELLO_RETRY"
      /\ z2[4] = "SERVER_HELLO" /\ z2[5] = "SERVER_ENCRYPTED_EXTENSIONS"
      /\ z2[6] = "SERVER_CERTIFICATE_REQUEST" /\ z2[7] = "SERVER_CERTIFICATE"
      /\ z2[8] = "SERVER_CERTIFICATE_VERIFY" /\ z2[9] = "SERVER_FINISHED"
      /\ z2[10] = "CLIENT_CERTIFICATE" /\ z2[11] = "CLIENT_CERTIFICATE_VERIFY"
  BY <1>7, <1>5, CertificateAndVerifyPart DEF Joins
<1>9. PICK z3 : z3 = z2 \o Finish
  OBVIOUS
<1>10. Joins(z3, z2, Finish, 11, 2)
  BY <1>9, <1>8, FinishPart, Joined, Zenon
<1>11. /\ z3 \in Seq(Names) /\ Len(z3) = 13 /\ z3[1] = "CLIENT_HELLO"
       /\ z3[2] = "SERVER_HELLO_RETRY_REQUEST" /\ z3[3] = "CLIENT_HELLO_RETRY"
       /\ z3[4] = "SERVER_HELLO" /\ z3[5] = "SERVER_ENCRYPTED_EXTENSIONS"
       /\ z3[6] = "SERVER_CERTIFICATE_REQUEST" /\ z3[7] = "SERVER_CERTIFICATE"
       /\ z3[8] = "SERVER_CERTIFICATE_VERIFY" /\ z3[9] = "SERVER_FINISHED"
       /\ z3[10] = "CLIENT_CERTIFICATE" /\ z3[11] = "CLIENT_CERTIFICATE_VERIFY"
       /\ z3[12] = "CLIENT_FINISHED" /\ z3[13] = "APPLICATION_DATA"
  BY <1>10, <1>8, FinishPart DEF Joins
<1>12. handshakes(hs) = z3
  BY <1>2, <1>3, <1>6, <1>9
<1>13. /\ handshakes(hs) \in Seq(Names) /\ At(hs, 0, "CLIENT_HELLO")
       /\ At(hs, 1, "SERVER_HELLO_RETRY_REQUEST") /\ At(hs, 2, "CLIENT_HELLO_RETRY")
       /\ At(hs, 3, "SERVER_HELLO") /\ At(hs, 4, "SERVER_ENCRYPTED_EXTENSIONS")
       /\ At(hs, 5, "SERVER_CERTIFICATE_REQUEST") /\ At(hs, 6, "SERVER_CERTIFICATE")
       /\ At(hs, 7, "SERVER_CERTIFICATE_VERIFY") /\ At(hs, 8, "SERVER_FINISHED")
       /\ At(hs, 9, "CLIENT_CERTIFICATE") /\ At(hs, 10, "CLIENT_CERTIFICATE_VERIFY")
       /\ At(hs, 11, "CLIENT_FINISHED") /\ At(hs, 12, "APPLICATION_DATA")
       /\ \A n \in Nat : n >= 13 => At(hs, n, "INVALID")
  BY <1>12, <1>11 DEF At, tls13_handshake_active_state
<1> QED BY <1>13 DEF hs

(* The rows without a retry. *)
LEMMA DirectRequestRow ==
    /\ handshakes({"NEGOTIATED", "WITHOUT_HRR"}) \in Seq(Names)
    /\ At({"NEGOTIATED", "WITHOUT_HRR"}, 0, "CLIENT_HELLO")
    /\ At({"NEGOTIATED", "WITHOUT_HRR"}, 1, "SERVER_HELLO")
    /\ At({"NEGOTIATED", "WITHOUT_HRR"}, 2, "SERVER_ENCRYPTED_EXTENSIONS")
    /\ At({"NEGOTIATED", "WITHOUT_HRR"}, 3, "SERVER_CERTIFICATE_REQUEST")
    /\ At({"NEGOTIATED", "WITHOUT_HRR"}, 4, "SERVER_CERTIFICATE")
    /\ At({"NEGOTIATED", "WITHOUT_HRR"}, 5, "SERVER_CERTIFICATE_VERIFY")
    /\ At({"NEGOTIATED", "WITHOUT_HRR"}, 6, "SERVER_FINISHED")
    /\ At({"NEGOTIATED", "WITHOUT_HRR"}, 7, "CLIENT_CERTIFICATE")
    /\ At({"NEGOTIATED", "WITHOUT_HRR"}, 8, "CLIENT_FINISHED")
    /\ At({"NEGOTIATED", "WITHOUT_HRR"}, 9, "APPLICATION_DATA")
    /\ \A n \in Nat : n >= 10 => At({"NEGOTIATED", "WITHOUT_HRR"}, n, "INVALID")
<1> DEFINE hs == {"NEGOTIATED", "WITHOUT_HRR"}
<1>1. hs \ {"WITHOUT_HRR"} = {"NEGOTIATED"} /\ "WITHOUT_HRR" \in hs
  OBVIOUS
<1>2. handshakes(hs) = HelloWithoutRetry \o ServerFlightWithRequest \o <<"CLIENT_CERTIFICATE">> \o Finish
  <2> HIDE DEF hs
  <2> QED BY <1>1, RowNames, Zenon DEF handshakes
<1> HIDE DEF hs
<1>3. PICK z1 : z1 = HelloWithoutRetry \o ServerFlightWithRequest
  OBVIOUS
<1>4. Joins(z1, HelloWithoutRetry, ServerFlightWithRequest, 2, 5)
  BY <1>3, HelloWithoutRetryPart, ServerFlightWithRequestPart, Joined, Zenon
<1>5. /\ z1 \in Seq(Names) /\ Len(z1) = 7 /\ z1[1] = "CLIENT_HELLO" /\ z1[2] = "SERVER_HELLO"
      /\ z1[3] = "SERVER_ENCRYPTED_EXTENSIONS" /\ z1[4] = "SERVER_CERTIFICATE_REQUEST"
      /\ z1[5] = "SERVER_CERTIFICATE" /\ z1[6] = "SERVER_CERTIFICATE_VERIFY"
      /\ z1[7] = "SERVER_FINISHED"
  BY <1>4, HelloWithoutRetryPart, ServerFlightWithRequestPart DEF Joins
<1>6. PICK z2 : z2 = z1 \o <<"CLIENT_CERTIFICATE">>
  OBVIOUS
<1>7. Joins(z2, z1, <<"CLIENT_CERTIFICATE">>, 7, 1)
  BY <1>6, <1>5, OnlyCertificatePart, Joined, Zenon
<1>8. /\ z2 \in Seq(Names) /\ Len(z2) = 8 /\ z2[1] = "CLIENT_HELLO" /\ z2[2] = "SERVER_HELLO"
      /\ z2[3] = "SERVER_ENCRYPTED_EXTENSIONS" /\ z2[4] = "SERVER_CERTIFICATE_REQUEST"
      /\ z2[5] = "SERVER_CERTIFICATE" /\ z2[6] = "SERVER_CERTIFICATE_VERIFY"
      /\ z2[7] = "SERVER_FINISHED" /\ z2[8] = "CLIENT_CERTIFICATE"
  BY <1>7, <1>5, OnlyCertificatePart DEF Joins
<1>9. PICK z3 : z3 = z2 \o Finish
  OBVIOUS
<1>10. Joins(z3, z2, Finish, 8, 2)
  BY <1>9, <1>8, FinishPart, Joined, Zenon
<1>11. /\ z3 \in Seq(Names) /\ Len(z3) = 10 /\ z3[1] = "CLIENT_HELLO" /\ z3[2] = "SERVER_HELLO"
       /\ z3[3] = "SERVER_ENCRYPTED_EXTENSIONS" /\ z3[4] = "SERVER_CERTIFICATE_REQUEST"
       /\ z3[5] = "SERVER_CERTIFICATE" /\ z3[6] = "SERVER_CERTIFICATE_VERIFY"
       /\ z3[7] = "SERVER_FINISHED" /\ z3[8] = "CLIENT_CERTIFICATE" /\ z3[9] = "CLIENT_FINISHED"
       /\ z3[10] = "APPLICATION_DATA"
  BY <1>10, <1>8, FinishPart DEF Joins
<1>12. handshakes(hs) = z3
  BY <1>2, <1>3, <1>6, <1>9
<1>13. /\ handshakes(hs) \in Seq(Names) /\ At(hs, 0, "CLIENT_HELLO") /\ At(hs, 1, "SERVER_HELLO")
       /\ At(hs, 2, "SERVER_ENCRYPTED_EXTENSIONS") /\ At(hs, 3, "SERVER_CERTIFICATE_REQUEST")
       /\ At(hs, 4, "SERVER_CERTIFICATE") /\ At(hs, 5, "SERVER_CERTIFICATE_VERIFY")
       /\ At(hs, 6, "SERVER_FINISHED") /\ At(hs, 7, "CLIENT_CERTIFICATE")
       /\ At(hs, 8, "CLIENT_FINISHED") /\ At(hs, 9, "APPLICATION_DATA")
       /\ \A n \in Nat : n >= 10 => At(hs, n, "INVALID")
  BY <1>12, <1>11 DEF At, tls13_handshake_active_state
<1> QED BY <1>13 DEF hs

LEMMA DirectNoRequestRow ==
    /\ handshakes({"NEGOTIATED", "WITHOUT_HRR", "WITHOUT_CR"}) \in Seq(Names)
    /\ At({"NEGOTIATED", "WITHOUT_HRR", "WITHOUT_CR"}, 0, "CLIENT_HELLO")
    /\ At({"NEGOTIATED", "WITHOUT_HRR", "WITHOUT_CR"}, 1, "SERVER_HELLO")
    /\ At({"NEGOTIATED", "WITHOUT_HRR", "WITHOUT_CR"}, 2, "SERVER_ENCRYPTED_EXTENSIONS")
    /\ At({"NEGOTIATED", "WITHOUT_HRR", "WITHOUT_CR"}, 3, "SERVER_CERTIFICATE")
    /\ At({"NEGOTIATED", "WITHOUT_HRR", "WITHOUT_CR"}, 4, "SERVER_CERTIFICATE_VERIFY")
    /\ At({"NEGOTIATED", "WITHOUT_HRR", "WITHOUT_CR"}, 5, "SERVER_FINISHED")
    /\ At({"NEGOTIATED", "WITHOUT_HRR", "WITHOUT_CR"}, 6, "CLIENT_FINISHED")
    /\ At({"NEGOTIATED", "WITHOUT_HRR", "WITHOUT_CR"}, 7, "APPLICATION_DATA")
    /\ \A n \in Nat : n >= 8 => At({"NEGOTIATED", "WITHOUT_HRR", "WITHOUT_CR"}, n, "INVALID")
<1> DEFINE hs == {"NEGOTIATED", "WITHOUT_HRR", "WITHOUT_CR"}
<1>1. hs \ {"WITHOUT_HRR"} = {"NEGOTIATED", "WITHOUT_CR"} /\ "WITHOUT_HRR" \in hs
  OBVIOUS
<1>2. handshakes(hs) = HelloWithoutRetry \o ServerFlightWithoutRequest \o Finish
  <2> HIDE DEF hs
  <2> QED BY <1>1, RowNames, Zenon DEF handshakes
<1> HIDE DEF hs
<1>3. PICK z1 : z1 = HelloWithoutRetry \o ServerFlightWithoutRequest
  OBVIOUS
<1>4. Joins(z1, HelloWithoutRetry, ServerFlightWithoutRequest, 2, 4)
  BY <1>3, HelloWithoutRetryPart, ServerFlightWithoutRequestPart, Joined, Zenon
<1>5. /\ z1 \in Seq(Names) /\ Len(z1) = 6 /\ z1[1] = "CLIENT_HELLO" /\ z1[2] = "SERVER_HELLO"
      /\ z1[3] = "SERVER_ENCRYPTED_EXTENSIONS" /\ z1[4] = "SERVER_CERTIFICATE"
      /\ z1[5] = "SERVER_CERTIFICATE_VERIFY" /\ z1[6] = "SERVER_FINISHED"
  BY <1>4, HelloWithoutRetryPart, ServerFlightWithoutRequestPart DEF Joins
<1>6. PICK z2 : z2 = z1 \o Finish
  OBVIOUS
<1>7. Joins(z2, z1, Finish, 6, 2)
  BY <1>6, <1>5, FinishPart, Joined, Zenon
<1>8. /\ z2 \in Seq(Names) /\ Len(z2) = 8 /\ z2[1] = "CLIENT_HELLO" /\ z2[2] = "SERVER_HELLO"
      /\ z2[3] = "SERVER_ENCRYPTED_EXTENSIONS" /\ z2[4] = "SERVER_CERTIFICATE"
      /\ z2[5] = "SERVER_CERTIFICATE_VERIFY" /\ z2[6] = "SERVER_FINISHED"
      /\ z2[7] = "CLIENT_FINISHED" /\ z2[8] = "APPLICATION_DATA"
  BY <1>7, <1>5, FinishPart DEF Joins
<1>9. handshakes(hs) = z2
  BY <1>2, <1>3, <1>6
<1>10. /\ handshakes(hs) \in Seq(Names) /\ At(hs, 0, "CLIENT_HELLO") /\ At(hs, 1, "SERVER_HELLO")
       /\ At(hs, 2, "SERVER_ENCRYPTED_EXTENSIONS") /\ At(hs, 3, "SERVER_CERTIFICATE")
       /\ At(hs, 4, "SERVER_CERTIFICATE_VERIFY") /\ At(hs, 5, "SERVER_FINISHED")
       /\ At(hs, 6, "CLIENT_FINISHED") /\ At(hs, 7, "APPLICATION_DATA")
       /\ \A n \in Nat : n >= 8 => At(hs, n, "INVALID")
  BY <1>9, <1>8 DEF At, tls13_handshake_active_state
<1> QED BY <1>10 DEF hs

LEMMA DirectVerifyRow ==
    /\ handshakes({"NEGOTIATED", "WITHOUT_HRR", "WITH_CCV"}) \in Seq(Names)
    /\ At({"NEGOTIATED", "WITHOUT_HRR", "WITH_CCV"}, 0, "CLIENT_HELLO")
    /\ At({"NEGOTIATED", "WITHOUT_HRR", "WITH_CCV"}, 1, "SERVER_HELLO")
    /\ At({"NEGOTIATED", "WITHOUT_HRR", "WITH_CCV"}, 2, "SERVER_ENCRYPTED_EXTENSIONS")
    /\ At({"NEGOTIATED", "WITHOUT_HRR", "WITH_CCV"}, 3, "SERVER_CERTIFICATE_REQUEST")
    /\ At({"NEGOTIATED", "WITHOUT_HRR", "WITH_CCV"}, 4, "SERVER_CERTIFICATE")
    /\ At({"NEGOTIATED", "WITHOUT_HRR", "WITH_CCV"}, 5, "SERVER_CERTIFICATE_VERIFY")
    /\ At({"NEGOTIATED", "WITHOUT_HRR", "WITH_CCV"}, 6, "SERVER_FINISHED")
    /\ At({"NEGOTIATED", "WITHOUT_HRR", "WITH_CCV"}, 7, "CLIENT_CERTIFICATE")
    /\ At({"NEGOTIATED", "WITHOUT_HRR", "WITH_CCV"}, 8, "CLIENT_CERTIFICATE_VERIFY")
    /\ At({"NEGOTIATED", "WITHOUT_HRR", "WITH_CCV"}, 9, "CLIENT_FINISHED")
    /\ At({"NEGOTIATED", "WITHOUT_HRR", "WITH_CCV"}, 10, "APPLICATION_DATA")
    /\ \A n \in Nat : n >= 11 => At({"NEGOTIATED", "WITHOUT_HRR", "WITH_CCV"}, n, "INVALID")
<1> DEFINE hs == {"NEGOTIATED", "WITHOUT_HRR", "WITH_CCV"}
<1>1. hs \ {"WITHOUT_HRR"} = {"NEGOTIATED", "WITH_CCV"} /\ "WITHOUT_HRR" \in hs
  OBVIOUS
<1>2. handshakes(hs) = HelloWithoutRetry \o ServerFlightWithRequest \o <<"CLIENT_CERTIFICATE", "CLIENT_CERTIFICATE_VERIFY">> \o Finish
  <2> HIDE DEF hs
  <2> QED BY <1>1, RowNames, Zenon DEF handshakes
<1> HIDE DEF hs
<1>3. PICK z1 : z1 = HelloWithoutRetry \o ServerFlightWithRequest
  OBVIOUS
<1>4. Joins(z1, HelloWithoutRetry, ServerFlightWithRequest, 2, 5)
  BY <1>3, HelloWithoutRetryPart, ServerFlightWithRequestPart, Joined, Zenon
<1>5. /\ z1 \in Seq(Names) /\ Len(z1) = 7 /\ z1[1] = "CLIENT_HELLO" /\ z1[2] = "SERVER_HELLO"
      /\ z1[3] = "SERVER_ENCRYPTED_EXTENSIONS" /\ z1[4] = "SERVER_CERTIFICATE_REQUEST"
      /\ z1[5] = "SERVER_CERTIFICATE" /\ z1[6] = "SERVER_CERTIFICATE_VERIFY"
      /\ z1[7] = "SERVER_FINISHED"
  BY <1>4, HelloWithoutRetryPart, ServerFlightWithRequestPart DEF Joins
<1>6. PICK z2 : z2 = z1 \o <<"CLIENT_CERTIFICATE", "CLIENT_CERTIFICATE_VERIFY">>
  OBVIOUS
<1>7. Joins(z2, z1, <<"CLIENT_CERTIFICATE", "CLIENT_CERTIFICATE_VERIFY">>, 7, 2)
  BY <1>6, <1>5, CertificateAndVerifyPart, Joined, Zenon
<1>8. /\ z2 \in Seq(Names) /\ Len(z2) = 9 /\ z2[1] = "CLIENT_HELLO" /\ z2[2] = "SERVER_HELLO"
      /\ z2[3] = "SERVER_ENCRYPTED_EXTENSIONS" /\ z2[4] = "SERVER_CERTIFICATE_REQUEST"
      /\ z2[5] = "SERVER_CERTIFICATE" /\ z2[6] = "SERVER_CERTIFICATE_VERIFY"
      /\ z2[7] = "SERVER_FINISHED" /\ z2[8] = "CLIENT_CERTIFICATE"
      /\ z2[9] = "CLIENT_CERTIFICATE_VERIFY"
  BY <1>7, <1>5, CertificateAndVerifyPart DEF Joins
<1>9. PICK z3 : z3 = z2 \o Finish
  OBVIOUS
<1>10. Joins(z3, z2, Finish, 9, 2)
  BY <1>9, <1>8, FinishPart, Joined, Zenon
<1>11. /\ z3 \in Seq(Names) /\ Len(z3) = 11 /\ z3[1] = "CLIENT_HELLO" /\ z3[2] = "SERVER_HELLO"
       /\ z3[3] = "SERVER_ENCRYPTED_EXTENSIONS" /\ z3[4] = "SERVER_CERTIFICATE_REQUEST"
       /\ z3[5] = "SERVER_CERTIFICATE" /\ z3[6] = "SERVER_CERTIFICATE_VERIFY"
       /\ z3[7] = "SERVER_FINISHED" /\ z3[8] = "CLIENT_CERTIFICATE"
       /\ z3[9] = "CLIENT_CERTIFICATE_VERIFY" /\ z3[10] = "CLIENT_FINISHED"
       /\ z3[11] = "APPLICATION_DATA"
  BY <1>10, <1>8, FinishPart DEF Joins
<1>12. handshakes(hs) = z3
  BY <1>2, <1>3, <1>6, <1>9
<1>13. /\ handshakes(hs) \in Seq(Names) /\ At(hs, 0, "CLIENT_HELLO") /\ At(hs, 1, "SERVER_HELLO")
       /\ At(hs, 2, "SERVER_ENCRYPTED_EXTENSIONS") /\ At(hs, 3, "SERVER_CERTIFICATE_REQUEST")
       /\ At(hs, 4, "SERVER_CERTIFICATE") /\ At(hs, 5, "SERVER_CERTIFICATE_VERIFY")
       /\ At(hs, 6, "SERVER_FINISHED") /\ At(hs, 7, "CLIENT_CERTIFICATE")
       /\ At(hs, 8, "CLIENT_CERTIFICATE_VERIFY") /\ At(hs, 9, "CLIENT_FINISHED")
       /\ At(hs, 10, "APPLICATION_DATA") /\ \A n \in Nat : n >= 11 => At(hs, n, "INVALID")
  BY <1>12, <1>11 DEF At, tls13_handshake_active_state
<1> QED BY <1>13 DEF hs

(* What follows what. *)
Follow(hs, a, b) ==
    /\ hs = {} => a \in Hellos \cup {"INVALID"}
    /\ a = "CLIENT_HELLO" =>
          b = IF "WITHOUT_HRR" \in hs THEN "SERVER_HELLO" ELSE "SERVER_HELLO_RETRY_REQUEST"
    /\ a = "SERVER_HELLO_RETRY_REQUEST" => b = "CLIENT_HELLO_RETRY"
    /\ a = "CLIENT_HELLO_RETRY" => b = "SERVER_HELLO"
    /\ a = "SERVER_HELLO" /\ hs # {} => b = "SERVER_ENCRYPTED_EXTENSIONS"
    /\ a = "SERVER_ENCRYPTED_EXTENSIONS" =>
          b = IF "WITHOUT_CR" \in hs THEN "SERVER_CERTIFICATE" ELSE "SERVER_CERTIFICATE_REQUEST"
    /\ a = "SERVER_CERTIFICATE_REQUEST" => b = "SERVER_CERTIFICATE" /\ "WITHOUT_CR" \notin hs
    /\ a = "SERVER_CERTIFICATE" => b = "SERVER_CERTIFICATE_VERIFY"
    /\ a = "SERVER_CERTIFICATE_VERIFY" => b = "SERVER_FINISHED"
    /\ a = "SERVER_FINISHED" =>
          b = IF "WITHOUT_CR" \in hs THEN "CLIENT_FINISHED" ELSE "CLIENT_CERTIFICATE"
    /\ a = "CLIENT_CERTIFICATE" =>
          /\ b = IF "WITH_CCV" \in hs THEN "CLIENT_CERTIFICATE_VERIFY" ELSE "CLIENT_FINISHED"
          /\ "WITHOUT_CR" \notin hs
    /\ a = "CLIENT_CERTIFICATE_VERIFY" => b = "CLIENT_FINISHED" /\ "WITH_CCV" \in hs
    /\ a = "CLIENT_FINISHED" => b = "APPLICATION_DATA"

(* Every row says what comes next, and it has no other entries. *)
LEMMA Follows ==
    ASSUME NEW hs \in Rows, NEW n \in Nat
    PROVE  /\ tls13_handshake_active_state(hs, n) \in Names \cup {"INVALID"}
           /\ Follow(hs, tls13_handshake_active_state(hs, n), tls13_handshake_active_state(hs, n + 1))
           /\ handshakes(hs) \in Seq(Names)
<1>1. CASE hs = {}
  BY <1>1, InitialRow DEF At, Follow, Names, Hellos
<1>2. CASE hs = {"NEGOTIATED"}
  BY <1>2, RetryRequestRow DEF At, Follow, Names
<1>3. CASE hs = {"NEGOTIATED", "WITHOUT_HRR"}
  BY <1>3, DirectRequestRow DEF At, Follow, Names
<1>4. CASE hs = {"NEGOTIATED", "WITHOUT_CR"}
  BY <1>4, RetryNoRequestRow DEF At, Follow, Names
<1>5. CASE hs = {"NEGOTIATED", "WITHOUT_HRR", "WITHOUT_CR"}
  BY <1>5, DirectNoRequestRow DEF At, Follow, Names
<1>6. CASE hs = {"NEGOTIATED", "WITH_CCV"}
  BY <1>6, RetryVerifyRow DEF At, Follow, Names
<1>7. CASE hs = {"NEGOTIATED", "WITHOUT_HRR", "WITH_CCV"}
  BY <1>7, DirectVerifyRow DEF At, Follow, Names
<1> QED BY <1>1, <1>2, <1>3, <1>4, <1>5, <1>6, <1>7 DEF Rows

(* The rows agree before position n. *)
Agrees(hs, ks, n) ==
    \A i \in 0 .. n - 1 : tls13_handshake_active_state(ks, i) = tls13_handshake_active_state(hs, i)

(* Changes of hs_type: the row changes, what is before the position does not. *)
Switch(hs, n, ks, b) ==
    ks \in Rows /\ tls13_handshake_active_state(ks, n) = b /\ Agrees(hs, ks, n)

(* Not to change hs_type is a change of row that keeps the past. *)
LEMMA SwitchSame ==
    ASSUME NEW hs \in Rows, NEW n \in Nat
    PROVE  Switch(hs, n, hs, tls13_handshake_active_state(hs, n))
  BY DEF Switch, Agrees

(* The hello that turns out not to be a retry. *)
LEMMA SwitchDirect ==
    ASSUME NEW hs, NEW n \in Nat, hs = {}
    PROVE  LET ks == hs \cup {"NEGOTIATED", "WITHOUT_HRR"}
               ls == (hs \cup {"WITHOUT_HRR"}) \cup {"NEGOTIATED"}
           IN  /\ tls13_handshake_active_state(hs, n) = "CLIENT_HELLO" => Switch(hs, n, ks, "CLIENT_HELLO")
               /\ tls13_handshake_active_state(hs, n) = "SERVER_HELLO_RETRY_REQUEST" =>
                     Switch(hs, n, ls, "SERVER_HELLO")
<1> DEFINE ks == {"NEGOTIATED", "WITHOUT_HRR"}
<1>1. hs \cup ks = ks /\ (hs \cup {"WITHOUT_HRR"}) \cup {"NEGOTIATED"} = ks /\ ks \in Rows
  BY DEF Rows
<1>2. tls13_handshake_active_state(hs, n) = "CLIENT_HELLO" => Switch(hs, n, ks, "CLIENT_HELLO")
  BY <1>1, InitialRow, DirectRequestRow DEF At, Switch, Agrees
<1>3. tls13_handshake_active_state(hs, n) = "SERVER_HELLO_RETRY_REQUEST" => Switch(hs, n, ks, "SERVER_HELLO")
  BY <1>1, InitialRow, DirectRequestRow DEF At, Switch, Agrees
<1> QED BY <1>1, <1>2, <1>3, Zenon

(* The ServerHello. *)
LEMMA SwitchServerHello ==
    ASSUME NEW hs \in {{}, {"NEGOTIATED", "WITHOUT_HRR"}}, NEW n \in Nat,
           tls13_handshake_active_state(hs, n) = "SERVER_HELLO"
    PROVE  /\ Switch(hs, n, hs \cup {"NEGOTIATED"}, "SERVER_HELLO")
           /\ Switch(hs, n, hs \cup {"NEGOTIATED"} \cup {"WITHOUT_CR"}, "SERVER_HELLO")
<1>1. CASE hs = {}
  <2> DEFINE k == {"NEGOTIATED"}  l == {"NEGOTIATED", "WITHOUT_CR"}
  <2>1. hs \cup {"NEGOTIATED"} = k /\ hs \cup {"NEGOTIATED"} \cup {"WITHOUT_CR"} = l /\ k \in Rows /\ l \in Rows
    BY <1>1 DEF Rows
  <2>2. Switch(hs, n, k, "SERVER_HELLO")
    BY <1>1, <2>1, InitialRow, RetryRequestRow DEF At, Switch, Agrees
  <2>3. Switch(hs, n, l, "SERVER_HELLO")
    BY <1>1, <2>1, InitialRow, RetryNoRequestRow DEF At, Switch, Agrees
  <2> QED BY <2>1, <2>2, <2>3, Zenon
<1>2. CASE hs = {"NEGOTIATED", "WITHOUT_HRR"}
  <2> DEFINE l == {"NEGOTIATED", "WITHOUT_HRR", "WITHOUT_CR"}
  <2>1. hs \cup {"NEGOTIATED"} = hs /\ hs \cup {"NEGOTIATED"} \cup {"WITHOUT_CR"} = l /\ hs \in Rows /\ l \in Rows
    BY <1>2 DEF Rows
  <2>2. Switch(hs, n, hs, "SERVER_HELLO")
    BY <2>1, SwitchSame
  <2>3. Switch(hs, n, l, "SERVER_HELLO")
    BY <1>2, <2>1, DirectRequestRow, DirectNoRequestRow DEF At, Switch, Agrees
  <2> QED BY <2>1, <2>2, <2>3, Zenon
<1> QED BY <1>1, <1>2

(* A Certificate in the place of the CertificateRequest. *)
LEMMA SwitchNoRequest ==
    ASSUME NEW hs \in Rows, NEW n \in Nat, "WITH_CCV" \notin hs,
           tls13_handshake_active_state(hs, n) = "SERVER_CERTIFICATE_REQUEST"
    PROVE  Switch(hs, n, hs \cup {"WITHOUT_CR"}, "SERVER_CERTIFICATE")
<1>1. CASE hs = {"NEGOTIATED"}
  <2> DEFINE l == {"NEGOTIATED", "WITHOUT_CR"}
  <2>1. hs \cup {"WITHOUT_CR"} = l /\ l \in Rows
    BY <1>1 DEF Rows
  <2>2. Switch(hs, n, l, "SERVER_CERTIFICATE")
    BY <1>1, <2>1, RetryRequestRow, RetryNoRequestRow DEF At, Switch, Agrees
  <2> QED BY <2>1, <2>2, Zenon
<1>2. CASE hs = {"NEGOTIATED", "WITHOUT_HRR"}
  <2> DEFINE l == {"NEGOTIATED", "WITHOUT_HRR", "WITHOUT_CR"}
  <2>1. hs \cup {"WITHOUT_CR"} = l /\ l \in Rows
    BY <1>2 DEF Rows
  <2>2. Switch(hs, n, l, "SERVER_CERTIFICATE")
    BY <1>2, <2>1, DirectRequestRow, DirectNoRequestRow DEF At, Switch, Agrees
  <2> QED BY <2>1, <2>2, Zenon
<1>3. hs # {}
  BY Follows DEF Follow, Hellos
<1>4. "WITHOUT_CR" \notin hs
  BY Follows DEF Follow
<1> QED BY <1>1, <1>2, <1>3, <1>4 DEF Rows

(* A Certificate of the client. *)
LEMMA SwitchVerify ==
    ASSUME NEW hs \in Rows, NEW n \in Nat,
           tls13_handshake_active_state(hs, n) = "CLIENT_CERTIFICATE"
    PROVE  Switch(hs, n, hs \cup {"WITH_CCV"}, "CLIENT_CERTIFICATE")
<1>1. CASE hs = {"NEGOTIATED"}
  <2> DEFINE l == {"NEGOTIATED", "WITH_CCV"}
  <2>1. hs \cup {"WITH_CCV"} = l /\ l \in Rows
    BY <1>1 DEF Rows
  <2>2. Switch(hs, n, l, "CLIENT_CERTIFICATE")
    BY <1>1, <2>1, RetryRequestRow, RetryVerifyRow DEF At, Switch, Agrees
  <2> QED BY <2>1, <2>2, Zenon
<1>2. CASE hs = {"NEGOTIATED", "WITHOUT_HRR"}
  <2> DEFINE l == {"NEGOTIATED", "WITHOUT_HRR", "WITH_CCV"}
  <2>1. hs \cup {"WITH_CCV"} = l /\ l \in Rows
    BY <1>2 DEF Rows
  <2>2. Switch(hs, n, l, "CLIENT_CERTIFICATE")
    BY <1>2, <2>1, DirectRequestRow, DirectVerifyRow DEF At, Switch, Agrees
  <2> QED BY <2>1, <2>2, Zenon
<1>3. CASE "WITH_CCV" \in hs
  <2>1. hs \cup {"WITH_CCV"} = hs
    BY <1>3
  <2> QED BY <2>1, SwitchSame, Zenon
<1>4. hs # {}
  BY Follows DEF Follow, Hellos
<1>5. "WITHOUT_CR" \notin hs
  BY Follows DEF Follow
<1> QED BY <1>1, <1>2, <1>3, <1>4, <1>5 DEF Rows
-----------------------------------------------------------------------------
(* What a handler does to an endpoint. *)

(* f differs from e in the fields X only. *)
Changes(e, f, X) == Shape(f) /\ \A x \in Fields \ X : f[x] = e[x]

(* The record of a ServerHello of the legacy stack. *)
Harmless(rec) ==
    rec.ct = "handshake" /\ "type" \in DOMAIN rec.msg /\ rec.msg.type = "server_hello"

(* f is what is left of e when the handshake ends without success. *)
Dies(e, f) ==
    /\ Shape(f) /\ f.mode = e.mode /\ f.cfg = e.cfg /\ f.n = e.n /\ f.ccs_seen = e.ccs_seen
    /\ f.hs \subseteq Flag /\ f.st \in Status /\ f.st # "completed" /\ ~Alive(f)
    /\ f.out = e.out \/ \E rec : Harmless(rec) /\ f.out = Append(e.out, rec)

Ready(e) == Shape(e) /\ Succeeded(e) /\ e.hs \subseteq Flag

(* f is a successful outcome that changes X only. *)
Works(e, f, X) == Succeeded(f) /\ Changes(e, f, X) /\ f.hs \subseteq Flag

Outcome(e, f, X) == Dies(e, f) \/ Works(e, f, X)

(* Short of completion, being alive is having succeeded so far. *)
LEMMA AliveOrNot ==
    ASSUME NEW f
    PROVE  (f.st # "completed" => (Alive(f) <=> Succeeded(f))) /\ (Succeeded(f) => Alive(f))
  BY DEF Alive, Succeeded

(* Two changes, two successes, and failures after them. *)
LEMMA ChangesTwice ==
    ASSUME NEW e, NEW f, NEW g, NEW X, NEW Y, NEW Z, X \subseteq Z, Y \subseteq Z,
           Changes(e, f, X), Changes(f, g, Y)
    PROVE  Changes(e, g, Z)
  BY DEF Changes

LEMMA WorksTwice ==
    ASSUME NEW e, NEW f, NEW g, NEW X, NEW Y, NEW Z, X \subseteq Z, Y \subseteq Z,
           Works(e, f, X), Works(f, g, Y)
    PROVE  Works(e, g, Z)
  BY ChangesTwice DEF Works

LEMMA DiesLater ==
    ASSUME NEW e, NEW f, NEW g, NEW X, Changes(e, f, X), Dies(f, g),
           X \cap {"mode", "cfg", "n", "ccs_seen", "out"} = {}
    PROVE  Dies(e, g)
<1>1. f.mode = e.mode /\ f.cfg = e.cfg /\ f.n = e.n /\ f.ccs_seen = e.ccs_seen /\ f.out = e.out
  BY DEF Changes, Fields
<1> QED BY <1>1, Zenon DEF Dies

LEMMA OutcomeTwice ==
    ASSUME NEW e, NEW f, NEW g, NEW X, NEW Y, NEW Z, X \subseteq Z, Y \subseteq Z,
           Works(e, f, X), Outcome(f, g, Y), X \cap {"mode", "cfg", "n", "ccs_seen", "out"} = {}
    PROVE  Outcome(e, g, Z)
<1>1. CASE Dies(f, g)
  <2>1. Changes(e, f, X)
    BY DEF Works
  <2>2. Dies(e, g)
    BY <1>1, <2>1, DiesLater
  <2> QED BY <2>2 DEF Outcome
<1>2. CASE Works(f, g, Y)
  <2>1. Works(e, g, Z)
    BY <1>2, WorksTwice
  <2> QED BY <2>1 DEF Outcome
<1> QED BY <1>1, <1>2 DEF Outcome

(* The two ways to give up. *)
LEMMA AbortDies ==
    ASSUME NEW e, Shape(e), e.hs \subseteq Flag
    PROVE  Dies(e, Abort(e)) /\ Changes(e, Abort(e), {"st"}) /\ Abort(e).st = "failed"
<1>1. Changes(e, Abort(e), {"st"}) /\ Abort(e).st = "failed"
  BY DEF Shape, Changes, Abort, Fields
<1> HIDE DEF Abort
<1> QED BY <1>1 DEF Changes, Fields, Dies, Alive, Status

LEMMA AbortWithDies ==
    ASSUME NEW e, NEW a \in Alert, Shape(e), e.hs \subseteq Flag, e.st = "run"
    PROVE  /\ Dies(e, AbortWith(e, a)) /\ Changes(e, AbortWith(e, a), {"alert"})
           /\ AbortWith(e, a).alert = a /\ a # None
<1>1. Changes(e, AbortWith(e, a), {"alert"}) /\ AbortWith(e, a).alert = a
  BY DEF Shape, Changes, AbortWith, Fields
<1>2. a # None
  BY NoneAssumption
<1> QED BY <1>1, <1>2 DEF Changes, Fields, Dies, Alive, Status

LEMMA Alerts ==
    /\ "unexpected_message" \in Alert /\ "illegal_parameter" \in Alert /\ "decode_error" \in Alert
    /\ "decrypt_error" \in Alert /\ "internal_error" \in Alert /\ "handshake_failure" \in Alert
    /\ "bad_certificate" \in Alert /\ "certificate_required" \in Alert
  BY DEF Alert

(* What a handler may assume of its endpoint, and what it leaves. *)
LEMMA ReadyFacts ==
    ASSUME NEW e, Ready(e)
    PROVE  Shape(e) /\ e.hs \subseteq Flag /\ e.st \in Status /\ e.st = "run" /\ e.alert = None
  BY DEF Ready, Succeeded, Status

(* A change of fields that say nothing of success. *)
LEMMA WorksBy ==
    ASSUME NEW e, NEW f, NEW X, Ready(e), Changes(e, f, X), "st" \notin X, "alert" \notin X,
           "hs" \notin X
    PROVE  Works(e, f, X) /\ f.hs = e.hs
<1>1. f.st = e.st /\ f.alert = e.alert /\ f.hs = e.hs
  BY DEF Changes, Fields
<1> QED BY <1>1 DEF Works, Ready, Succeeded

LEMMA WorksReady ==
    ASSUME NEW e, NEW f, NEW X, Works(e, f, X)
    PROVE  Ready(f)
  BY DEF Works, Ready, Changes

LEMMA AbortsWith ==
    ASSUME NEW e, NEW a \in Alert, Ready(e)
    PROVE  Dies(e, AbortWith(e, a)) /\ Dies(e, Abort(e)) /\ AbortWith(e, a).alert # None
  BY AbortDies, AbortWithDies, ReadyFacts, Zenon

LEMMA NotBoth ==
    ASSUME NEW e, NEW f, Dies(e, f)
    PROVE  ~Succeeded(f)
  BY DEF Dies, Alive, Succeeded
-----------------------------------------------------------------------------
(* The handlers of received messages. *)

(* Recording a message touches the transcript and the running hash only. *)
LEMMA Recording ==
    ASSUME NEW e, NEW m, Shape(e)
    PROVE  /\ Changes(e, tls1_transcript_record(e, m), {"handshake_hash", "transcript"})
           /\ tls1_transcript_record(e, m).handshake_hash = Hashed(e.handshake_hash, Digest(m))
  BY ZenonT(40) DEF Shape, Changes, tls1_transcript_record, Fields, Hashed

(* The key share of a ClientHello is taken or refused. *)
LEMMA KeyshareServer ==
    ASSUME NEW e, NEW m, Ready(e)
    PROVE  Outcome(e, tlsext_keyshare_server_process(e, m), {"key_share"})
<1> DEFINE chosen == [e EXCEPT !.key_share = tls_key_share_new(m.share, None, m.pub)]
           f == tlsext_keyshare_server_process(e, m)
<1>1. Works(e, chosen, {"key_share"}) /\ Works(e, e, {"key_share"})
  <2>1. Changes(e, chosen, {"key_share"}) /\ Changes(e, e, {"key_share"})
    BY DEF Ready, Changes, Shape, Fields
  <2> HIDE DEF chosen
  <2> QED BY <2>1, WorksBy
<1>2. f \in {e, chosen, AbortWith(e, "illegal_parameter"), AbortWith(e, "internal_error")}
  <2> HIDE DEF chosen
  <2> QED BY DEF tlsext_keyshare_server_process, chosen
<1>3. Dies(e, AbortWith(e, "illegal_parameter")) /\ Dies(e, AbortWith(e, "internal_error"))
  BY Alerts, AbortsWith, Zenon
<1>4. Dies(e, f) \/ Works(e, f, {"key_share"})
  <2> HIDE DEF f, chosen
  <2> QED BY <1>1, <1>2, <1>3
<1> QED BY <1>4, Zenon DEF Outcome

ProcessFields == {"client_groups", "key_share", "cipher", "sid", "clienthello_hash"}

(* A ClientHello is processed, refused or handed to the legacy stack. *)
LEMMA HelloProcess ==
    ASSUME NEW e, NEW m, Ready(e)
    PROVE  Outcome(e, tls13_client_hello_process(e, m), ProcessFields)
<1> DEFINE groups == IF e.hrr THEN e.client_groups ELSE m.groups
           g == [e EXCEPT !.client_groups = groups]
           parsed == tlsext_keyshare_server_process(g, m)
           cipher == ssl3_choose_cipher(e, m.suites)
           hash == IF e.hrr THEN None ELSE HelloHash(m)
           taken == [parsed EXCEPT !.cipher = cipher, !.sid = m.sid, !.clienthello_hash = hash]
           f == tls13_client_hello_process(e, m)
<1>1. Works(e, g, {"client_groups"})
  <2>1. PICK v : v = groups
    OBVIOUS
  <2> HIDE DEF groups
  <2>2. Changes(e, g, {"client_groups"})
    BY <2>1 DEF Ready, Changes, Shape, Fields
  <2> HIDE DEF g
  <2> QED BY <2>2, WorksBy
<1>2. Ready(g)
  BY <1>1, WorksReady
<1> HIDE DEF g
<1>3. Outcome(g, parsed, {"key_share"})
  BY <1>2, KeyshareServer
<1>4. Outcome(e, parsed, {"client_groups", "key_share"})
  BY <1>1, <1>3, OutcomeTwice
<1> HIDE DEF parsed
<1>5. ASSUME Works(e, parsed, {"client_groups", "key_share"})
      PROVE  /\ Outcome(e, AbortWith(parsed, "illegal_parameter"), ProcessFields)
             /\ Outcome(e, AbortWith(parsed, "handshake_failure"), ProcessFields)
             /\ Outcome(e, taken, ProcessFields)
  <2>1. Ready(parsed)
    BY <1>5, WorksReady
  <2>2. Outcome(parsed, AbortWith(parsed, "illegal_parameter"), {}) /\ Outcome(parsed, AbortWith(parsed, "handshake_failure"), {})
    BY <2>1, Alerts, AbortsWith, Zenon DEF Outcome
  <2>3. Works(parsed, taken, {"cipher", "sid", "clienthello_hash"})
    <3>1. PICK a, b, c : a = cipher /\ b = m.sid /\ c = hash
      OBVIOUS
    <3> HIDE DEF cipher, hash
    <3>2. Changes(parsed, taken, {"cipher", "sid", "clienthello_hash"})
      BY <2>1, <3>1, ZenonT(40) DEF Ready, Changes, Shape, Fields
    <3> HIDE DEF taken
    <3> QED BY <2>1, <3>2, WorksBy
  <2>4. Outcome(parsed, taken, {"cipher", "sid", "clienthello_hash"})
    BY <2>3 DEF Outcome
  <2> HIDE DEF taken
  <2>5. Outcome(e, AbortWith(parsed, "illegal_parameter"), ProcessFields)
    BY <1>5, <2>2, OutcomeTwice DEF ProcessFields
  <2>6. Outcome(e, AbortWith(parsed, "handshake_failure"), ProcessFields)
    BY <1>5, <2>2, OutcomeTwice DEF ProcessFields
  <2>7. Outcome(e, taken, ProcessFields)
    BY <1>5, <2>4, OutcomeTwice DEF ProcessFields
  <2> QED BY <2>5, <2>6, <2>7, Zenon
<1> HIDE DEF taken, cipher
<1>6. Dies(e, parsed) => Outcome(e, parsed, ProcessFields)
  BY DEF Outcome
<1>7. Dies(e, tls13_use_legacy_server(e))
  <2> DEFINE rec == [ct |-> "handshake", key |-> None, msg |-> LegacyServerHello(e)]
             g2 == tls13_use_legacy_server(e)
  <2>1. Harmless(rec)
    BY DEF Harmless, LegacyServerHello
  <2>2. PICK r : r = rec
    OBVIOUS
  <2> HIDE DEF rec
  <2>3. Changes(e, g2, {"st", "need_flush", "out"}) /\ g2.st = "legacy" /\ g2.out = Append(e.out, r)
    BY <2>2, ZenonT(40) DEF Ready, Changes, Shape, Fields, tls13_use_legacy_server, rec
  <2>4. Dies(e, g2)
    <3> HIDE DEF g2
    <3>1. Harmless(r)
      BY <2>1, <2>2, Zenon
    <3>2. \E q : Harmless(q) /\ g2.out = Append(e.out, q)
      BY <2>3, <3>1, Zenon
    <3>3. /\ Shape(g2) /\ g2.mode = e.mode /\ g2.cfg = e.cfg /\ g2.n = e.n /\ g2.ccs_seen = e.ccs_seen
          /\ g2.hs \subseteq Flag /\ g2.st \in Status /\ g2.st # "completed" /\ ~Alive(g2)
      BY <2>3 DEF Changes, Fields, Ready, Alive, Status
    <3> QED BY <3>2, <3>3, Zenon DEF Dies
  <2> QED BY <2>4, Zenon
<1> DEFINE match == HelloHash(m) = e.clienthello_hash
           A1 == AbortWith(parsed, "illegal_parameter")
           A2 == AbortWith(parsed, "handshake_failure")
           L == tls13_use_legacy_server(e)
<1>8. f = IF ~m.v13 \/ ~e.cfg.max13 THEN L
          ELSE CASE ~Succeeded(parsed) -> parsed
                 [] Succeeded(parsed) /\ e.hrr /\ ~match -> A1
                 [] Succeeded(parsed) /\ (e.hrr => match) -> IF cipher = None THEN A2 ELSE taken
  BY Zenon DEF tls13_client_hello_process, parsed, g, taken, cipher
<1>9. PICK v : v = f
  OBVIOUS
<1>10. Outcome(e, v, ProcessFields)
  <2>1. \/ v = L
        \/ v \in {A1, A2, taken} /\ Succeeded(parsed)
        \/ v = parsed /\ ~Succeeded(parsed)
    <3> HIDE DEF f, match, A1, A2, L, cipher
    <3> QED BY <1>8, <1>9, Zenon
  <2>2. CASE v = L
    BY <2>2, <1>7, Zenon DEF Outcome
  <2>3. CASE v \in {A1, A2, taken} /\ Succeeded(parsed)
    <3>1. Works(e, parsed, {"client_groups", "key_share"})
      BY <2>3, <1>4, NotBoth, Zenon DEF Outcome
    <3> QED BY <2>3, <3>1, <1>5, Zenon
  <2>4. CASE v = parsed /\ ~Succeeded(parsed)
    <3>1. Dies(e, parsed)
      BY <2>4, <1>4, Zenon DEF Outcome, Works
    <3> QED BY <2>4, <3>1, <1>6, Zenon
  <2> QED BY <2>1, <2>2, <2>3, <2>4, Zenon
<1> QED BY <1>9, <1>10, Zenon

RecvHelloFields == ProcessFields \cup {"ccs_allowed", "hs", "hrr"}

(* The server's handlers. *)
LEMMA ClientHelloRecv ==
    ASSUME NEW e, NEW m, Ready(e)
    PROVE  /\ Outcome(e, tls13_client_hello_recv(e, m), RecvHelloFields)
           /\ Succeeded(tls13_client_hello_recv(e, m)) =>
                 tls13_client_hello_recv(e, m).hs \in {e.hs, e.hs \cup {"NEGOTIATED", "WITHOUT_HRR"}}
<1> DEFINE done == tls13_client_hello_process(e, m)
           f == tls13_client_hello_recv(e, m)
           add == IF done.key_share # None THEN {"NEGOTIATED", "WITHOUT_HRR"} ELSE {}
           g == [done EXCEPT !.ccs_allowed = TRUE, !.hs = @ \cup add]
<1>1. Outcome(e, done, ProcessFields)
  BY HelloProcess
<1>2. f = IF ~Succeeded(done) THEN done ELSE g
  BY Zenon DEF tls13_client_hello_recv
<1> HIDE DEF done
<1>3. CASE ~Succeeded(done)
  <2>1. f = done /\ Dies(e, done)
    BY <1>1, <1>2, <1>3, Zenon DEF Outcome, Works
  <2> QED BY <2>1, <1>3, Zenon DEF Outcome
<1>4. CASE Succeeded(done)
  <2>1. Works(e, done, ProcessFields)
    BY <1>1, <1>4, NotBoth, Zenon DEF Outcome
  <2>2. done.hs = e.hs /\ Ready(done)
    BY <2>1, WorksReady DEF Works, Changes, Fields, ProcessFields
  <2>3. add \in {{}, {"NEGOTIATED", "WITHOUT_HRR"}}
    OBVIOUS
  <2>4. PICK a : a = add
    OBVIOUS
  <2> HIDE DEF add
  <2>5. Changes(done, g, {"ccs_allowed", "hs"}) /\ g.hs = done.hs \cup a
    BY <2>2, <2>4 DEF Ready, Shape, Fields, Changes
  <2> HIDE DEF g
  <2>6. g.hs \in {e.hs, e.hs \cup {"NEGOTIATED", "WITHOUT_HRR"}} /\ g.hs \subseteq Flag
    BY <2>2, <2>3, <2>4, <2>5 DEF Ready, Flag
  <2>7. Works(done, g, {"ccs_allowed", "hs"})
    BY <2>2, <2>5, <2>6 DEF Works, Ready, Succeeded, Changes, Fields
  <2>8. Works(e, g, RecvHelloFields)
    BY <2>1, <2>7, WorksTwice DEF RecvHelloFields
  <2>9. f = g
    BY <1>2, <1>4, Zenon
  <2> QED BY <2>6, <2>8, <2>9, Zenon DEF Outcome
<1> QED BY <1>3, <1>4, Zenon

LEMMA ClientHelloRetryRecv ==
    ASSUME NEW e, NEW m, Ready(e)
    PROVE  /\ Outcome(e, tls13_client_hello_retry_recv(e, m), RecvHelloFields)
           /\ Succeeded(tls13_client_hello_retry_recv(e, m)) =>
                 tls13_client_hello_retry_recv(e, m).hs = e.hs
<1> DEFINE done == tls13_client_hello_process(e, m)
           f == tls13_client_hello_retry_recv(e, m)
           g == [done EXCEPT !.hrr = FALSE]
<1>1. Outcome(e, done, ProcessFields)
  BY HelloProcess
<1>2. f = IF done.st = "legacy" THEN Abort(e) ELSE IF ~Succeeded(done) THEN done ELSE g
  BY Zenon DEF tls13_client_hello_retry_recv
<1> HIDE DEF done
<1>3. CASE f = Abort(e)
  BY <1>3, AbortDies, ReadyFacts, NotBoth, Zenon DEF Outcome
<1>4. CASE f = done /\ ~Succeeded(done)
  BY <1>1, <1>4, Zenon DEF Outcome, Works
<1>5. CASE Succeeded(done) /\ f = g
  <2>1. Works(e, done, ProcessFields)
    BY <1>1, <1>5, NotBoth, Zenon DEF Outcome
  <2>2. done.hs = e.hs /\ Ready(done)
    BY <2>1, WorksReady DEF Works, Changes, Fields, ProcessFields
  <2>3. Changes(done, g, {"hrr"})
    BY <2>2 DEF Ready, Shape, Fields, Changes
  <2> HIDE DEF g
  <2>4. Works(done, g, {"hrr"}) /\ g.hs = done.hs
    BY <2>2, <2>3, WorksBy
  <2>5. Works(e, g, RecvHelloFields)
    BY <2>1, <2>4, WorksTwice DEF RecvHelloFields
  <2> QED BY <2>2, <2>4, <2>5, <1>5, Zenon DEF Outcome
<1> HIDE DEF g, f
<1> QED BY <1>2, <1>3, <1>4, <1>5 DEF f

LEMMA ClientCertificateRecv ==
    ASSUME NEW e, NEW m, Ready(e), m.cert \in {"empty", "bad", "good"}
    PROVE  LET f == tls13_client_certificate_recv(e, m)
           IN  \/ Dies(e, f)
               \/ f = e /\ m.cert = "empty" /\ e.cfg.verify # "require"
               \/ /\ m.cert = "good" /\ Works(e, f, {"peer_cert", "hs"})
                  /\ f.peer_cert = "good" /\ f.hs = e.hs \cup {"WITH_CCV"}
<1> DEFINE f == tls13_client_certificate_recv(e, m)
           g == [e EXCEPT !.peer_cert = m.cert, !.hs = @ \cup {"WITH_CCV"}]
           A1 == AbortWith(e, "certificate_required")
           A2 == AbortWith(e, "bad_certificate")
<1>1. Dies(e, A1) /\ Dies(e, A2)
  BY Alerts, AbortsWith, Zenon
<1>2. \/ m.cert = "good" /\ f = g
      \/ f = A1 \/ f = A2
      \/ m.cert = "empty" /\ e.cfg.verify # "require" /\ f = e
  <2>1. f = CASE m.cert = "empty" -> IF e.cfg.verify = "require" THEN A1 ELSE e
              [] m.cert = "bad"   -> A2
              [] m.cert = "good"  -> g
    BY Zenon DEF tls13_client_certificate_recv
  <2> HIDE DEF f, g, A1, A2
  <2> QED BY <2>1
<1>3. ASSUME m.cert = "good"
      PROVE  Works(e, g, {"peer_cert", "hs"}) /\ g.peer_cert = "good" /\ g.hs = e.hs \cup {"WITH_CCV"}
  <2>1. Changes(e, g, {"peer_cert", "hs"}) /\ g.peer_cert = "good" /\ g.hs = e.hs \cup {"WITH_CCV"}
    BY <1>3 DEF Ready, Shape, Fields, Changes
  <2> HIDE DEF g
  <2> QED BY <2>1 DEF Works, Ready, Succeeded, Changes, Fields, Flag
<1> HIDE DEF f, g, A1, A2
<1>4. \/ Dies(e, f)
      \/ f = e /\ m.cert = "empty" /\ e.cfg.verify # "require"
      \/ /\ m.cert = "good" /\ Works(e, f, {"peer_cert", "hs"})
         /\ f.peer_cert = "good" /\ f.hs = e.hs \cup {"WITH_CCV"}
  BY <1>1, <1>2, <1>3, Zenon
<1> QED BY <1>4, Zenon DEF f

(* A CertificateVerify proves the certificate it belongs to. *)
LEMMA VerifyRecv ==
    ASSUME NEW e, NEW m, Ready(e)
    PROVE  LET f == CertificateVerifyRecv(e, m)
           IN  \/ Dies(e, f)
               \/ e.peer_cert # None /\ Works(e, f, {"peer_proved"}) /\ f.peer_proved
<1> DEFINE f == CertificateVerifyRecv(e, m)
           g == [e EXCEPT !.peer_proved = TRUE]
           A1 == AbortWith(e, "decode_error")
           A2 == AbortWith(e, "decrypt_error")
<1>1. Dies(e, A1) /\ Dies(e, A2)
  BY Alerts, AbortsWith, Zenon
<1>2. f \in {A1, A2} \/ (f = g /\ e.peer_cert # None)
  <2>1. f = CASE e.peer_cert = None -> A1
              [] e.peer_cert # None ->
                   IF m = CertificateVerify(Other(e.mode), e.transcript_hash) THEN g ELSE A2
    BY Zenon DEF CertificateVerifyRecv
  <2> HIDE DEF f, g, A1, A2
  <2> QED BY <2>1
<1>3. Works(e, g, {"peer_proved"}) /\ g.peer_proved
  <2>1. Changes(e, g, {"peer_proved"}) /\ g.peer_proved
    BY DEF Ready, Shape, Fields, Changes
  <2> HIDE DEF g
  <2> QED BY <2>1, WorksBy
<1> HIDE DEF f, g, A1, A2
<1>4. Dies(e, f) \/ (e.peer_cert # None /\ Works(e, f, {"peer_proved"}) /\ f.peer_proved)
  BY <1>1, <1>2, <1>3
<1> QED BY <1>4, Zenon DEF f

(* A Finished that is accepted is the one computed from our own keys and hash. *)
LEMMA ClientFinishedRecv ==
    ASSUME NEW e, NEW m, Ready(e)
    PROVE  LET f == tls13_client_finished_recv(e, m)
           IN  \/ Dies(e, f)
               \/ /\ Works(e, f, {"read", "ccs_allowed"}) /\ f.read = e.application_traffic["client"]
                  /\ m = Finished(e, "client", e.transcript_hash)
<1> DEFINE f == tls13_client_finished_recv(e, m)
           g == [e EXCEPT !.read = e.application_traffic["client"], !.ccs_allowed = FALSE]
           A == AbortWith(e, "decrypt_error")
           ok == m = Finished(e, "client", e.transcript_hash)
<1>1. Dies(e, A)
  BY Alerts, AbortsWith, Zenon
<1>2. f = A \/ (f = g /\ ok)
  BY Zenon DEF tls13_client_finished_recv
<1>3. Works(e, g, {"read", "ccs_allowed"}) /\ g.read = e.application_traffic["client"]
  <2>1. Changes(e, g, {"read", "ccs_allowed"}) /\ g.read = e.application_traffic["client"]
    BY DEF Ready, Shape, Fields, Changes
  <2> HIDE DEF g
  <2> QED BY <2>1, WorksBy
<1> HIDE DEF f, g, A, ok
<1>4. Dies(e, f) \/ (Works(e, f, {"read", "ccs_allowed"}) /\ f.read = e.application_traffic["client"] /\ ok)
  BY <1>1, <1>2, <1>3, Zenon
<1> QED BY <1>4, Zenon DEF f, ok

LEMMA ServerFinishedRecv ==
    ASSUME NEW e, NEW m, Ready(e)
    PROVE  LET f == tls13_server_finished_recv(e, m)
           IN  \/ Dies(e, f)
               \/ /\ Works(e, f, {"application_traffic", "read", "ccs_allowed"})
                  /\ f.application_traffic = TrafficKeys(e, "application", e.handshake_hash)
                  /\ f.read = f.application_traffic["server"]
                  /\ m = Finished(e, "server", e.transcript_hash)
<1> DEFINE f == tls13_server_finished_recv(e, m)
           keys == TrafficKeys(e, "application", e.handshake_hash)
           d == [e EXCEPT !.application_traffic = keys]
           g == [d EXCEPT !.read = d.application_traffic["server"], !.ccs_allowed = FALSE]
           A == AbortWith(e, "decrypt_error")
           ok == m = Finished(e, "server", e.transcript_hash)
           X == {"application_traffic", "read", "ccs_allowed"}
<1>1. Dies(e, A)
  BY Alerts, AbortsWith, Zenon
<1>2. f = A \/ (f = g /\ ok)
  BY Zenon DEF tls13_server_finished_recv, tls13_derive_application_secrets
<1>3. Works(e, g, X) /\ g.application_traffic = keys /\ g.read = g.application_traffic["server"]
  <2>1. PICK k : k = keys
    OBVIOUS
  <2> HIDE DEF keys
  <2>2. Changes(e, g, X) /\ g.application_traffic = k /\ g.read = k["server"]
    BY <2>1, ZenonT(40) DEF Ready, Shape, Fields, Changes
  <2> HIDE DEF g
  <2> QED BY <2>1, <2>2, WorksBy
<1> HIDE DEF f, g, A, ok, keys
<1>4. \/ Dies(e, f)
      \/ /\ Works(e, f, X) /\ f.application_traffic = keys
         /\ f.read = f.application_traffic["server"] /\ ok
  BY <1>1, <1>2, <1>3, Zenon
<1> QED BY <1>4, Zenon DEF f, ok, keys

(* The client's handlers for the certificate and the request for its own. *)
LEMMA ServerCertificateRecv ==
    ASSUME NEW e, NEW m, Ready(e)
    PROVE  LET f == tls13_server_certificate_recv(e, m)
           IN  \/ Dies(e, f)
               \/ /\ Works(e, f, {"peer_cert"}) /\ f.peer_cert = m.cert /\ f.hs = e.hs
                  /\ e.cfg.verify # "none" => m.cert # "bad"
<1> DEFINE f == tls13_server_certificate_recv(e, m)
           g == [e EXCEPT !.peer_cert = m.cert]
           A == AbortWith(e, "bad_certificate")
           ok == e.cfg.verify # "none" => m.cert # "bad"
<1>1. Dies(e, A)
  BY Alerts, AbortsWith, Zenon
<1>2. f = A \/ (f = g /\ ok)
  BY Zenon DEF tls13_server_certificate_recv
<1>3. Works(e, g, {"peer_cert"}) /\ g.peer_cert = m.cert /\ g.hs = e.hs
  <2>1. Changes(e, g, {"peer_cert"}) /\ g.peer_cert = m.cert
    BY DEF Ready, Shape, Fields, Changes
  <2> HIDE DEF g
  <2> QED BY <2>1, WorksBy
<1> HIDE DEF f, g, A, ok
<1>4. Dies(e, f) \/ (Works(e, f, {"peer_cert"}) /\ f.peer_cert = m.cert /\ f.hs = e.hs /\ ok)
  BY <1>1, <1>2, <1>3, Zenon
<1> QED BY <1>4, Zenon DEF f, ok

LEMMA CertificateRequestRecv ==
    ASSUME NEW e, NEW m, Ready(e)
    PROVE  LET f == tls13_server_certificate_request_recv(e, m)
           IN  \/ Dies(e, f)
               \/ f = e /\ m.type # "certificate"
               \/ /\ m.type = "certificate" /\ Works(e, f, {"peer_cert", "hs"})
                  /\ f.hs = e.hs \cup {"WITHOUT_CR"} /\ f.peer_cert = m.cert
                  /\ e.cfg.verify # "none" => m.cert # "bad"
<1> DEFINE f == tls13_server_certificate_request_recv(e, m)
           g == [e EXCEPT !.hs = @ \cup {"WITHOUT_CR"}]
           h == tls13_server_certificate_recv(g, m)
<1>1. f = IF m.type = "certificate" THEN h ELSE e
  BY Zenon DEF tls13_server_certificate_request_recv
<1>2. Works(e, g, {"hs"}) /\ g.hs = e.hs \cup {"WITHOUT_CR"} /\ g.cfg = e.cfg
  <2>1. Changes(e, g, {"hs"}) /\ g.hs = e.hs \cup {"WITHOUT_CR"}
    BY DEF Ready, Shape, Fields, Changes
  <2> HIDE DEF g
  <2> QED BY <2>1 DEF Works, Ready, Succeeded, Changes, Fields, Flag
<1>3. Ready(g)
  BY <1>2, WorksReady
<1> HIDE DEF g
<1>4. \/ Dies(g, h)
      \/ /\ Works(g, h, {"peer_cert"}) /\ h.peer_cert = m.cert /\ h.hs = g.hs
         /\ g.cfg.verify # "none" => m.cert # "bad"
  BY <1>3, ServerCertificateRecv
<1> HIDE DEF h, f
<1>5. CASE Dies(g, h)
  <2>1. Dies(e, h)
    BY <1>2, <1>5, DiesLater DEF Works
  <2> QED BY <2>1, <1>1, Zenon DEF f
<1>6. CASE ~Dies(g, h)
  <2>1. Works(e, h, {"peer_cert", "hs"})
    BY <1>2, <1>4, <1>6, WorksTwice
  <2> QED BY <2>1, <1>1, <1>2, <1>4, <1>6, Zenon DEF f
<1> QED BY <1>5, <1>6

(* The end of a handshake that has already failed. *)
LEMMA DiesStill ==
    ASSUME NEW e, NEW f, NEW g, NEW X, Dies(e, f), Changes(f, g, X),
           X \cap {"mode", "cfg", "n", "ccs_seen", "out", "hs", "alert"} = {},
           g.st \in {f.st, "failed", "legacy"}
    PROVE  Dies(e, g)
<1>1. /\ g.mode = f.mode /\ g.cfg = f.cfg /\ g.n = f.n /\ g.ccs_seen = f.ccs_seen /\ g.out = f.out
      /\ g.hs = f.hs /\ g.alert = f.alert /\ Shape(g)
  BY DEF Changes, Fields
<1>2. g.st \in Status /\ ~Alive(g)
  BY <1>1 DEF Dies, Status, Alive
<1> QED BY <1>1, <1>2, Zenon DEF Dies

(* Traffic keys depend on the shared secret, the cipher and the context only. *)
LEMMA SameTrafficKeys ==
    ASSUME NEW e, NEW f, NEW level, NEW context, f.shared = e.shared, f.cipher = e.cipher
    PROVE  TrafficKeys(f, level, context) = TrafficKeys(e, level, context)
  BY Zenon DEF TrafficKeys

LEMMA TrafficContext ==
    ASSUME NEW e, NEW level, NEW context
    PROVE  \A p \in Peer : /\ TrafficKeys(e, level, context)[p].context = context
                           /\ TrafficKeys(e, level, context)[p].level = level
                           /\ TrafficKeys(e, level, context)[p].shared = e.shared
                           /\ TrafficKeys(e, level, context)[p].cipher = e.cipher
  BY DEF TrafficKeys

EngageFields == {"handshake_hash", "transcript", "shared", "handshake_traffic", "read", "write"}

(* Engaging record protection makes the handshake keys those of the shared secret. *)
LEMMA Engages ==
    ASSUME NEW e, Shape(e)
    PROVE  Changes(e, EngageRecordProtection(e), EngageFields) /\ Keyed(EngageRecordProtection(e))
<1> DEFINE i == tls1_transcript_hash_init(e)
           secret == tls_key_share_derive(e)
           g == [i EXCEPT !.transcript = None, !.shared = secret]
           keys == TrafficKeys(g, "handshake", g.handshake_hash)
           r == keys[Other(e.mode)]
           w == keys[e.mode]
           f == [g EXCEPT !.handshake_traffic = keys, !.read = r, !.write = w]
<1>1. f = EngageRecordProtection(e)
  BY Zenon DEF EngageRecordProtection
<1>2. Changes(e, i, {"handshake_hash"})
  BY DEF Shape, Fields, Changes, tls1_transcript_hash_init
<1> HIDE DEF i, secret
<1>3. Changes(i, g, {"transcript", "shared"})
  <2>1. PICK s : s = secret
    OBVIOUS
  <2> QED BY <1>2, <2>1 DEF Shape, Fields, Changes
<1> HIDE DEF g
<1>4. PICK k, a, b : k = keys /\ a = r /\ b = w
  OBVIOUS
<1>5. keys = TrafficKeys(g, "handshake", g.handshake_hash)
  OBVIOUS
<1> HIDE DEF keys, r, w
<1>6. Changes(g, f, {"handshake_traffic", "read", "write"}) /\ f.handshake_traffic = keys
  BY <1>3, <1>4, ZenonT(40) DEF Shape, Fields, Changes
<1> HIDE DEF f
<1>7. Changes(e, g, {"handshake_hash", "transcript", "shared"})
  BY <1>2, <1>3, ChangesTwice
<1>8. Changes(e, f, EngageFields)
  BY <1>6, <1>7, ChangesTwice DEF EngageFields
<1>9. f.shared = g.shared /\ f.cipher = g.cipher
  BY <1>6 DEF Changes, Fields
<1>10. f.handshake_traffic["server"].context = g.handshake_hash
  BY <1>5, <1>6, TrafficContext DEF Peer
<1>11. TrafficKeys(f, "handshake", g.handshake_hash) = keys
  BY <1>5, <1>9, SameTrafficKeys
<1>12. Keyed(f)
  BY <1>6, <1>10, <1>11, Zenon DEF Keyed
<1> QED BY <1>1, <1>8, <1>12, Zenon

(* The key share or the group of a ServerHello is taken or refused. *)
LEMMA KeyshareClient ==
    ASSUME NEW e, NEW m, Ready(e)
    PROVE  /\ Outcome(e, tlsext_keyshare_client_process(e, m), {"server_group", "key_share"})
           /\ ~Succeeded(tlsext_keyshare_client_process(e, m)) =>
                 tlsext_keyshare_client_process(e, m).alert # None
<1> DEFINE f == tlsext_keyshare_client_process(e, m)
           g == [e EXCEPT !.server_group = m.group]
           h == [e EXCEPT !.key_share.peer = m.pub]
           A1 == AbortWith(e, "decode_error")
           A2 == AbortWith(e, "internal_error")
           X == {"server_group", "key_share"}
<1>1. Dies(e, A1) /\ Dies(e, A2) /\ A1.alert # None /\ A2.alert # None
  BY Alerts, AbortsWith, Zenon
<1>2. f \in {A1, A2, g, h}
  <2>1. f = CASE m.pub = None -> IF tls13_server_hello_is_retry(m) THEN g ELSE A1
              [] m.pub # None -> IF e.key_share.group = m.group THEN h ELSE A2
    BY Zenon DEF tlsext_keyshare_client_process
  <2> HIDE DEF f, g, h, A1, A2
  <2> QED BY <2>1
<1>3. Works(e, g, X)
  <2>1. Changes(e, g, X)
    BY DEF Ready, Shape, Fields, Changes
  <2> HIDE DEF g
  <2> QED BY <2>1, WorksBy
<1>4. Works(e, h, X)
  <2>1. PICK k : k = [e.key_share EXCEPT !.peer = m.pub]
    OBVIOUS
  <2>2. h = [e EXCEPT !.key_share = k]
    BY <2>1
  <2>3. Changes(e, h, X)
    BY <2>2 DEF Ready, Shape, Fields, Changes
  <2> HIDE DEF h
  <2> QED BY <2>3, WorksBy
<1> HIDE DEF f, g, h, A1, A2
<1>5. Outcome(e, f, X) /\ (~Succeeded(f) => f.alert # None)
  BY <1>1, <1>2, <1>3, <1>4 DEF Outcome, Works
<1> QED BY <1>5, Zenon DEF f

HelloFields == {"hrr", "server_group", "key_share", "cipher"}

(* A ServerHello is processed, refused or left to the legacy stack. *)
LEMMA ServerHelloProcess ==
    ASSUME NEW e, NEW m, Ready(e)
    PROVE  /\ Outcome(e, tls13_server_hello_process(e, m), HelloFields)
           /\ ~Succeeded(tls13_server_hello_process(e, m)) =>
                 \/ tls13_server_hello_process(e, m).alert # None
                 \/ tls13_server_hello_process(e, m).st = "legacy"
<1> DEFINE f == tls13_server_hello_process(e, m)
           retry == tls13_server_hello_is_retry(m)
           i == [e EXCEPT !.hrr = @ \/ retry]
           parsed == tlsext_keyshare_client_process(i, m)
           bad == \/ m.sid # e.sid
                  \/ m.cipher \notin ToSet(e.cfg.suites)
                  \/ "WITHOUT_HRR" \notin e.hs /\ ~parsed.hrr /\ e.cipher # m.cipher
           A1 == AbortWith(e, "illegal_parameter")
           A2 == AbortWith(parsed, "illegal_parameter")
           L == [e EXCEPT !.st = "legacy"]
           g == [parsed EXCEPT !.cipher = m.cipher]
<1>1. f = IF ~m.v13 THEN IF e.cfg.max13 /\ m.rand = "downgrade" THEN A1 ELSE L
          ELSE IF ~Succeeded(parsed) THEN parsed
          ELSE IF bad THEN A2 ELSE g
  BY Zenon DEF tls13_server_hello_process
<1>2. Works(e, i, {"hrr"})
  <2>1. PICK b : b = (e.hrr \/ retry)
    OBVIOUS
  <2>2. i = [e EXCEPT !.hrr = b]
    BY <2>1, Zenon
  <2>3. Changes(e, i, {"hrr"})
    BY <2>2 DEF Ready, Shape, Fields, Changes
  <2> HIDE DEF i
  <2> QED BY <2>3, WorksBy
<1>3. Ready(i)
  BY <1>2, WorksReady
<1> HIDE DEF i
<1>4. /\ Outcome(i, parsed, {"server_group", "key_share"})
      /\ ~Succeeded(parsed) => parsed.alert # None
  BY <1>3, KeyshareClient
<1> HIDE DEF parsed, bad
<1>5. Outcome(e, parsed, {"hrr", "server_group", "key_share"})
  BY <1>2, <1>4, OutcomeTwice
<1>6. Dies(e, A1) /\ A1.alert # None
  BY Alerts, AbortsWith, Zenon
<1>7. Dies(e, L) /\ L.st = "legacy"
  <2>1. Changes(e, L, {"st"}) /\ L.st = "legacy"
    BY DEF Ready, Shape, Fields, Changes
  <2> HIDE DEF L
  <2> QED BY <2>1 DEF Dies, Changes, Fields, Ready, Status, Alive
<1>8. ASSUME Succeeded(parsed)
      PROVE  Outcome(e, A2, HelloFields) /\ A2.alert # None /\ Works(e, g, HelloFields)
  <2>1. Works(e, parsed, {"hrr", "server_group", "key_share"})
    BY <1>5, <1>8, NotBoth, Zenon DEF Outcome
  <2>2. Ready(parsed)
    BY <2>1, WorksReady
  <2>3. Dies(parsed, A2) /\ A2.alert # None
    BY <2>2, Alerts, AbortsWith, Zenon
  <2>4. Changes(parsed, g, {"cipher"})
    BY <2>2 DEF Ready, Shape, Fields, Changes
  <2> HIDE DEF g, A2
  <2>5. Works(parsed, g, {"cipher"})
    BY <2>2, <2>4, WorksBy
  <2>6. Works(e, g, HelloFields)
    BY <2>1, <2>5, WorksTwice DEF HelloFields
  <2>7. Dies(e, A2)
    BY <2>1, <2>3, DiesLater DEF Works
  <2> QED BY <2>3, <2>6, <2>7 DEF Outcome
<1> HIDE DEF f, A1, A2, L, g
<1>9. Outcome(e, f, HelloFields) /\ (~Succeeded(f) => f.alert # None \/ f.st = "legacy")
  <2>1. \/ f = A1 \/ f = L
        \/ f = parsed /\ ~Succeeded(parsed)
        \/ f \in {A2, g} /\ Succeeded(parsed)
    BY <1>1
  <2>2. CASE f = A1 \/ f = L
    BY <2>2, <1>6, <1>7, Zenon DEF Outcome
  <2>3. CASE f = parsed /\ ~Succeeded(parsed)
    BY <2>3, <1>4, <1>5, Zenon DEF Outcome, Works
  <2>4. CASE f \in {A2, g} /\ Succeeded(parsed)
    <3>1. CASE f = A2
      BY <2>4, <1>8, <3>1, Zenon
    <3>2. CASE f = g
      BY <2>4, <1>8, <3>2, Zenon DEF Outcome, Works
    <3> QED BY <2>4, <3>1, <3>2
  <2> QED BY <2>1, <2>2, <2>3, <2>4, Zenon
<1> QED BY <1>9, Zenon DEF f

ServerHelloFields == HelloFields \cup EngageFields \cup {"frozen", "hs"}

(* An accepted ServerHello leaves a negotiated row and keys. *)
LEMMA ServerHelloRecv ==
    ASSUME NEW e, NEW m, Ready(e)
    PROVE  LET f == tls13_server_hello_recv(e, m)
           IN  \/ Dies(e, f)
               \/ Works(e, f, ServerHelloFields) /\ Keyed(f) /\ f.hs = e.hs \cup {"NEGOTIATED"}
<1> DEFINE f == tls13_server_hello_recv(e, m)
           done == tls13_server_hello_process(e, m)
           thawed == [done EXCEPT !.frozen = FALSE]
           recorded == IF "WITHOUT_HRR" \in e.hs THEN tls1_transcript_record(thawed, m) ELSE done
           engaged == tls13_client_engage_record_protection(recorded)
           g == [engaged EXCEPT !.hs = @ \cup {"NEGOTIATED"}]
           L == tls13_use_legacy_client(recorded)
           A1 == Abort(recorded)
           A2 == AbortWith(recorded, "illegal_parameter")
           X == {"frozen", "handshake_hash", "transcript"}
<1>1. f = CASE done.alert # None -> done
            [] done.alert = None /\ done.st = "legacy" -> IF "WITHOUT_HRR" \in e.hs THEN L ELSE A1
            [] Succeeded(done) /\ done.hrr -> A2
            [] Succeeded(done) /\ ~done.hrr -> g
  BY Zenon DEF tls13_server_hello_recv
<1>2. /\ Outcome(e, done, HelloFields)
      /\ ~Succeeded(done) => done.alert # None \/ done.st = "legacy"
  BY ServerHelloProcess
<1> HIDE DEF done
<1>3. Shape(done) /\ done.hs \subseteq Flag /\ done.st \in Status
  BY <1>2 DEF Outcome, Dies, Works, Changes, Succeeded, Status
<1>4. Changes(done, recorded, X)
  <2>1. Changes(done, thawed, {"frozen"})
    BY <1>3 DEF Shape, Fields, Changes
  <2> HIDE DEF thawed
  <2>2. Changes(thawed, tls1_transcript_record(thawed, m), {"handshake_hash", "transcript"})
    BY <2>1, Recording DEF Changes
  <2>3. Changes(done, tls1_transcript_record(thawed, m), X)
    BY <2>1, <2>2, ChangesTwice
  <2>4. Changes(done, done, X)
    BY <1>3 DEF Changes
  <2> QED BY <2>3, <2>4, Zenon
<1> HIDE DEF recorded
<1>5. Shape(recorded) /\ recorded.hs = done.hs /\ recorded.st = done.st /\ recorded.alert = done.alert
  BY <1>4 DEF Changes, Fields
<1>6. Dies(e, done) => Dies(e, L) /\ Dies(e, A1)
  <2> SUFFICES ASSUME Dies(e, done) PROVE Dies(e, L) /\ Dies(e, A1)
    OBVIOUS
  <2>1. Changes(recorded, L, {"st"}) /\ L.st = "legacy"
    BY <1>5 DEF Changes, Shape, Fields, tls13_use_legacy_client
  <2>2. Changes(recorded, A1, {"st"}) /\ A1.st = "failed"
    BY <1>3, <1>5, AbortDies
  <2> HIDE DEF L, A1
  <2>3. Dies(e, recorded)
    BY <1>4, <1>5, DiesStill
  <2>4. Dies(e, L)
    BY <2>1, <2>3, DiesStill
  <2>5. Dies(e, A1)
    BY <2>2, <2>3, DiesStill
  <2> QED BY <2>4, <2>5
<1>7. ASSUME Succeeded(done)
      PROVE  /\ Dies(e, A2)
             /\ Works(e, g, ServerHelloFields) /\ Keyed(g) /\ g.hs = e.hs \cup {"NEGOTIATED"}
  <2>1. Works(e, done, HelloFields)
    BY <1>2, <1>7, NotBoth, Zenon DEF Outcome
  <2>2. Ready(done)
    BY <2>1, WorksReady
  <2>3. Works(done, recorded, X)
    BY <2>2, <1>4, WorksBy
  <2>4. Ready(recorded) /\ Works(e, recorded, HelloFields \cup X)
    BY <2>1, <2>3, WorksReady, WorksTwice
  <2>5. Dies(recorded, A2)
    BY <2>4, Alerts, AbortsWith, Zenon
  <2>6. Dies(e, A2)
    <3> HIDE DEF A2
    <3>1. (HelloFields \cup X) \cap {"mode", "cfg", "n", "ccs_seen", "out"} = {}
      BY DEF HelloFields
    <3>2. Changes(e, recorded, HelloFields \cup X)
      BY <2>4 DEF Works
    <3> HIDE DEF X
    <3> QED BY <2>5, <3>1, <3>2, DiesLater
  <2>7. Changes(recorded, engaged, EngageFields) /\ Keyed(engaged)
    BY <1>5, Engages, Zenon DEF tls13_client_engage_record_protection
  <2> HIDE DEF engaged
  <2>8. Works(recorded, engaged, EngageFields) /\ engaged.hs = recorded.hs
    BY <2>4, <2>7, WorksBy DEF EngageFields
  <2>9. Changes(engaged, g, {"hs"}) /\ g.hs = engaged.hs \cup {"NEGOTIATED"}
    BY <2>7 DEF Changes, Shape, Fields
  <2> HIDE DEF g
  <2>10. g.hs = e.hs \cup {"NEGOTIATED"} /\ g.hs \subseteq Flag
    <3>1. done.hs = e.hs
      BY <2>1 DEF Works, Changes, Fields, HelloFields
    <3> QED BY <3>1, <2>2, <2>8, <2>9, <1>5 DEF Ready, Flag
  <2>11. Works(engaged, g, {"hs"})
    BY <2>8, <2>9, <2>10 DEF Works, Succeeded, Changes, Fields
  <2>12. Keyed(g)
    <3>1. g.handshake_traffic = engaged.handshake_traffic /\ g.shared = engaged.shared /\ g.cipher = engaged.cipher
      BY <2>9 DEF Changes, Fields
    <3>2. TrafficKeys(g, "handshake", engaged.handshake_traffic["server"].context)
            = TrafficKeys(engaged, "handshake", engaged.handshake_traffic["server"].context)
      BY <3>1, SameTrafficKeys
    <3> QED BY <2>7, <3>1, <3>2, Zenon DEF Keyed
  <2>13. Works(recorded, g, EngageFields \cup {"hs"})
    BY <2>8, <2>11, WorksTwice
  <2>14. Works(e, g, ServerHelloFields)
    <3>1. HelloFields \cup X \subseteq ServerHelloFields /\ EngageFields \cup {"hs"} \subseteq ServerHelloFields
      BY DEF ServerHelloFields, EngageFields
    <3> HIDE DEF X
    <3> QED BY <3>1, <2>4, <2>13, WorksTwice
  <2> QED BY <2>6, <2>10, <2>12, <2>14, Zenon
<1> HIDE DEF f, L, A1, A2, g
<1>8. \/ Dies(e, f)
      \/ Works(e, f, ServerHelloFields) /\ Keyed(f) /\ f.hs = e.hs \cup {"NEGOTIATED"}
  <2>1. CASE Succeeded(done)
    <3>1. done.alert = None /\ done.st = "run"
      BY <2>1 DEF Succeeded
    <3>2. f = A2 \/ f = g
      BY <1>1, <2>1, <3>1
    <3> QED BY <2>1, <3>2, <1>7, Zenon
  <2>2. CASE ~Succeeded(done)
    <3>1. Dies(e, done)
      BY <1>2, <2>2, Zenon DEF Outcome, Works
    <3>2. f = done \/ f = L \/ f = A1
      BY <1>1, <1>2, <2>2
    <3> QED BY <3>1, <3>2, <1>6, Zenon
  <2> QED BY <2>1, <2>2
<1> QED BY <1>8, Zenon DEF f

(* The ClientHello becomes a message_hash. *)
LEMMA Synthetic ==
    ASSUME NEW e, Shape(e)
    PROVE  Changes(e, tls13_synthetic_handshake_message(e), {"handshake_hash", "transcript", "frozen"})
<1> DEFINE X == {"handshake_hash", "transcript", "frozen"}
           s == tls13_synthetic_handshake_message(e)
           a == tls1_transcript_hash_init(e)
           b == tls1_transcript_reset(a)
           msg == [type |-> "message_hash", hash |-> a.handshake_hash]
<1>1. s = tls1_transcript_record(b, msg)
  BY Zenon DEF tls13_synthetic_handshake_message
<1>2. Changes(e, a, {"handshake_hash"})
  BY DEF Changes, Shape, Fields, tls1_transcript_hash_init
<1> HIDE DEF a
<1>3. Changes(a, b, {"transcript", "frozen"})
  BY <1>2 DEF Changes, Shape, Fields, tls1_transcript_reset
<1> HIDE DEF b, msg, s
<1>4. Changes(b, s, {"handshake_hash", "transcript"})
  BY <1>1, <1>3, Recording DEF Changes
<1>5. Changes(e, b, X)
  BY <1>2, <1>3, ChangesTwice
<1>6. Changes(e, s, X)
  BY <1>4, <1>5, ChangesTwice
<1> QED BY <1>6, Zenon DEF s

(* Instead of the retry request there may be the ServerHello itself. *)
LEMMA RetryRequestRecv ==
    ASSUME NEW e, NEW m, Ready(e)
    PROVE  LET f == tls13_server_hello_retry_request_recv(e, m)
           IN  \/ Dies(e, f)
               \/ Works(e, f, ServerHelloFields) /\ f.hs = e.hs
               \/ /\ Works(e, f, ServerHelloFields) /\ Keyed(f)
                  /\ f.hs = (e.hs \cup {"WITHOUT_HRR"}) \cup {"NEGOTIATED"}
<1> DEFINE f == tls13_server_hello_retry_request_recv(e, m)
           done == tls13_server_hello_process(e, m)
           i == [e EXCEPT !.hs = @ \cup {"WITHOUT_HRR"}]
           h == tls13_server_hello_recv(i, m)
           L == tls13_use_legacy_client(done)
           s == tls13_synthetic_handshake_message(done)
           r == tls1_transcript_record(s, m)
           g == [r EXCEPT !.hrr = FALSE]
           X == {"handshake_hash", "transcript", "frozen"}
<1>1. f = IF ~tls13_server_hello_is_retry(m) THEN h
          ELSE CASE done.alert # None -> done
                 [] done.alert = None /\ done.st = "legacy" -> L
                 [] Succeeded(done) -> g
  BY Zenon DEF tls13_server_hello_retry_request_recv
<1>2. /\ Outcome(e, done, HelloFields)
      /\ ~Succeeded(done) => done.alert # None \/ done.st = "legacy"
  BY ServerHelloProcess
<1> HIDE DEF done
<1>3. Shape(done)
  BY <1>2 DEF Outcome, Dies, Works, Changes
<1>4. Dies(e, done) => Dies(e, L)
  <2>1. Changes(done, L, {"st"}) /\ L.st = "legacy"
    BY <1>3 DEF Changes, Shape, Fields, tls13_use_legacy_client
  <2> HIDE DEF L
  <2> QED BY <2>1, DiesStill
<1>5. ASSUME Succeeded(done)
      PROVE  Works(e, g, ServerHelloFields) /\ g.hs = e.hs
  <2>1. Works(e, done, HelloFields) /\ Ready(done)
    BY <1>2, <1>5, NotBoth, WorksReady, Zenon DEF Outcome
  <2>2. Changes(done, s, X)
    BY <1>3, Synthetic
  <2> HIDE DEF s
  <2>3. Changes(s, r, {"handshake_hash", "transcript"})
    BY <2>2, Recording DEF Changes
  <2> HIDE DEF r
  <2>4. Changes(r, g, {"hrr"})
    BY <2>3 DEF Changes, Shape, Fields
  <2> HIDE DEF g
  <2>5. Changes(done, r, X)
    BY <2>2, <2>3, ChangesTwice
  <2>6. Changes(done, g, X \cup {"hrr"})
    BY <2>4, <2>5, ChangesTwice
  <2>7. Works(done, g, X \cup {"hrr"}) /\ g.hs = done.hs
    BY <2>1, <2>6, WorksBy
  <2>8. Works(e, g, ServerHelloFields)
    <3>1. HelloFields \subseteq ServerHelloFields /\ X \cup {"hrr"} \subseteq ServerHelloFields
      BY DEF ServerHelloFields, EngageFields, HelloFields
    <3> HIDE DEF X
    <3> QED BY <3>1, <2>1, <2>7, WorksTwice
  <2>9. done.hs = e.hs
    BY <2>1 DEF Works, Changes, Fields, HelloFields
  <2> QED BY <2>7, <2>8, <2>9
<1>6. Works(e, i, {"hs"}) /\ i.hs = e.hs \cup {"WITHOUT_HRR"} /\ Ready(i)
  <2>1. Changes(e, i, {"hs"}) /\ i.hs = e.hs \cup {"WITHOUT_HRR"}
    BY DEF Ready, Shape, Fields, Changes
  <2> HIDE DEF i
  <2>2. Works(e, i, {"hs"})
    BY <2>1 DEF Works, Ready, Succeeded, Changes, Fields, Flag
  <2> QED BY <2>1, <2>2, WorksReady
<1> HIDE DEF i
<1>7. \/ Dies(i, h)
      \/ Works(i, h, ServerHelloFields) /\ Keyed(h) /\ h.hs = i.hs \cup {"NEGOTIATED"}
  BY <1>6, ServerHelloRecv
<1> HIDE DEF f, h, L, g
<1>8. Dies(i, h) => Dies(e, h)
  BY <1>6, DiesLater DEF Works
<1>9. Works(i, h, ServerHelloFields) => Works(e, h, ServerHelloFields)
  <2>1. {"hs"} \subseteq ServerHelloFields
    BY DEF ServerHelloFields
  <2> QED BY <2>1, <1>6, WorksTwice
<1>10. \/ Dies(e, f)
       \/ Works(e, f, ServerHelloFields) /\ f.hs = e.hs
       \/ /\ Works(e, f, ServerHelloFields) /\ Keyed(f)
          /\ f.hs = (e.hs \cup {"WITHOUT_HRR"}) \cup {"NEGOTIATED"}
  <2>1. CASE f = h
    BY <2>1, <1>6, <1>7, <1>8, <1>9, Zenon
  <2>2. CASE Succeeded(done) /\ f # h
    <3>1. done.alert = None /\ done.st = "run"
      BY <2>2 DEF Succeeded
    <3>2. f = g
      BY <1>1, <2>2, <3>1
    <3> QED BY <2>2, <3>2, <1>5, Zenon
  <2>3. CASE ~Succeeded(done) /\ f # h
    <3>1. Dies(e, done)
      BY <1>2, <2>3, Zenon DEF Outcome, Works
    <3>2. f = done \/ f = L
      BY <1>1, <1>2, <2>3
    <3> QED BY <3>1, <3>2, <1>4, Zenon
  <2> QED BY <2>1, <2>2, <2>3
<1> QED BY <1>10, Zenon DEF f
-----------------------------------------------------------------------------
(* The entries of state_machine. *)

Entry(mt, type, sender, send_hash, recv_hash) ==
    /\ state_machine[mt].type = type /\ state_machine[mt].sender = sender
    /\ state_machine[mt].send_hash = send_hash /\ state_machine[mt].recv_hash = recv_hash

(* The entries of state_machine. *)
LEMMA Entries ==
    /\ MessageType = Names
    /\ Entry("CLIENT_HELLO", "client_hello", "client", FALSE, FALSE)
    /\ Entry("CLIENT_HELLO_RETRY", "client_hello", "client", FALSE, FALSE)
    /\ Entry("CLIENT_CERTIFICATE", "certificate", "client", TRUE, FALSE)
    /\ Entry("CLIENT_CERTIFICATE_VERIFY", "certificate_verify", "client", FALSE, TRUE)
    /\ Entry("CLIENT_FINISHED", "finished", "client", FALSE, TRUE)
    /\ Entry("SERVER_HELLO", "server_hello", "server", FALSE, FALSE)
    /\ Entry("SERVER_HELLO_RETRY_REQUEST", "server_hello", "server", FALSE, FALSE)
    /\ Entry("SERVER_ENCRYPTED_EXTENSIONS", "encrypted_extensions", "server", FALSE, FALSE)
    /\ Entry("SERVER_CERTIFICATE", "certificate", "server", TRUE, FALSE)
    /\ Entry("SERVER_CERTIFICATE_REQUEST", "certificate_request", "server", FALSE, FALSE)
    /\ Entry("SERVER_CERTIFICATE_VERIFY", "certificate_verify", "server", FALSE, TRUE)
    /\ Entry("SERVER_FINISHED", "finished", "server", TRUE, TRUE)
    /\ Entry("APPLICATION_DATA", "application_data", "none", FALSE, FALSE)
<1>1. MessageType = Names
  BY DEF MessageType, state_machine, Names
<1>2. Entry("CLIENT_HELLO", "client_hello", "client", FALSE, FALSE)
  BY DEF Entry, state_machine, Attributes
<1>3. Entry("CLIENT_HELLO_RETRY", "client_hello", "client", FALSE, FALSE)
  BY DEF Entry, state_machine, Attributes
<1>4. Entry("CLIENT_CERTIFICATE", "certificate", "client", TRUE, FALSE)
  BY DEF Entry, state_machine, Attributes
<1>5. Entry("CLIENT_CERTIFICATE_VERIFY", "certificate_verify", "client", FALSE, TRUE)
  BY DEF Entry, state_machine, Attributes
<1>6. Entry("CLIENT_FINISHED", "finished", "client", FALSE, TRUE)
  BY DEF Entry, state_machine, Attributes
<1>7. Entry("SERVER_HELLO", "server_hello", "server", FALSE, FALSE)
  BY DEF Entry, state_machine, Attributes
<1>8. Entry("SERVER_HELLO_RETRY_REQUEST", "server_hello", "server", FALSE, FALSE)
  BY DEF Entry, state_machine, Attributes
<1>9. Entry("SERVER_ENCRYPTED_EXTENSIONS", "encrypted_extensions", "server", FALSE, FALSE)
  BY DEF Entry, state_machine, Attributes
<1>10. Entry("SERVER_CERTIFICATE", "certificate", "server", TRUE, FALSE)
  BY DEF Entry, state_machine, Attributes
<1>11. Entry("SERVER_CERTIFICATE_REQUEST", "certificate_request", "server", FALSE, FALSE)
  BY DEF Entry, state_machine, Attributes
<1>12. Entry("SERVER_CERTIFICATE_VERIFY", "certificate_verify", "server", FALSE, TRUE)
  BY DEF Entry, state_machine, Attributes
<1>13. Entry("SERVER_FINISHED", "finished", "server", TRUE, TRUE)
  BY DEF Entry, state_machine, Attributes
<1>14. Entry("APPLICATION_DATA", "application_data", "none", FALSE, FALSE)
  BY DEF Entry, state_machine, Attributes
<1> QED BY <1>1, <1>2, <1>3, <1>4, <1>5, <1>6, <1>7, <1>8, <1>9, <1>10, <1>11, <1>12, <1>13, <1>14, Zenon

-----------------------------------------------------------------------------
(* A step of an endpoint. *)

(* The position moves by at most one, and the past is what it was. *)
Moves(e, f) == f.n \in {e.n, e.n + 1} /\ Agrees(e.hs, f.hs, e.n)

(* What a Finished message rests on is not changed once it is sent. *)
Late(e, f) ==
    /\ e.mode = "server" /\ Active(e) \in AfterServerFinished =>
          /\ Active(f) \in AfterServerFinished
          /\ f.write = e.write /\ f.application_traffic = e.application_traffic
          /\ f.handshake_traffic = e.handshake_traffic /\ f.cipher = e.cipher /\ f.shared = e.shared
    /\ e.mode = "client" /\ Active(e) = "APPLICATION_DATA" =>
          /\ Active(f) = "APPLICATION_DATA" /\ f.handshake_hash = e.handshake_hash
          /\ f.handshake_traffic = e.handshake_traffic

Steady(e, f) ==
    /\ f.mode = e.mode /\ f.cfg = e.cfg
    /\ Alive(f) => Alive(e) /\ Moves(e, f) /\ Late(e, f)

Writes(e, f) == f.out = e.out \/ \E rec : Sound(f, rec) /\ f.out = Append(e.out, rec)

Result(e, f, o) == Typed(f) /\ Steady(e, f) /\ (Alive(f) => Living(f, o)) /\ Writes(e, f)

(* One more element at the end of a sequence. *)
LEMMA IsSeqAppend ==
    ASSUME NEW q, NEW x, IsSeq(q)
    PROVE  /\ IsSeq(Append(q, x)) /\ Len(Append(q, x)) = Len(q) + 1
           /\ Append(q, x)[Len(q) + 1] = x /\ \A i \in 1 .. Len(q) : Append(q, x)[i] = q[i]
<1> DEFINE S == ToSet(q) \cup {x}
<1>1. q \in Seq(S)
  BY DEF IsSeq
<1>2. PICK z : z = Append(q, x)
  OBVIOUS
<1>3. z \in Seq(S) /\ Len(z) = Len(q) + 1 /\ z[Len(q) + 1] = x /\ \A i \in 1 .. Len(q) : z[i] = q[i]
  BY <1>1, <1>2
<1>4. z \in Seq(ToSet(z))
  BY <1>3 DEF ToSet
<1> QED BY <1>2, <1>3, <1>4 DEF IsSeq

(* An endpoint that has given up owes nothing but its type. *)
LEMMA Dead ==
    ASSUME NEW e, NEW f, NEW o, Typed(e), Dies(e, f)
    PROVE  Result(e, f, o)
<1>1. IsSeq(f.out) /\ Writes(e, f)
  <2>1. CASE f.out = e.out
    BY <2>1 DEF Typed, Writes
  <2>2. CASE f.out # e.out
    <3>1. PICK rec : Harmless(rec) /\ f.out = Append(e.out, rec)
      BY <2>2, Zenon DEF Dies
    <3>2. IsSeq(e.out)
      BY DEF Typed
    <3>4. IsSeq(f.out)
      BY <3>1, <3>2, IsSeqAppend
    <3>3. Sound(f, rec)
      BY <3>1 DEF Harmless, Sound, Carries, Content
    <3> QED BY <3>1, <3>3, <3>4, Zenon DEF Writes
  <2> QED BY <2>1, <2>2
<1>2. Typed(f)
  <2>1. f.cfg = e.cfg /\ f.mode = e.mode /\ f.n = e.n /\ f.ccs_seen = e.ccs_seen /\ Shape(f) /\ f.hs \subseteq Flag /\ f.st \in Status /\ f.st # "completed"
    BY Zenon DEF Dies
  <2> QED BY <1>1, <2>1, Zenon DEF Typed
<1>3. Steady(e, f) /\ ~Alive(f)
  BY Zenon DEF Dies, Steady
<1> QED BY <1>1, <1>2, <1>3, Zenon DEF Result

RecordFields == {"transcript_hash", "handshake_hash", "transcript"}

(* What tls13_handshake_recv_action does before it calls the handler. *)
LEMMA Prelude ==
    ASSUME NEW e, NEW m, NEW mt, Ready(e)
    PROVE  LET hash == state_machine[mt].recv_hash
               p == IF hash THEN tls1_transcript_hash_preserve(e) ELSE e
               r == tls1_transcript_record(p, m)
           IN  \/ Dies(e, p)
               \/ /\ Succeeded(p) /\ Works(e, r, RecordFields)
                  /\ r.handshake_hash = Hashed(e.handshake_hash, Digest(m)) /\ r.hs = e.hs
                  /\ hash => r.transcript_hash = e.handshake_hash /\ e.handshake_hash # None
<1> DEFINE hash == state_machine[mt].recv_hash
           p == IF hash THEN tls1_transcript_hash_preserve(e) ELSE e
           k == [e EXCEPT !.transcript_hash = e.handshake_hash]
           r == tls1_transcript_record(p, m)
<1>1. /\ p = Abort(e) \/ p = k \/ p = e
      /\ hash => p = Abort(e) \/ (p = k /\ e.handshake_hash # None)
  BY Zenon DEF tls1_transcript_hash_preserve
<1>2. Changes(e, k, {"transcript_hash"}) /\ k.transcript_hash = e.handshake_hash
  BY DEF Ready, Changes, Shape, Fields
<1>3. Changes(e, e, {"transcript_hash"})
  BY DEF Ready, Changes
<1>4. Dies(e, Abort(e))
  BY AbortDies, ReadyFacts, Zenon
<1> HIDE DEF k, p, hash
<1>5. CASE p = Abort(e)
  BY <1>4, <1>5, Zenon DEF p, hash
<1>6. CASE p # Abort(e)
  <2>1. Changes(e, p, {"transcript_hash"}) /\ (hash => p.transcript_hash = e.handshake_hash /\ e.handshake_hash # None)
    BY <1>1, <1>2, <1>3, <1>6
  <2>2. Changes(p, r, {"handshake_hash", "transcript"}) /\ r.handshake_hash = Hashed(p.handshake_hash, Digest(m))
    BY <2>1, Recording DEF Changes
  <2> HIDE DEF r
  <2>3. p.handshake_hash = e.handshake_hash /\ r.transcript_hash = p.transcript_hash
    BY <2>1, <2>2 DEF Changes, Fields
  <2>4. Works(e, p, {"transcript_hash"})
    BY <2>1, WorksBy
  <2>5. Changes(e, r, RecordFields)
    BY <2>1, <2>2, ChangesTwice DEF RecordFields
  <2>6. Works(e, r, RecordFields) /\ r.hs = e.hs
    BY <2>5, WorksBy DEF RecordFields
  <2>7. Succeeded(p)
    BY <2>4 DEF Works
  <2> QED BY <2>1, <2>2, <2>3, <2>6, <2>7, Zenon DEF p, r, hash
<1> QED BY <1>5, <1>6

(* tls13_handshake_advance_state_machine moves by one or gives up. *)
LEMMA Advances ==
    ASSUME NEW e, Ready(e), e.n \in 0 .. TLS13_NUM_MESSAGE_TYPES - 1
    PROVE  LET f == tls13_handshake_advance_state_machine(e)
           IN  \/ Dies(e, f)
               \/ /\ Works(e, f, {"n"}) /\ f.n = e.n + 1 /\ f.hs = e.hs
                  /\ f.n \in 0 .. TLS13_NUM_MESSAGE_TYPES - 1
<1> DEFINE f == tls13_handshake_advance_state_machine(e)
           g == [e EXCEPT !.n = @ + 1]
<1>1. f = Abort(e) \/ (f = g /\ ~(e.n + 1 >= TLS13_NUM_MESSAGE_TYPES))
  BY Zenon DEF tls13_handshake_advance_state_machine
<1>2. Dies(e, Abort(e))
  BY AbortDies, ReadyFacts, Zenon
<1>3. Changes(e, g, {"n"}) /\ g.n = e.n + 1
  BY DEF Ready, Changes, Shape, Fields
<1> HIDE DEF g, f
<1>4. Works(e, g, {"n"}) /\ g.hs = e.hs
  BY <1>3, WorksBy
<1>5. ~(e.n + 1 >= TLS13_NUM_MESSAGE_TYPES) => e.n + 1 \in 0 .. TLS13_NUM_MESSAGE_TYPES - 1
  BY DEF TLS13_NUM_MESSAGE_TYPES
<1>6. \/ Dies(e, f)
      \/ /\ Works(e, f, {"n"}) /\ f.n = e.n + 1 /\ f.hs = e.hs
         /\ f.n \in 0 .. TLS13_NUM_MESSAGE_TYPES - 1
  BY <1>1, <1>2, <1>3, <1>4, <1>5, Zenon
<1> QED BY <1>6, Zenon DEF f

(* The next position. *)
LEMMA Position ==
    ASSUME NEW e, NEW f, NEW b, e.n \in Nat, Switch(e.hs, e.n, f.hs, b), f.n = e.n + 1
    PROVE  f.hs \in Rows /\ Moves(e, f) /\ Follow(f.hs, b, Active(f))
  BY Follows DEF Switch, Moves, Active

(* Keys stay the keys of the shared secret while none of the three changes. *)
LEMMA KeyedSame ==
    ASSUME NEW e, NEW f, Keyed(e), f.handshake_traffic = e.handshake_traffic,
           f.shared = e.shared, f.cipher = e.cipher
    PROVE  Keyed(f)
<1> DEFINE c == e.handshake_traffic["server"].context
<1>1. TrafficKeys(f, "handshake", c) = TrafficKeys(e, "handshake", c)
  BY SameTrafficKeys
<1> QED BY <1>1, Zenon DEF Keyed

(* An endpoint that does not send next has nothing to write. *)
LEMMA Idle ==
    ASSUME NEW e, NEW o, Living(e, o), ~SendsNext(e)
    PROVE  e.hs_msg = None /\ e.wrec = None /\ ~e.send_dummy_ccs_after
  BY DEF Living, Pending, Fits

(* message_number is a natural number. *)
LEMMA PositionTyped ==
    ASSUME NEW e, Typed(e)
    PROVE  e.n \in Nat
  BY DEF Typed, TLS13_NUM_MESSAGE_TYPES

-----------------------------------------------------------------------------
(* The messages received, one by one: the endpoint f that has handled the    *)
(* message and advanced knows what Inv says it knows at its new place.       *)

(* The ClientHello. *)
LEMMA RecvClientHello ==
    ASSUME NEW e, NEW f, NEW o, Typed(e), Succeeded(e), Living(e, o),
           e.mode = "server", Active(e) = "CLIENT_HELLO", Works(e, f, RecordFields \cup RecvHelloFields \cup {"n"}), f.n = e.n + 1,
           f.hs \in {e.hs, e.hs \cup {"NEGOTIATED", "WITHOUT_HRR"}}
    PROVE  Living(f, o) /\ Steady(e, f)
<1>1. /\ f.mode = e.mode /\ f.cfg = e.cfg /\ f.st = e.st
      /\ f.alert = e.alert /\ f.hs_msg = e.hs_msg /\ f.wrec = e.wrec
      /\ f.send_dummy_ccs_after = e.send_dummy_ccs_after /\ f.write = e.write /\ f.read = e.read
      /\ f.application_traffic = e.application_traffic /\ f.handshake_traffic = e.handshake_traffic /\ f.shared = e.shared
      /\ f.peer_cert = e.peer_cert /\ f.peer_proved = e.peer_proved
  BY DEF Works, Changes, Fields, RecordFields, RecvHelloFields, ProcessFields
<1>2. e.hs_msg = None /\ e.wrec = None /\ ~e.send_dummy_ccs_after
  <2>1. ~SendsNext(e)
    BY Entries DEF SendsNext, Entry
  <2> QED BY <2>1, Idle
<1>3. Placed(e) /\ e.hs \in Rows /\ Engaged(e) /\ e.n \in Nat /\ e.st = "run" /\ e.alert = None
  BY PositionTyped DEF Living, Placed, Succeeded
<1>4. e.hs = {} /\ Switch(e.hs, e.n, f.hs, "CLIENT_HELLO")
  <2>1. e.hs = {}
    BY <1>3 DEF Placed, Hellos
  <2>2. CASE f.hs = e.hs
    BY <2>1, <2>2, <1>3, SwitchSame DEF Active
  <2>3. CASE f.hs = e.hs \cup {"NEGOTIATED", "WITHOUT_HRR"}
    <3>1. Switch(e.hs, e.n, e.hs \cup {"NEGOTIATED", "WITHOUT_HRR"}, "CLIENT_HELLO")
      BY <2>1, <1>3, SwitchDirect, Zenon DEF Active
    <3> QED BY <2>1, <2>3, <3>1, Zenon
  <2> QED BY <2>1, <2>2, <2>3
<1>5. f.hs \in Rows /\ Moves(e, f) /\ (\/ (f.hs = {} /\ Active(f) = "SERVER_HELLO_RETRY_REQUEST")
                                        \/ (f.hs = {"NEGOTIATED", "WITHOUT_HRR"} /\ Active(f) = "SERVER_HELLO"))
  BY <1>3, <1>4, Position DEF Follow
<1>6. Placed(f)
  BY <1>1, <1>2, <1>3, <1>5, Entries DEF Placed, HelloSent, Hellos, AfterServerFinished, AfterServerVerify, AfterServerCertificate, Names
<1>7. Pending(f)
  BY <1>1, <1>2 DEF Pending
<1>8. Engaged(f)
  BY <1>1, <1>2, <1>3, <1>5, KeyedSame DEF Engaged, HelloSent, Hellos
<1>9. ClientSeen(f, o)
  BY <1>1, <1>2, <1>3, <1>5 DEF Living, Placed, ClientSeen, HelloSent, Hellos, AfterServerFinished, AfterServerVerify, AfterServerCertificate, Names
<1>10. ClientAgreed(f, o)
  BY <1>1, <1>3, <1>5 DEF Living, ClientAgreed, ServerDone, Hellos, AfterServerFinished, AfterServerVerify, AfterServerCertificate, Names
<1>11. Late(e, f)
  BY <1>1, <1>5 DEF Late, Hellos, AfterServerFinished, AfterServerVerify, AfterServerCertificate, Names
<1>12. Alive(e)
  BY <1>3 DEF Alive
<1> QED BY <1>1, <1>5, <1>6, <1>7, <1>8, <1>9, <1>10, <1>11, <1>12 DEF Living, Steady

(* The second ClientHello. *)
LEMMA RecvClientHelloRetry ==
    ASSUME NEW e, NEW f, NEW o, Typed(e), Succeeded(e), Living(e, o),
           e.mode = "server", Active(e) = "CLIENT_HELLO_RETRY", Works(e, f, RecordFields \cup RecvHelloFields \cup {"n"}), f.n = e.n + 1,
           f.hs = e.hs
    PROVE  Living(f, o) /\ Steady(e, f)
<1>1. /\ f.mode = e.mode /\ f.cfg = e.cfg /\ f.st = e.st
      /\ f.alert = e.alert /\ f.hs_msg = e.hs_msg /\ f.wrec = e.wrec
      /\ f.send_dummy_ccs_after = e.send_dummy_ccs_after /\ f.write = e.write /\ f.read = e.read
      /\ f.application_traffic = e.application_traffic /\ f.handshake_traffic = e.handshake_traffic /\ f.shared = e.shared
      /\ f.peer_cert = e.peer_cert /\ f.peer_proved = e.peer_proved
  BY DEF Works, Changes, Fields, RecordFields, RecvHelloFields, ProcessFields
<1>2. e.hs_msg = None /\ e.wrec = None /\ ~e.send_dummy_ccs_after
  <2>1. ~SendsNext(e)
    BY Entries DEF SendsNext, Entry
  <2> QED BY <2>1, Idle
<1>3. Placed(e) /\ e.hs \in Rows /\ Engaged(e) /\ e.n \in Nat /\ e.st = "run" /\ e.alert = None
  BY PositionTyped DEF Living, Placed, Succeeded
<1>4. f.hs = {} /\ Switch(e.hs, e.n, f.hs, "CLIENT_HELLO_RETRY")
  BY <1>3, SwitchSame DEF Active, Placed, Hellos
<1>5. f.hs \in Rows /\ Moves(e, f) /\ (f.hs = {} /\ Active(f) = "SERVER_HELLO")
  BY <1>3, <1>4, Position DEF Follow
<1>6. Placed(f)
  BY <1>1, <1>2, <1>3, <1>5, Entries DEF Placed, HelloSent, Hellos, AfterServerFinished, AfterServerVerify, AfterServerCertificate, Names
<1>7. Pending(f)
  BY <1>1, <1>2 DEF Pending
<1>8. Engaged(f)
  BY <1>1, <1>2, <1>3, <1>5, KeyedSame DEF Engaged, HelloSent, Hellos
<1>9. ClientSeen(f, o)
  BY <1>1, <1>2, <1>3, <1>5 DEF Living, Placed, ClientSeen, HelloSent, Hellos, AfterServerFinished, AfterServerVerify, AfterServerCertificate, Names
<1>10. ClientAgreed(f, o)
  BY <1>1, <1>3, <1>5 DEF Living, ClientAgreed, ServerDone, Hellos, AfterServerFinished, AfterServerVerify, AfterServerCertificate, Names
<1>11. Late(e, f)
  BY <1>1, <1>5 DEF Late, Hellos, AfterServerFinished, AfterServerVerify, AfterServerCertificate, Names
<1>12. Alive(e)
  BY <1>3 DEF Alive
<1> QED BY <1>1, <1>5, <1>6, <1>7, <1>8, <1>9, <1>10, <1>11, <1>12 DEF Living, Steady

(* The Certificate of the client. *)
LEMMA RecvClientCertificate ==
    ASSUME NEW e, NEW f, NEW o, Typed(e), Succeeded(e), Living(e, o),
           e.mode = "server", Active(e) = "CLIENT_CERTIFICATE", Works(e, f, RecordFields \cup {"peer_cert", "hs", "n"}), f.n = e.n + 1,
           \/ f.peer_cert = e.peer_cert /\ f.hs = e.hs /\ e.cfg.verify # "require"
           \/ f.peer_cert = "good" /\ o.cfg.cert = "good" /\ f.hs = e.hs \cup {"WITH_CCV"}
    PROVE  Living(f, o) /\ Steady(e, f)
<1>1. /\ f.mode = e.mode /\ f.cfg = e.cfg /\ f.st = e.st
      /\ f.alert = e.alert /\ f.hs_msg = e.hs_msg /\ f.wrec = e.wrec
      /\ f.send_dummy_ccs_after = e.send_dummy_ccs_after /\ f.write = e.write /\ f.read = e.read
      /\ f.application_traffic = e.application_traffic /\ f.handshake_traffic = e.handshake_traffic /\ f.shared = e.shared
      /\ f.cipher = e.cipher /\ f.peer_proved = e.peer_proved
  BY DEF Works, Changes, Fields, RecordFields
<1>2. e.hs_msg = None /\ e.wrec = None /\ ~e.send_dummy_ccs_after
  <2>1. ~SendsNext(e)
    BY Entries DEF SendsNext, Entry
  <2> QED BY <2>1, Idle
<1>3. Placed(e) /\ e.hs \in Rows /\ Engaged(e) /\ e.n \in Nat /\ e.st = "run" /\ e.alert = None
  BY PositionTyped DEF Living, Placed, Succeeded
<1>4. Switch(e.hs, e.n, f.hs, "CLIENT_CERTIFICATE")
  BY <1>3, SwitchSame, SwitchVerify DEF Active
<1>5. f.hs \in Rows /\ Moves(e, f) /\ ("WITHOUT_CR" \notin f.hs /\ Active(f) = IF "WITH_CCV" \in f.hs THEN "CLIENT_CERTIFICATE_VERIFY" ELSE "CLIENT_FINISHED")
  BY <1>3, <1>4, Position DEF Follow
<1>6. Placed(f)
  BY <1>1, <1>2, <1>3, <1>5, Entries DEF Placed, HelloSent, Hellos, AfterServerFinished, AfterServerVerify, AfterServerCertificate, Names
<1>7. Pending(f)
  BY <1>1, <1>2 DEF Pending
<1>8. Engaged(f)
  BY <1>1, <1>2, <1>3, <1>5, KeyedSame DEF Engaged, HelloSent, Hellos
<1>9. ClientSeen(f, o)
  BY <1>1, <1>2, <1>3, <1>5 DEF Living, Placed, ClientSeen, HelloSent, Hellos, AfterServerFinished, AfterServerVerify, AfterServerCertificate, Names
<1>10. ClientAgreed(f, o)
  BY <1>1, <1>3, <1>5 DEF Living, ClientAgreed, ServerDone, Hellos, AfterServerFinished, AfterServerVerify, AfterServerCertificate, Names
<1>11. Late(e, f)
  BY <1>1, <1>5 DEF Late, Hellos, AfterServerFinished, AfterServerVerify, AfterServerCertificate, Names
<1>12. Alive(e)
  BY <1>3 DEF Alive
<1> QED BY <1>1, <1>5, <1>6, <1>7, <1>8, <1>9, <1>10, <1>11, <1>12 DEF Living, Steady

(* The CertificateVerify of the client. *)
LEMMA RecvClientCertificateVerify ==
    ASSUME NEW e, NEW f, NEW o, Typed(e), Succeeded(e), Living(e, o),
           e.mode = "server", Active(e) = "CLIENT_CERTIFICATE_VERIFY", Works(e, f, RecordFields \cup {"peer_proved", "n"}), f.n = e.n + 1,
           f.peer_proved
    PROVE  Living(f, o) /\ Steady(e, f)
<1>1. /\ f.mode = e.mode /\ f.cfg = e.cfg /\ f.st = e.st
      /\ f.alert = e.alert /\ f.hs_msg = e.hs_msg /\ f.wrec = e.wrec
      /\ f.send_dummy_ccs_after = e.send_dummy_ccs_after /\ f.write = e.write /\ f.read = e.read
      /\ f.application_traffic = e.application_traffic /\ f.handshake_traffic = e.handshake_traffic /\ f.shared = e.shared
      /\ f.cipher = e.cipher /\ f.peer_cert = e.peer_cert /\ f.hs = e.hs
  BY DEF Works, Changes, Fields, RecordFields
<1>2. e.hs_msg = None /\ e.wrec = None /\ ~e.send_dummy_ccs_after
  <2>1. ~SendsNext(e)
    BY Entries DEF SendsNext, Entry
  <2> QED BY <2>1, Idle
<1>3. Placed(e) /\ e.hs \in Rows /\ Engaged(e) /\ e.n \in Nat /\ e.st = "run" /\ e.alert = None
  BY PositionTyped DEF Living, Placed, Succeeded
<1>4. Switch(e.hs, e.n, f.hs, Active(e))
  BY <1>1, <1>3, SwitchSame DEF Active
<1>5. f.hs \in Rows /\ Moves(e, f) /\ (Active(f) = "CLIENT_FINISHED")
  BY <1>3, <1>4, Position DEF Follow
<1>6. Placed(f)
  BY <1>1, <1>2, <1>3, <1>5, Entries DEF Placed, HelloSent, Hellos, AfterServerFinished, AfterServerVerify, AfterServerCertificate, Names
<1>7. Pending(f)
  BY <1>1, <1>2 DEF Pending
<1>8. Engaged(f)
  BY <1>1, <1>2, <1>3, <1>5, KeyedSame DEF Engaged, HelloSent, Hellos
<1>9. ClientSeen(f, o)
  BY <1>1, <1>2, <1>3, <1>5 DEF Living, Placed, ClientSeen, HelloSent, Hellos, AfterServerFinished, AfterServerVerify, AfterServerCertificate, Names
<1>10. ClientAgreed(f, o)
  BY <1>1, <1>3, <1>5 DEF Living, ClientAgreed, ServerDone, Hellos, AfterServerFinished, AfterServerVerify, AfterServerCertificate, Names
<1>11. Late(e, f)
  BY <1>1, <1>5 DEF Late, Hellos, AfterServerFinished, AfterServerVerify, AfterServerCertificate, Names
<1>12. Alive(e)
  BY <1>3 DEF Alive
<1> QED BY <1>1, <1>5, <1>6, <1>7, <1>8, <1>9, <1>10, <1>11, <1>12 DEF Living, Steady

(* The Finished of the client. *)
LEMMA RecvClientFinished ==
    ASSUME NEW e, NEW f, NEW o, Typed(e), Succeeded(e), Living(e, o),
           e.mode = "server", Active(e) = "CLIENT_FINISHED", Works(e, f, RecordFields \cup {"read", "ccs_allowed", "n"}), f.n = e.n + 1,
           f.read = f.application_traffic["client"],
           Alive(o) => Active(o) = "APPLICATION_DATA" /\ f.handshake_hash = o.handshake_hash
    PROVE  Living(f, o) /\ Steady(e, f)
<1>1. /\ f.mode = e.mode /\ f.cfg = e.cfg /\ f.st = e.st
      /\ f.alert = e.alert /\ f.hs_msg = e.hs_msg /\ f.wrec = e.wrec
      /\ f.send_dummy_ccs_after = e.send_dummy_ccs_after /\ f.write = e.write /\ f.application_traffic = e.application_traffic
      /\ f.handshake_traffic = e.handshake_traffic /\ f.shared = e.shared /\ f.cipher = e.cipher
      /\ f.peer_cert = e.peer_cert /\ f.peer_proved = e.peer_proved /\ f.hs = e.hs
  BY DEF Works, Changes, Fields, RecordFields
<1>2. e.hs_msg = None /\ e.wrec = None /\ ~e.send_dummy_ccs_after
  <2>1. ~SendsNext(e)
    BY Entries DEF SendsNext, Entry
  <2> QED BY <2>1, Idle
<1>3. Placed(e) /\ e.hs \in Rows /\ Engaged(e) /\ e.n \in Nat /\ e.st = "run" /\ e.alert = None
  BY PositionTyped DEF Living, Placed, Succeeded
<1>4. Switch(e.hs, e.n, f.hs, Active(e))
  BY <1>1, <1>3, SwitchSame DEF Active
<1>5. f.hs \in Rows /\ Moves(e, f) /\ (Active(f) = "APPLICATION_DATA")
  BY <1>3, <1>4, Position DEF Follow
<1>6. Placed(f)
  BY <1>1, <1>2, <1>3, <1>5, Entries DEF Placed, HelloSent, Hellos, AfterServerFinished, AfterServerVerify, AfterServerCertificate, Names
<1>7. Pending(f)
  BY <1>1, <1>2 DEF Pending
<1>8. Engaged(f)
  BY <1>1, <1>2, <1>3, <1>5, KeyedSame DEF Engaged, HelloSent, Hellos
<1>9. ClientSeen(f, o)
  BY <1>1, <1>2, <1>3, <1>5 DEF Living, Placed, ClientSeen, HelloSent, Hellos, AfterServerFinished, AfterServerVerify, AfterServerCertificate, Names
<1>10. ClientAgreed(f, o)
  BY <1>1, <1>3, <1>5 DEF Living, ClientAgreed, ServerDone, Hellos, AfterServerFinished, AfterServerVerify, AfterServerCertificate, Names
<1>11. Late(e, f)
  BY <1>1, <1>5 DEF Late, Hellos, AfterServerFinished, AfterServerVerify, AfterServerCertificate, Names
<1>12. Alive(e)
  BY <1>3 DEF Alive
<1> QED BY <1>1, <1>5, <1>6, <1>7, <1>8, <1>9, <1>10, <1>11, <1>12 DEF Living, Steady

(* A HelloRetryRequest. *)
LEMMA RecvRetryRequest ==
    ASSUME NEW e, NEW f, NEW o, Typed(e), Succeeded(e), Living(e, o),
           e.mode = "client", Active(e) = "SERVER_HELLO_RETRY_REQUEST", Works(e, f, RecordFields \cup ServerHelloFields \cup {"n"}), f.n = e.n + 1,
           f.hs = e.hs
    PROVE  Living(f, o) /\ Steady(e, f)
<1>1. /\ f.mode = e.mode /\ f.cfg = e.cfg /\ f.st = e.st
      /\ f.alert = e.alert /\ f.hs_msg = e.hs_msg /\ f.wrec = e.wrec
      /\ f.send_dummy_ccs_after = e.send_dummy_ccs_after /\ f.application_traffic = e.application_traffic /\ f.peer_cert = e.peer_cert
      /\ f.peer_proved = e.peer_proved
  BY DEF Works, Changes, Fields, RecordFields, ServerHelloFields, HelloFields, EngageFields
<1>2. e.hs_msg = None /\ e.wrec = None /\ ~e.send_dummy_ccs_after
  <2>1. ~SendsNext(e)
    BY Entries DEF SendsNext, Entry
  <2> QED BY <2>1, Idle
<1>3. Placed(e) /\ e.hs \in Rows /\ Engaged(e) /\ e.n \in Nat /\ e.st = "run" /\ e.alert = None
  BY PositionTyped DEF Living, Placed, Succeeded
<1>4. f.hs = {} /\ Switch(e.hs, e.n, f.hs, "SERVER_HELLO_RETRY_REQUEST")
  BY <1>3, SwitchSame DEF Active, Placed, Hellos
<1>5. f.hs \in Rows /\ Moves(e, f) /\ (f.hs = {} /\ Active(f) = "CLIENT_HELLO_RETRY")
  BY <1>3, <1>4, Position DEF Follow
<1>6. Placed(f)
  BY <1>1, <1>2, <1>3, <1>5, Entries DEF Placed, HelloSent, Hellos, AfterServerFinished, AfterServerVerify, AfterServerCertificate, Names
<1>7. Pending(f)
  BY <1>1, <1>2 DEF Pending
<1>8. Engaged(f)
  BY <1>1, <1>2, <1>3, <1>5, KeyedSame DEF Engaged, HelloSent, Hellos
<1>9. ServerSeen(f, o)
  BY <1>1, <1>3, <1>5 DEF Living, ServerSeen, Hellos, AfterServerFinished, AfterServerVerify, AfterServerCertificate, Names
<1>10. ServerAgreed(f, o)
  BY <1>1, <1>3, <1>5 DEF Living, ServerAgreed, Hellos, AfterServerFinished, AfterServerVerify, AfterServerCertificate, Names
<1>11. Late(e, f)
  BY <1>1, <1>5 DEF Late, Hellos, AfterServerFinished, AfterServerVerify, AfterServerCertificate, Names
<1>12. Alive(e)
  BY <1>3 DEF Alive
<1> QED BY <1>1, <1>5, <1>6, <1>7, <1>8, <1>9, <1>10, <1>11, <1>12 DEF Living, Steady

(* A ServerHello without a retry. *)
LEMMA RecvFirstServerHello ==
    ASSUME NEW e, NEW f, NEW o, Typed(e), Succeeded(e), Living(e, o),
           e.mode = "client", Active(e) = "SERVER_HELLO_RETRY_REQUEST", Works(e, f, RecordFields \cup ServerHelloFields \cup {"n"}), f.n = e.n + 1,
           Keyed(f),
           f.hs = (e.hs \cup {"WITHOUT_HRR"}) \cup {"NEGOTIATED"}
    PROVE  Living(f, o) /\ Steady(e, f)
<1>1. /\ f.mode = e.mode /\ f.cfg = e.cfg /\ f.st = e.st
      /\ f.alert = e.alert /\ f.hs_msg = e.hs_msg /\ f.wrec = e.wrec
      /\ f.send_dummy_ccs_after = e.send_dummy_ccs_after /\ f.application_traffic = e.application_traffic /\ f.peer_cert = e.peer_cert
      /\ f.peer_proved = e.peer_proved
  BY DEF Works, Changes, Fields, RecordFields, ServerHelloFields, HelloFields, EngageFields
<1>2. e.hs_msg = None /\ e.wrec = None /\ ~e.send_dummy_ccs_after
  <2>1. ~SendsNext(e)
    BY Entries DEF SendsNext, Entry
  <2> QED BY <2>1, Idle
<1>3. Placed(e) /\ e.hs \in Rows /\ Engaged(e) /\ e.n \in Nat /\ e.st = "run" /\ e.alert = None
  BY PositionTyped DEF Living, Placed, Succeeded
<1>4. f.hs # {} /\ "WITH_CCV" \notin f.hs /\ Switch(e.hs, e.n, f.hs, "SERVER_HELLO")
  <2>1. e.hs = {}
    BY <1>3 DEF Placed, Hellos
  <2> QED BY <1>3, <2>1, SwitchDirect, ZenonT(40) DEF Active
<1>5. f.hs \in Rows /\ Moves(e, f) /\ (f.hs # {} /\ "WITH_CCV" \notin f.hs /\ Active(f) = "SERVER_ENCRYPTED_EXTENSIONS")
  BY <1>3, <1>4, Position DEF Follow
<1>6. Placed(f)
  BY <1>1, <1>2, <1>3, <1>5, Entries DEF Placed, HelloSent, Hellos, AfterServerFinished, AfterServerVerify, AfterServerCertificate, Names
<1>7. Pending(f)
  BY <1>1, <1>2 DEF Pending
<1>8. Engaged(f)
  BY <1>1, <1>2, <1>3, <1>5, KeyedSame DEF Engaged, HelloSent, Hellos
<1>9. ServerSeen(f, o)
  BY <1>1, <1>3, <1>5 DEF Living, ServerSeen, Hellos, AfterServerFinished, AfterServerVerify, AfterServerCertificate, Names
<1>10. ServerAgreed(f, o)
  BY <1>1, <1>3, <1>5 DEF Living, ServerAgreed, Hellos, AfterServerFinished, AfterServerVerify, AfterServerCertificate, Names
<1>11. Late(e, f)
  BY <1>1, <1>5 DEF Late, Hellos, AfterServerFinished, AfterServerVerify, AfterServerCertificate, Names
<1>12. Alive(e)
  BY <1>3 DEF Alive
<1> QED BY <1>1, <1>5, <1>6, <1>7, <1>8, <1>9, <1>10, <1>11, <1>12 DEF Living, Steady

(* The ServerHello after a retry. *)
LEMMA RecvServerHello ==
    ASSUME NEW e, NEW f, NEW o, Typed(e), Succeeded(e), Living(e, o),
           e.mode = "client", Active(e) = "SERVER_HELLO", Works(e, f, RecordFields \cup ServerHelloFields \cup {"n"}), f.n = e.n + 1,
           Keyed(f),
           f.hs = e.hs \cup {"NEGOTIATED"}
    PROVE  Living(f, o) /\ Steady(e, f)
<1>1. /\ f.mode = e.mode /\ f.cfg = e.cfg /\ f.st = e.st
      /\ f.alert = e.alert /\ f.hs_msg = e.hs_msg /\ f.wrec = e.wrec
      /\ f.send_dummy_ccs_after = e.send_dummy_ccs_after /\ f.application_traffic = e.application_traffic /\ f.peer_cert = e.peer_cert
      /\ f.peer_proved = e.peer_proved
  BY DEF Works, Changes, Fields, RecordFields, ServerHelloFields, HelloFields, EngageFields
<1>2. e.hs_msg = None /\ e.wrec = None /\ ~e.send_dummy_ccs_after
  <2>1. ~SendsNext(e)
    BY Entries DEF SendsNext, Entry
  <2> QED BY <2>1, Idle
<1>3. Placed(e) /\ e.hs \in Rows /\ Engaged(e) /\ e.n \in Nat /\ e.st = "run" /\ e.alert = None
  BY PositionTyped DEF Living, Placed, Succeeded
<1>4. f.hs # {} /\ "WITH_CCV" \notin f.hs /\ Switch(e.hs, e.n, f.hs, "SERVER_HELLO")
  <2>1. e.hs = {}
    BY <1>3 DEF Placed
  <2> QED BY <1>3, <2>1, SwitchServerHello DEF Active
<1>5. f.hs \in Rows /\ Moves(e, f) /\ (f.hs # {} /\ "WITH_CCV" \notin f.hs /\ Active(f) = "SERVER_ENCRYPTED_EXTENSIONS")
  BY <1>3, <1>4, Position DEF Follow
<1>6. Placed(f)
  BY <1>1, <1>2, <1>3, <1>5, Entries DEF Placed, HelloSent, Hellos, AfterServerFinished, AfterServerVerify, AfterServerCertificate, Names
<1>7. Pending(f)
  BY <1>1, <1>2 DEF Pending
<1>8. Engaged(f)
  BY <1>1, <1>2, <1>3, <1>5, KeyedSame DEF Engaged, HelloSent, Hellos
<1>9. ServerSeen(f, o)
  BY <1>1, <1>3, <1>5 DEF Living, ServerSeen, Hellos, AfterServerFinished, AfterServerVerify, AfterServerCertificate, Names
<1>10. ServerAgreed(f, o)
  BY <1>1, <1>3, <1>5 DEF Living, ServerAgreed, Hellos, AfterServerFinished, AfterServerVerify, AfterServerCertificate, Names
<1>11. Late(e, f)
  BY <1>1, <1>5 DEF Late, Hellos, AfterServerFinished, AfterServerVerify, AfterServerCertificate, Names
<1>12. Alive(e)
  BY <1>3 DEF Alive
<1> QED BY <1>1, <1>5, <1>6, <1>7, <1>8, <1>9, <1>10, <1>11, <1>12 DEF Living, Steady

(* The EncryptedExtensions. *)
LEMMA RecvEncryptedExtensions ==
    ASSUME NEW e, NEW f, NEW o, Typed(e), Succeeded(e), Living(e, o),
           e.mode = "client", Active(e) = "SERVER_ENCRYPTED_EXTENSIONS", Works(e, f, RecordFields \cup {"n"}), f.n = e.n + 1
    PROVE  Living(f, o) /\ Steady(e, f)
<1>1. /\ f.mode = e.mode /\ f.cfg = e.cfg /\ f.st = e.st
      /\ f.alert = e.alert /\ f.hs_msg = e.hs_msg /\ f.wrec = e.wrec
      /\ f.send_dummy_ccs_after = e.send_dummy_ccs_after /\ f.write = e.write /\ f.read = e.read
      /\ f.application_traffic = e.application_traffic /\ f.handshake_traffic = e.handshake_traffic /\ f.shared = e.shared
      /\ f.cipher = e.cipher /\ f.peer_cert = e.peer_cert /\ f.peer_proved = e.peer_proved
      /\ f.hs = e.hs
  BY DEF Works, Changes, Fields, RecordFields
<1>2. e.hs_msg = None /\ e.wrec = None /\ ~e.send_dummy_ccs_after
  <2>1. ~SendsNext(e)
    BY Entries DEF SendsNext, Entry
  <2> QED BY <2>1, Idle
<1>3. Placed(e) /\ e.hs \in Rows /\ Engaged(e) /\ e.n \in Nat /\ e.st = "run" /\ e.alert = None
  BY PositionTyped DEF Living, Placed, Succeeded
<1>4. Switch(e.hs, e.n, f.hs, Active(e))
  BY <1>1, <1>3, SwitchSame DEF Active
<1>5. f.hs \in Rows /\ Moves(e, f) /\ (Active(f) \in {"SERVER_CERTIFICATE_REQUEST", "SERVER_CERTIFICATE"})
  BY <1>3, <1>4, Position DEF Follow
<1>6. Placed(f)
  BY <1>1, <1>2, <1>3, <1>5, Entries DEF Placed, HelloSent, Hellos, AfterServerFinished, AfterServerVerify, AfterServerCertificate, Names
<1>7. Pending(f)
  BY <1>1, <1>2 DEF Pending
<1>8. Engaged(f)
  BY <1>1, <1>2, <1>3, <1>5, KeyedSame DEF Engaged, HelloSent, Hellos
<1>9. ServerSeen(f, o)
  BY <1>1, <1>3, <1>5 DEF Living, ServerSeen, Hellos, AfterServerFinished, AfterServerVerify, AfterServerCertificate, Names
<1>10. ServerAgreed(f, o)
  BY <1>1, <1>3, <1>5 DEF Living, ServerAgreed, Hellos, AfterServerFinished, AfterServerVerify, AfterServerCertificate, Names
<1>11. Late(e, f)
  BY <1>1, <1>5 DEF Late, Hellos, AfterServerFinished, AfterServerVerify, AfterServerCertificate, Names
<1>12. Alive(e)
  BY <1>3 DEF Alive
<1> QED BY <1>1, <1>5, <1>6, <1>7, <1>8, <1>9, <1>10, <1>11, <1>12 DEF Living, Steady

(* A CertificateRequest. *)
LEMMA RecvCertificateRequest ==
    ASSUME NEW e, NEW f, NEW o, Typed(e), Succeeded(e), Living(e, o),
           e.mode = "client", Active(e) = "SERVER_CERTIFICATE_REQUEST", Works(e, f, RecordFields \cup {"n"}), f.n = e.n + 1
    PROVE  Living(f, o) /\ Steady(e, f)
<1>1. /\ f.mode = e.mode /\ f.cfg = e.cfg /\ f.st = e.st
      /\ f.alert = e.alert /\ f.hs_msg = e.hs_msg /\ f.wrec = e.wrec
      /\ f.send_dummy_ccs_after = e.send_dummy_ccs_after /\ f.write = e.write /\ f.read = e.read
      /\ f.application_traffic = e.application_traffic /\ f.handshake_traffic = e.handshake_traffic /\ f.shared = e.shared
      /\ f.cipher = e.cipher /\ f.peer_cert = e.peer_cert /\ f.peer_proved = e.peer_proved
      /\ f.hs = e.hs
  BY DEF Works, Changes, Fields, RecordFields
<1>2. e.hs_msg = None /\ e.wrec = None /\ ~e.send_dummy_ccs_after
  <2>1. ~SendsNext(e)
    BY Entries DEF SendsNext, Entry
  <2> QED BY <2>1, Idle
<1>3. Placed(e) /\ e.hs \in Rows /\ Engaged(e) /\ e.n \in Nat /\ e.st = "run" /\ e.alert = None
  BY PositionTyped DEF Living, Placed, Succeeded
<1>4. Switch(e.hs, e.n, f.hs, Active(e))
  BY <1>1, <1>3, SwitchSame DEF Active
<1>5. f.hs \in Rows /\ Moves(e, f) /\ (Active(f) = "SERVER_CERTIFICATE")
  BY <1>3, <1>4, Position DEF Follow
<1>6. Placed(f)
  BY <1>1, <1>2, <1>3, <1>5, Entries DEF Placed, HelloSent, Hellos, AfterServerFinished, AfterServerVerify, AfterServerCertificate, Names
<1>7. Pending(f)
  BY <1>1, <1>2 DEF Pending
<1>8. Engaged(f)
  BY <1>1, <1>2, <1>3, <1>5, KeyedSame DEF Engaged, HelloSent, Hellos
<1>9. ServerSeen(f, o)
  BY <1>1, <1>3, <1>5 DEF Living, ServerSeen, Hellos, AfterServerFinished, AfterServerVerify, AfterServerCertificate, Names
<1>10. ServerAgreed(f, o)
  BY <1>1, <1>3, <1>5 DEF Living, ServerAgreed, Hellos, AfterServerFinished, AfterServerVerify, AfterServerCertificate, Names
<1>11. Late(e, f)
  BY <1>1, <1>5 DEF Late, Hellos, AfterServerFinished, AfterServerVerify, AfterServerCertificate, Names
<1>12. Alive(e)
  BY <1>3 DEF Alive
<1> QED BY <1>1, <1>5, <1>6, <1>7, <1>8, <1>9, <1>10, <1>11, <1>12 DEF Living, Steady

(* A Certificate in its place. *)
LEMMA RecvNoCertificateRequest ==
    ASSUME NEW e, NEW f, NEW o, Typed(e), Succeeded(e), Living(e, o),
           e.mode = "client", Active(e) = "SERVER_CERTIFICATE_REQUEST", Works(e, f, RecordFields \cup {"peer_cert", "hs", "n"}), f.n = e.n + 1,
           f.peer_cert = o.cfg.cert,
           o.cfg.cert # None,
           e.cfg.verify # "none" => o.cfg.cert = "good",
           f.hs = e.hs \cup {"WITHOUT_CR"}
    PROVE  Living(f, o) /\ Steady(e, f)
<1>1. /\ f.mode = e.mode /\ f.cfg = e.cfg /\ f.st = e.st
      /\ f.alert = e.alert /\ f.hs_msg = e.hs_msg /\ f.wrec = e.wrec
      /\ f.send_dummy_ccs_after = e.send_dummy_ccs_after /\ f.write = e.write /\ f.read = e.read
      /\ f.application_traffic = e.application_traffic /\ f.handshake_traffic = e.handshake_traffic /\ f.shared = e.shared
      /\ f.cipher = e.cipher /\ f.peer_proved = e.peer_proved
  BY DEF Works, Changes, Fields, RecordFields
<1>2. e.hs_msg = None /\ e.wrec = None /\ ~e.send_dummy_ccs_after
  <2>1. ~SendsNext(e)
    BY Entries DEF SendsNext, Entry
  <2> QED BY <2>1, Idle
<1>3. Placed(e) /\ e.hs \in Rows /\ Engaged(e) /\ e.n \in Nat /\ e.st = "run" /\ e.alert = None
  BY PositionTyped DEF Living, Placed, Succeeded
<1>4. "WITH_CCV" \notin f.hs /\ Switch(e.hs, e.n, f.hs, "SERVER_CERTIFICATE")
  <2>1. "WITH_CCV" \notin e.hs
    BY <1>3 DEF Placed, AfterServerFinished
  <2> QED BY <1>3, <2>1, SwitchNoRequest DEF Active
<1>5. f.hs \in Rows /\ Moves(e, f) /\ ("WITH_CCV" \notin f.hs /\ Active(f) = "SERVER_CERTIFICATE_VERIFY")
  BY <1>3, <1>4, Position DEF Follow
<1>6. Placed(f)
  BY <1>1, <1>2, <1>3, <1>5, Entries DEF Placed, HelloSent, Hellos, AfterServerFinished, AfterServerVerify, AfterServerCertificate, Names
<1>7. Pending(f)
  BY <1>1, <1>2 DEF Pending
<1>8. Engaged(f)
  BY <1>1, <1>2, <1>3, <1>5, KeyedSame DEF Engaged, HelloSent, Hellos
<1>9. ServerSeen(f, o)
  BY <1>1, <1>3, <1>5 DEF Living, ServerSeen, Hellos, AfterServerFinished, AfterServerVerify, AfterServerCertificate, Names
<1>10. ServerAgreed(f, o)
  BY <1>1, <1>3, <1>5 DEF Living, ServerAgreed, Hellos, AfterServerFinished, AfterServerVerify, AfterServerCertificate, Names
<1>11. Late(e, f)
  BY <1>1, <1>5 DEF Late, Hellos, AfterServerFinished, AfterServerVerify, AfterServerCertificate, Names
<1>12. Alive(e)
  BY <1>3 DEF Alive
<1> QED BY <1>1, <1>5, <1>6, <1>7, <1>8, <1>9, <1>10, <1>11, <1>12 DEF Living, Steady

(* The Certificate of the server. *)
LEMMA RecvServerCertificate ==
    ASSUME NEW e, NEW f, NEW o, Typed(e), Succeeded(e), Living(e, o),
           e.mode = "client", Active(e) = "SERVER_CERTIFICATE", Works(e, f, RecordFields \cup {"peer_cert", "n"}), f.n = e.n + 1,
           f.peer_cert = o.cfg.cert,
           o.cfg.cert # None,
           e.cfg.verify # "none" => o.cfg.cert = "good"
    PROVE  Living(f, o) /\ Steady(e, f)
<1>1. /\ f.mode = e.mode /\ f.cfg = e.cfg /\ f.st = e.st
      /\ f.alert = e.alert /\ f.hs_msg = e.hs_msg /\ f.wrec = e.wrec
      /\ f.send_dummy_ccs_after = e.send_dummy_ccs_after /\ f.write = e.write /\ f.read = e.read
      /\ f.application_traffic = e.application_traffic /\ f.handshake_traffic = e.handshake_traffic /\ f.shared = e.shared
      /\ f.cipher = e.cipher /\ f.peer_proved = e.peer_proved /\ f.hs = e.hs
  BY DEF Works, Changes, Fields, RecordFields
<1>2. e.hs_msg = None /\ e.wrec = None /\ ~e.send_dummy_ccs_after
  <2>1. ~SendsNext(e)
    BY Entries DEF SendsNext, Entry
  <2> QED BY <2>1, Idle
<1>3. Placed(e) /\ e.hs \in Rows /\ Engaged(e) /\ e.n \in Nat /\ e.st = "run" /\ e.alert = None
  BY PositionTyped DEF Living, Placed, Succeeded
<1>4. Switch(e.hs, e.n, f.hs, Active(e))
  BY <1>1, <1>3, SwitchSame DEF Active
<1>5. f.hs \in Rows /\ Moves(e, f) /\ (Active(f) = "SERVER_CERTIFICATE_VERIFY")
  BY <1>3, <1>4, Position DEF Follow
<1>6. Placed(f)
  BY <1>1, <1>2, <1>3, <1>5, Entries DEF Placed, HelloSent, Hellos, AfterServerFinished, AfterServerVerify, AfterServerCertificate, Names
<1>7. Pending(f)
  BY <1>1, <1>2 DEF Pending
<1>8. Engaged(f)
  BY <1>1, <1>2, <1>3, <1>5, KeyedSame DEF Engaged, HelloSent, Hellos
<1>9. ServerSeen(f, o)
  BY <1>1, <1>3, <1>5 DEF Living, ServerSeen, Hellos, AfterServerFinished, AfterServerVerify, AfterServerCertificate, Names
<1>10. ServerAgreed(f, o)
  BY <1>1, <1>3, <1>5 DEF Living, ServerAgreed, Hellos, AfterServerFinished, AfterServerVerify, AfterServerCertificate, Names
<1>11. Late(e, f)
  BY <1>1, <1>5 DEF Late, Hellos, AfterServerFinished, AfterServerVerify, AfterServerCertificate, Names
<1>12. Alive(e)
  BY <1>3 DEF Alive
<1> QED BY <1>1, <1>5, <1>6, <1>7, <1>8, <1>9, <1>10, <1>11, <1>12 DEF Living, Steady

(* The CertificateVerify of the server. *)
LEMMA RecvServerCertificateVerify ==
    ASSUME NEW e, NEW f, NEW o, Typed(e), Succeeded(e), Living(e, o),
           e.mode = "client", Active(e) = "SERVER_CERTIFICATE_VERIFY", Works(e, f, RecordFields \cup {"peer_proved", "n"}), f.n = e.n + 1,
           f.peer_proved
    PROVE  Living(f, o) /\ Steady(e, f)
<1>1. /\ f.mode = e.mode /\ f.cfg = e.cfg /\ f.st = e.st
      /\ f.alert = e.alert /\ f.hs_msg = e.hs_msg /\ f.wrec = e.wrec
      /\ f.send_dummy_ccs_after = e.send_dummy_ccs_after /\ f.write = e.write /\ f.read = e.read
      /\ f.application_traffic = e.application_traffic /\ f.handshake_traffic = e.handshake_traffic /\ f.shared = e.shared
      /\ f.cipher = e.cipher /\ f.peer_cert = e.peer_cert /\ f.hs = e.hs
  BY DEF Works, Changes, Fields, RecordFields
<1>2. e.hs_msg = None /\ e.wrec = None /\ ~e.send_dummy_ccs_after
  <2>1. ~SendsNext(e)
    BY Entries DEF SendsNext, Entry
  <2> QED BY <2>1, Idle
<1>3. Placed(e) /\ e.hs \in Rows /\ Engaged(e) /\ e.n \in Nat /\ e.st = "run" /\ e.alert = None
  BY PositionTyped DEF Living, Placed, Succeeded
<1>4. Switch(e.hs, e.n, f.hs, Active(e))
  BY <1>1, <1>3, SwitchSame DEF Active
<1>5. f.hs \in Rows /\ Moves(e, f) /\ (Active(f) = "SERVER_FINISHED")
  BY <1>3, <1>4, Position DEF Follow
<1>6. Placed(f)
  BY <1>1, <1>2, <1>3, <1>5, Entries DEF Placed, HelloSent, Hellos, AfterServerFinished, AfterServerVerify, AfterServerCertificate, Names
<1>7. Pending(f)
  BY <1>1, <1>2 DEF Pending
<1>8. Engaged(f)
  BY <1>1, <1>2, <1>3, <1>5, KeyedSame DEF Engaged, HelloSent, Hellos
<1>9. ServerSeen(f, o)
  BY <1>1, <1>3, <1>5 DEF Living, ServerSeen, Hellos, AfterServerFinished, AfterServerVerify, AfterServerCertificate, Names
<1>10. ServerAgreed(f, o)
  BY <1>1, <1>3, <1>5 DEF Living, ServerAgreed, Hellos, AfterServerFinished, AfterServerVerify, AfterServerCertificate, Names
<1>11. Late(e, f)
  BY <1>1, <1>5 DEF Late, Hellos, AfterServerFinished, AfterServerVerify, AfterServerCertificate, Names
<1>12. Alive(e)
  BY <1>3 DEF Alive
<1> QED BY <1>1, <1>5, <1>6, <1>7, <1>8, <1>9, <1>10, <1>11, <1>12 DEF Living, Steady

(* The Finished of the server. *)
LEMMA RecvServerFinished ==
    ASSUME NEW e, NEW f, NEW o, Typed(e), Succeeded(e), Living(e, o),
           e.mode = "client", Active(e) = "SERVER_FINISHED", Works(e, f, RecordFields \cup {"application_traffic", "read", "ccs_allowed", "n"}), f.n = e.n + 1,
           f.read = f.application_traffic["server"],
           Alive(o) => ServerDone(o) /\ f.application_traffic = o.application_traffic /\ f.cipher = o.cipher
    PROVE  Living(f, o) /\ Steady(e, f)
<1>1. /\ f.mode = e.mode /\ f.cfg = e.cfg /\ f.st = e.st
      /\ f.alert = e.alert /\ f.hs_msg = e.hs_msg /\ f.wrec = e.wrec
      /\ f.send_dummy_ccs_after = e.send_dummy_ccs_after /\ f.write = e.write /\ f.handshake_traffic = e.handshake_traffic
      /\ f.shared = e.shared /\ f.cipher = e.cipher /\ f.peer_cert = e.peer_cert
      /\ f.peer_proved = e.peer_proved /\ f.hs = e.hs
  BY DEF Works, Changes, Fields, RecordFields
<1>2. e.hs_msg = None /\ e.wrec = None /\ ~e.send_dummy_ccs_after
  <2>1. ~SendsNext(e)
    BY Entries DEF SendsNext, Entry
  <2> QED BY <2>1, Idle
<1>3. Placed(e) /\ e.hs \in Rows /\ Engaged(e) /\ e.n \in Nat /\ e.st = "run" /\ e.alert = None
  BY PositionTyped DEF Living, Placed, Succeeded
<1>4. Switch(e.hs, e.n, f.hs, Active(e))
  BY <1>1, <1>3, SwitchSame DEF Active
<1>5. f.hs \in Rows /\ Moves(e, f) /\ (Active(f) \in {"CLIENT_FINISHED", "CLIENT_CERTIFICATE"})
  BY <1>3, <1>4, Position DEF Follow
<1>6. Placed(f)
  BY <1>1, <1>2, <1>3, <1>5, Entries DEF Placed, HelloSent, Hellos, AfterServerFinished, AfterServerVerify, AfterServerCertificate, Names
<1>7. Pending(f)
  BY <1>1, <1>2 DEF Pending
<1>8. Engaged(f)
  BY <1>1, <1>2, <1>3, <1>5, KeyedSame DEF Engaged, HelloSent, Hellos
<1>9. ServerSeen(f, o)
  BY <1>1, <1>3, <1>5 DEF Living, ServerSeen, Hellos, AfterServerFinished, AfterServerVerify, AfterServerCertificate, Names
<1>10. ServerAgreed(f, o)
  BY <1>1, <1>3, <1>5 DEF Living, ServerAgreed, Hellos, AfterServerFinished, AfterServerVerify, AfterServerCertificate, Names
<1>11. Late(e, f)
  BY <1>1, <1>5 DEF Late, Hellos, AfterServerFinished, AfterServerVerify, AfterServerCertificate, Names
<1>12. Alive(e)
  BY <1>3 DEF Alive
<1> QED BY <1>1, <1>5, <1>6, <1>7, <1>8, <1>9, <1>10, <1>11, <1>12 DEF Living, Steady

-----------------------------------------------------------------------------
(* tls13_handshake_recv_action, one message at a time. *)

(* The handler of each message received. *)
LEMMA RecvHandlers ==
    ASSUME NEW e, NEW m
    PROVE  /\ RecvHandler(e, "CLIENT_HELLO", m) = tls13_client_hello_recv(e, m)
           /\ RecvHandler(e, "CLIENT_HELLO_RETRY", m) = tls13_client_hello_retry_recv(e, m)
           /\ RecvHandler(e, "CLIENT_CERTIFICATE", m) = tls13_client_certificate_recv(e, m)
           /\ RecvHandler(e, "CLIENT_CERTIFICATE_VERIFY", m) = CertificateVerifyRecv(e, m)
           /\ RecvHandler(e, "CLIENT_FINISHED", m) = tls13_client_finished_recv(e, m)
           /\ RecvHandler(e, "SERVER_HELLO", m) = tls13_server_hello_recv(e, m)
           /\ RecvHandler(e, "SERVER_HELLO_RETRY_REQUEST", m) =
                 tls13_server_hello_retry_request_recv(e, m)
           /\ RecvHandler(e, "SERVER_ENCRYPTED_EXTENSIONS", m) = e
           /\ RecvHandler(e, "SERVER_CERTIFICATE", m) = tls13_server_certificate_recv(e, m)
           /\ RecvHandler(e, "SERVER_CERTIFICATE_REQUEST", m) =
                 tls13_server_certificate_request_recv(e, m)
           /\ RecvHandler(e, "SERVER_CERTIFICATE_VERIFY", m) = CertificateVerifyRecv(e, m)
           /\ RecvHandler(e, "SERVER_FINISHED", m) = tls13_server_finished_recv(e, m)
  BY DEF RecvHandler, tls13_client_certificate_verify_recv, tls13_server_certificate_verify_recv

Expected(mt, m) ==
    \/ m.type = state_machine[mt].type
    \/ m.type = "certificate" /\ mt = "SERVER_CERTIFICATE_REQUEST"

(* r is e with the message in the transcript. *)
Recorded(e, r, m, hash) ==
    /\ Works(e, r, RecordFields) /\ r.hs = e.hs
    /\ r.handshake_hash = Hashed(e.handshake_hash, Digest(m))
    /\ hash => r.transcript_hash = e.handshake_hash /\ e.handshake_hash # None

(* The handler has changed r into h, and f has advanced. *)
Accepted(e, r, h, f, m, X) ==
    /\ Recorded(e, r, m, state_machine[Active(e)].recv_hash) /\ Expected(Active(e), m)
    /\ h = RecvHandler(r, Active(e), m) /\ Works(r, h, X)
    /\ Works(h, f, {"n"}) /\ f.n = e.n + 1 /\ f.hs = h.hs /\ f.n \in 0 .. TLS13_NUM_MESSAGE_TYPES - 1

Stable == {"mode", "cfg", "n", "ccs_seen", "out", "st", "alert"}

(* A receive action fails, or records, handles and advances. *)
LEMMA RecvAction ==
    ASSUME NEW e, NEW m, NEW X, Typed(e), Succeeded(e), X \cap Stable = {},
           \A r : Recorded(e, r, m, state_machine[Active(e)].recv_hash) /\ Expected(Active(e), m) =>
                     Outcome(r, RecvHandler(r, Active(e), m), X)
    PROVE  LET f == tls13_handshake_recv_action(e, m)
           IN  Dies(e, f) \/ \E r, h : Accepted(e, r, h, f, m, X)
<1> DEFINE f == tls13_handshake_recv_action(e, m)
           mt == Active(e)
           hash == state_machine[mt].recv_hash
           p == IF hash THEN tls1_transcript_hash_preserve(e) ELSE e
           r == tls1_transcript_record(p, m)
           h == RecvHandler(r, mt, m)
           A == AbortWith(r, "unexpected_message")
           g == tls13_handshake_advance_state_machine(h)
<1>1. f = CASE ~Succeeded(p) -> p
            [] Succeeded(p) /\ ~Expected(mt, m) -> A
            [] Succeeded(p) /\ Expected(mt, m) -> IF Succeeded(h) THEN g ELSE h
  BY Zenon DEF tls13_handshake_recv_action, Expected
<1>0. Ready(e) /\ e.n \in 0 .. TLS13_NUM_MESSAGE_TYPES - 1
  BY DEF Ready, Typed
<1>2. Dies(e, p) \/ (Succeeded(p) /\ Recorded(e, r, m, hash))
  BY <1>0, Prelude, Zenon DEF Recorded
<1> HIDE DEF p, r, hash
<1>3. CASE Dies(e, p)
  <2>1. ~Succeeded(p)
    BY <1>3, NotBoth
  <2>2. f = p
    <3> HIDE DEF f, A, g, h
    <3> QED BY <1>1, <2>1
  <2> QED BY <1>3, <2>2, Zenon
<1>4. CASE Succeeded(p) /\ Recorded(e, r, m, hash) /\ ~Expected(mt, m)
  <2>1. f = A
    <3> HIDE DEF f, A, g, h
    <3> QED BY <1>1, <1>4
  <2>2. Ready(r)
    BY <1>4, WorksReady, Zenon DEF Recorded
  <2>3. Dies(r, A)
    BY <2>2, Alerts, AbortsWith, Zenon
  <2>4. Dies(e, A)
    <3> HIDE DEF A
    <3>1. Changes(e, r, RecordFields)
      BY <1>4 DEF Recorded, Works
    <3>2. RecordFields \cap {"mode", "cfg", "n", "ccs_seen", "out"} = {}
      BY DEF RecordFields
    <3> QED BY <2>3, <3>1, <3>2, DiesLater
  <2> QED BY <2>1, <2>4, Zenon
<1>5. CASE Succeeded(p) /\ Recorded(e, r, m, hash) /\ Expected(mt, m)
  <2>1. f = IF Succeeded(h) THEN g ELSE h
    <3> HIDE DEF f, A, g, h
    <3> QED BY <1>1, <1>5
  <2>2. Outcome(r, h, X)
    BY <1>5, Zenon DEF hash
  <2> HIDE DEF h
  <2>3. Changes(e, r, RecordFields)
    BY <1>5 DEF Recorded, Works
  <2>4. RecordFields \cap {"mode", "cfg", "n", "ccs_seen", "out"} = {}
    BY DEF RecordFields
  <2>5. CASE Dies(r, h)
    <3>1. Dies(e, h)
      BY <2>3, <2>4, <2>5, DiesLater
    <3>2. f = h
      BY <2>1, <2>5, NotBoth, Zenon
    <3> QED BY <3>1, <3>2, Zenon
  <2>6. CASE Works(r, h, X)
    <3>1. Ready(h) /\ f = g
      BY <2>1, <2>6, WorksReady, Zenon DEF Works
    <3>2. h.n = e.n
      BY <2>3, <2>6 DEF Works, Changes, Fields, Stable, RecordFields
    <3>3. \/ Dies(h, g)
          \/ /\ Works(h, g, {"n"}) /\ g.n = h.n + 1 /\ g.hs = h.hs
             /\ g.n \in 0 .. TLS13_NUM_MESSAGE_TYPES - 1
      BY <1>0, <3>1, <3>2, Advances
    <3> HIDE DEF g
    <3>4. CASE Dies(h, g)
      <4>1. Changes(r, h, X) /\ X \cap {"mode", "cfg", "n", "ccs_seen", "out"} = {}
        BY <2>6 DEF Works, Stable
      <4>2. Dies(r, g)
        BY <3>4, <4>1, DiesLater
      <4>3. Dies(e, g)
        BY <2>3, <2>4, <4>2, DiesLater
      <4> QED BY <3>1, <4>3, Zenon
    <3>5. CASE ~Dies(h, g)
      <4>1. Accepted(e, r, h, g, m, X)
        <5>1. h = RecvHandler(r, mt, m)
          BY Zenon DEF h
        <5> QED BY <1>5, <2>6, <3>2, <3>3, <3>5, <5>1, Zenon DEF Accepted, hash
      <4> QED BY <3>1, <4>1, Zenon
    <3> QED BY <3>4, <3>5
  <2> QED BY <2>2, <2>5, <2>6, Zenon DEF Outcome
<1> QED BY <1>2, <1>3, <1>4, <1>5, Zenon

(* What is left to show of a message that was accepted. *)
LEMMA AcceptedResult ==
    ASSUME NEW e, NEW r, NEW h, NEW f, NEW m, NEW o, NEW X, Typed(e), X \cap Stable = {},
           Accepted(e, r, h, f, m, X), Living(f, o), Steady(e, f)
    PROVE  Result(e, f, o)
<1>1. /\ f.mode = e.mode /\ f.cfg = e.cfg /\ f.ccs_seen = e.ccs_seen /\ f.out = e.out
      /\ Shape(f) /\ Succeeded(f) /\ f.hs \subseteq Flag
  BY DEF Accepted, Recorded, Works, Changes, Fields, RecordFields, Stable
<1>2. f.st \in Status /\ f.st # "completed" /\ f.n \in 0 .. TLS13_NUM_MESSAGE_TYPES - 1
  BY <1>1 DEF Succeeded, Status, Accepted
<1>3. Typed(f)
  BY <1>1, <1>2, Zenon DEF Typed
<1> QED BY <1>1, <1>3, Zenon DEF Result, Writes

Within(X, Z) == RecordFields \subseteq Z /\ X \subseteq Z /\ "n" \in Z

(* An accepted message changes the fields of the three parts. *)
LEMMA AcceptedWorks ==
    ASSUME NEW e, NEW r, NEW h, NEW f, NEW m, NEW X, NEW Z, Accepted(e, r, h, f, m, X), Within(X, Z)
    PROVE  /\ Works(e, f, Z) /\ Works(e, r, RecordFields) /\ Works(h, f, {"n"}) /\ Ready(r)
           /\ r.hs = e.hs /\ f.hs = h.hs /\ f.n = e.n + 1
<1>1. Works(e, r, RecordFields) /\ Works(r, h, X) /\ Works(h, f, {"n"}) /\ r.hs = e.hs /\ f.hs = h.hs /\ f.n = e.n + 1
  BY Zenon DEF Accepted, Recorded
<1>2. Works(e, h, Z)
  BY <1>1, WorksTwice DEF Within
<1>3. Works(e, f, Z)
  <2>1. {"n"} \subseteq Z
    BY DEF Within
  <2> QED BY <1>1, <1>2, <2>1, WorksTwice
<1>4. Ready(r)
  BY <1>1, WorksReady, Zenon
<1> QED BY <1>1, <1>3, <1>4, Zenon
(* A server takes a ClientHello. *)
LEMMA TakesClientHello ==
    ASSUME NEW e, NEW o, NEW m, Typed(e), Typed(o), Succeeded(e), Living(e, o), Carries(o, m),
           o.mode = Other(e.mode), Alive(o) => Living(o, e), e.mode = "server", Active(e) = "CLIENT_HELLO"
    PROVE  Result(e, tls13_handshake_recv_action(e, m), o)
<1> DEFINE f == tls13_handshake_recv_action(e, m)
           X == RecvHelloFields
           Z == RecordFields \cup RecvHelloFields \cup {"n"}
<1>0. X \cap Stable = {} /\ Within(X, Z)
  BY DEF Within, Stable, RecordFields, RecvHelloFields, ProcessFields
<1>1. ASSUME NEW r, Recorded(e, r, m, state_machine[Active(e)].recv_hash), Expected(Active(e), m)
      PROVE  Outcome(r, RecvHandler(r, Active(e), m), X)
  <2>1. Ready(r)
    BY <1>1, WorksReady, Zenon DEF Recorded
  <2>2. RecvHandler(r, Active(e), m) = tls13_client_hello_recv(r, m)
    BY RecvHandlers
  <2> HIDE DEF X
  <2>4. Outcome(r, tls13_client_hello_recv(r, m), X)
    BY <2>1, ClientHelloRecv DEF X
  <2> QED BY <2>2, <2>4, Zenon
<1>2. Dies(e, f) \/ \E r, h : Accepted(e, r, h, f, m, X)
  <2> HIDE DEF X
  <2> QED BY <1>0, <1>1, RecvAction
<1> HIDE DEF f
<1>3. CASE Dies(e, f)
  BY <1>3, Dead, Zenon DEF f
<1>4. ASSUME NEW r, NEW h, Accepted(e, r, h, f, m, X)
      PROVE  Result(e, f, o)
  <2>1. /\ Works(e, f, Z) /\ Works(e, r, RecordFields) /\ Works(h, f, {"n"}) /\ Ready(r)
        /\ r.hs = e.hs /\ f.hs = h.hs /\ f.n = e.n + 1
    <3> HIDE DEF X, Z
    <3> QED BY <1>0, <1>4, AcceptedWorks, ZenonT(40)
  <2>2. h = tls13_client_hello_recv(r, m) /\ Succeeded(h) /\ ~Dies(r, h)
    <3>1. h = RecvHandler(r, Active(e), m) /\ Works(r, h, X)
      BY <1>4, Zenon DEF Accepted
    <3>2. h = tls13_client_hello_recv(r, m)
      BY <3>1, RecvHandlers
    <3> QED BY <3>1, <3>2, NotBoth, Zenon DEF Works
  <2>3. /\ r.cfg = e.cfg /\ r.mode = e.mode /\ r.peer_cert = e.peer_cert
        /\ r.handshake_traffic = e.handshake_traffic /\ r.application_traffic = e.application_traffic
        /\ r.cipher = e.cipher /\ r.shared = e.shared
        /\ f.peer_cert = h.peer_cert /\ f.peer_proved = h.peer_proved /\ f.read = h.read
        /\ f.application_traffic = h.application_traffic /\ f.handshake_hash = h.handshake_hash
        /\ f.handshake_traffic = h.handshake_traffic /\ f.cipher = h.cipher /\ f.shared = h.shared
    BY <2>1 DEF Works, Changes, Fields, RecordFields
  <2>4. f.hs \in {e.hs, e.hs \cup {"NEGOTIATED", "WITHOUT_HRR"}}
    BY <2>1, <2>2, ClientHelloRecv, Zenon
  <2>20. Living(f, o) /\ Steady(e, f)
    <3> HIDE DEF Z
    <3> QED BY <2>1, <2>4, RecvClientHello DEF Z
  <2> HIDE DEF X
  <2> QED BY <1>0, <1>4, <2>20, AcceptedResult
<1> QED BY <1>2, <1>3, <1>4, Zenon DEF f

(* A server takes a second ClientHello. *)
LEMMA TakesClientHelloRetry ==
    ASSUME NEW e, NEW o, NEW m, Typed(e), Typed(o), Succeeded(e), Living(e, o), Carries(o, m),
           o.mode = Other(e.mode), Alive(o) => Living(o, e), e.mode = "server", Active(e) = "CLIENT_HELLO_RETRY"
    PROVE  Result(e, tls13_handshake_recv_action(e, m), o)
<1> DEFINE f == tls13_handshake_recv_action(e, m)
           X == RecvHelloFields
           Z == RecordFields \cup RecvHelloFields \cup {"n"}
<1>0. X \cap Stable = {} /\ Within(X, Z)
  BY DEF Within, Stable, RecordFields, RecvHelloFields, ProcessFields
<1>1. ASSUME NEW r, Recorded(e, r, m, state_machine[Active(e)].recv_hash), Expected(Active(e), m)
      PROVE  Outcome(r, RecvHandler(r, Active(e), m), X)
  <2>1. Ready(r)
    BY <1>1, WorksReady, Zenon DEF Recorded
  <2>2. RecvHandler(r, Active(e), m) = tls13_client_hello_retry_recv(r, m)
    BY RecvHandlers
  <2> HIDE DEF X
  <2>4. Outcome(r, tls13_client_hello_retry_recv(r, m), X)
    BY <2>1, ClientHelloRetryRecv DEF X
  <2> QED BY <2>2, <2>4, Zenon
<1>2. Dies(e, f) \/ \E r, h : Accepted(e, r, h, f, m, X)
  <2> HIDE DEF X
  <2> QED BY <1>0, <1>1, RecvAction
<1> HIDE DEF f
<1>3. CASE Dies(e, f)
  BY <1>3, Dead, Zenon DEF f
<1>4. ASSUME NEW r, NEW h, Accepted(e, r, h, f, m, X)
      PROVE  Result(e, f, o)
  <2>1. /\ Works(e, f, Z) /\ Works(e, r, RecordFields) /\ Works(h, f, {"n"}) /\ Ready(r)
        /\ r.hs = e.hs /\ f.hs = h.hs /\ f.n = e.n + 1
    <3> HIDE DEF X, Z
    <3> QED BY <1>0, <1>4, AcceptedWorks, ZenonT(40)
  <2>2. h = tls13_client_hello_retry_recv(r, m) /\ Succeeded(h) /\ ~Dies(r, h)
    <3>1. h = RecvHandler(r, Active(e), m) /\ Works(r, h, X)
      BY <1>4, Zenon DEF Accepted
    <3>2. h = tls13_client_hello_retry_recv(r, m)
      BY <3>1, RecvHandlers
    <3> QED BY <3>1, <3>2, NotBoth, Zenon DEF Works
  <2>3. /\ r.cfg = e.cfg /\ r.mode = e.mode /\ r.peer_cert = e.peer_cert
        /\ r.handshake_traffic = e.handshake_traffic /\ r.application_traffic = e.application_traffic
        /\ r.cipher = e.cipher /\ r.shared = e.shared
        /\ f.peer_cert = h.peer_cert /\ f.peer_proved = h.peer_proved /\ f.read = h.read
        /\ f.application_traffic = h.application_traffic /\ f.handshake_hash = h.handshake_hash
        /\ f.handshake_traffic = h.handshake_traffic /\ f.cipher = h.cipher /\ f.shared = h.shared
    BY <2>1 DEF Works, Changes, Fields, RecordFields
  <2>4. f.hs = e.hs
    BY <2>1, <2>2, ClientHelloRetryRecv, Zenon
  <2>20. Living(f, o) /\ Steady(e, f)
    <3> HIDE DEF Z
    <3> QED BY <2>1, <2>4, RecvClientHelloRetry DEF Z
  <2> HIDE DEF X
  <2> QED BY <1>0, <1>4, <2>20, AcceptedResult
<1> QED BY <1>2, <1>3, <1>4, Zenon DEF f

(* A server takes the Certificate of the client. *)
LEMMA TakesClientCertificate ==
    ASSUME NEW e, NEW o, NEW m, Typed(e), Typed(o), Succeeded(e), Living(e, o), Carries(o, m),
           o.mode = Other(e.mode), Alive(o) => Living(o, e), e.mode = "server", Active(e) = "CLIENT_CERTIFICATE"
    PROVE  Result(e, tls13_handshake_recv_action(e, m), o)
<1> DEFINE f == tls13_handshake_recv_action(e, m)
           X == {"peer_cert", "hs"}
           Z == RecordFields \cup {"peer_cert", "hs", "n"}
<1>0. X \cap Stable = {} /\ Within(X, Z)
  BY DEF Within, Stable, RecordFields
<1>1. ASSUME NEW r, Recorded(e, r, m, state_machine[Active(e)].recv_hash), Expected(Active(e), m)
      PROVE  Outcome(r, RecvHandler(r, Active(e), m), X)
  <2>1. Ready(r)
    BY <1>1, WorksReady, Zenon DEF Recorded
  <2>2. RecvHandler(r, Active(e), m) = tls13_client_certificate_recv(r, m)
    BY RecvHandlers
  <2>3. m.cert \in {"empty", "bad", "good"}
    <3>1. m.type = "certificate"
      BY <1>1, Entries DEF Expected, Entry
    <3> QED BY <3>1 DEF Carries, Certificate, Typed
  <2>4. Works(r, r, X)
    BY <2>1 DEF Works, Ready, Changes
  <2> QED BY <2>1, <2>2, <2>3, <2>4, ClientCertificateRecv DEF Outcome
<1>2. Dies(e, f) \/ \E r, h : Accepted(e, r, h, f, m, X)
  <2> HIDE DEF X
  <2> QED BY <1>0, <1>1, RecvAction
<1> HIDE DEF f
<1>3. CASE Dies(e, f)
  BY <1>3, Dead, Zenon DEF f
<1>4. ASSUME NEW r, NEW h, Accepted(e, r, h, f, m, X)
      PROVE  Result(e, f, o)
  <2>1. /\ Works(e, f, Z) /\ Works(e, r, RecordFields) /\ Works(h, f, {"n"}) /\ Ready(r)
        /\ r.hs = e.hs /\ f.hs = h.hs /\ f.n = e.n + 1
    <3> HIDE DEF X, Z
    <3> QED BY <1>0, <1>4, AcceptedWorks, ZenonT(40)
  <2>2. h = tls13_client_certificate_recv(r, m) /\ Succeeded(h) /\ ~Dies(r, h)
    <3>1. h = RecvHandler(r, Active(e), m) /\ Works(r, h, X)
      BY <1>4, Zenon DEF Accepted
    <3>2. h = tls13_client_certificate_recv(r, m)
      BY <3>1, RecvHandlers
    <3> QED BY <3>1, <3>2, NotBoth, Zenon DEF Works
  <2>3. /\ r.cfg = e.cfg /\ r.mode = e.mode /\ r.peer_cert = e.peer_cert
        /\ r.handshake_traffic = e.handshake_traffic /\ r.application_traffic = e.application_traffic
        /\ r.cipher = e.cipher /\ r.shared = e.shared
        /\ f.peer_cert = h.peer_cert /\ f.peer_proved = h.peer_proved /\ f.read = h.read
        /\ f.application_traffic = h.application_traffic /\ f.handshake_hash = h.handshake_hash
        /\ f.handshake_traffic = h.handshake_traffic /\ f.cipher = h.cipher /\ f.shared = h.shared
    BY <2>1 DEF Works, Changes, Fields, RecordFields
  <2>4. m.cert \in {"empty", "bad", "good"} /\ (m.cert = "good" => o.cfg.cert = "good")
    <3>1. m.type = "certificate"
      BY <1>4, Entries DEF Accepted, Expected, Entry
    <3> QED BY <3>1 DEF Carries, Certificate, Typed
  <2>5. \/ f.peer_cert = e.peer_cert /\ f.hs = e.hs /\ e.cfg.verify # "require"
        \/ f.peer_cert = "good" /\ o.cfg.cert = "good" /\ f.hs = e.hs \cup {"WITH_CCV"}
    <3>1. \/ h = r /\ m.cert = "empty" /\ r.cfg.verify # "require"
          \/ m.cert = "good" /\ h.peer_cert = "good" /\ h.hs = r.hs \cup {"WITH_CCV"}
      BY <2>1, <2>2, <2>4, ClientCertificateRecv
    <3> QED BY <2>1, <2>3, <2>4, <3>1, Zenon
  <2>20. Living(f, o) /\ Steady(e, f)
    <3> HIDE DEF Z
    <3> QED BY <2>1, <2>4, <2>5, RecvClientCertificate DEF Z
  <2> HIDE DEF X
  <2> QED BY <1>0, <1>4, <2>20, AcceptedResult
<1> QED BY <1>2, <1>3, <1>4, Zenon DEF f

(* A server takes the CertificateVerify of the client. *)
LEMMA TakesClientCertificateVerify ==
    ASSUME NEW e, NEW o, NEW m, Typed(e), Typed(o), Succeeded(e), Living(e, o), Carries(o, m),
           o.mode = Other(e.mode), Alive(o) => Living(o, e), e.mode = "server", Active(e) = "CLIENT_CERTIFICATE_VERIFY"
    PROVE  Result(e, tls13_handshake_recv_action(e, m), o)
<1> DEFINE f == tls13_handshake_recv_action(e, m)
           X == {"peer_proved"}
           Z == RecordFields \cup {"peer_proved", "n"}
<1>0. X \cap Stable = {} /\ Within(X, Z)
  BY DEF Within, Stable, RecordFields
<1>1. ASSUME NEW r, Recorded(e, r, m, state_machine[Active(e)].recv_hash), Expected(Active(e), m)
      PROVE  Outcome(r, RecvHandler(r, Active(e), m), X)
  <2>1. Ready(r)
    BY <1>1, WorksReady, Zenon DEF Recorded
  <2>2. RecvHandler(r, Active(e), m) = CertificateVerifyRecv(r, m)
    BY RecvHandlers
  <2>4. Outcome(r, CertificateVerifyRecv(r, m), X)
    BY <2>1, VerifyRecv DEF Outcome
  <2> QED BY <2>2, <2>4, Zenon
<1>2. Dies(e, f) \/ \E r, h : Accepted(e, r, h, f, m, X)
  <2> HIDE DEF X
  <2> QED BY <1>0, <1>1, RecvAction
<1> HIDE DEF f
<1>3. CASE Dies(e, f)
  BY <1>3, Dead, Zenon DEF f
<1>4. ASSUME NEW r, NEW h, Accepted(e, r, h, f, m, X)
      PROVE  Result(e, f, o)
  <2>1. /\ Works(e, f, Z) /\ Works(e, r, RecordFields) /\ Works(h, f, {"n"}) /\ Ready(r)
        /\ r.hs = e.hs /\ f.hs = h.hs /\ f.n = e.n + 1
    <3> HIDE DEF X, Z
    <3> QED BY <1>0, <1>4, AcceptedWorks, ZenonT(40)
  <2>2. h = CertificateVerifyRecv(r, m) /\ Succeeded(h) /\ ~Dies(r, h)
    <3>1. h = RecvHandler(r, Active(e), m) /\ Works(r, h, X)
      BY <1>4, Zenon DEF Accepted
    <3>2. h = CertificateVerifyRecv(r, m)
      BY <3>1, RecvHandlers
    <3> QED BY <3>1, <3>2, NotBoth, Zenon DEF Works
  <2>3. /\ r.cfg = e.cfg /\ r.mode = e.mode /\ r.peer_cert = e.peer_cert
        /\ r.handshake_traffic = e.handshake_traffic /\ r.application_traffic = e.application_traffic
        /\ r.cipher = e.cipher /\ r.shared = e.shared
        /\ f.peer_cert = h.peer_cert /\ f.peer_proved = h.peer_proved /\ f.read = h.read
        /\ f.application_traffic = h.application_traffic /\ f.handshake_hash = h.handshake_hash
        /\ f.handshake_traffic = h.handshake_traffic /\ f.cipher = h.cipher /\ f.shared = h.shared
    BY <2>1 DEF Works, Changes, Fields, RecordFields
  <2>4. f.peer_proved
    <3>1. h.peer_proved
      BY <2>1, <2>2, VerifyRecv
    <3> QED BY <2>3, <3>1, Zenon
  <2>20. Living(f, o) /\ Steady(e, f)
    <3> HIDE DEF Z
    <3> QED BY <2>1, <2>4, RecvClientCertificateVerify DEF Z
  <2> HIDE DEF X
  <2> QED BY <1>0, <1>4, <2>20, AcceptedResult
<1> QED BY <1>2, <1>3, <1>4, Zenon DEF f

(* A server takes the Finished of the client. *)
LEMMA TakesClientFinished ==
    ASSUME NEW e, NEW o, NEW m, Typed(e), Typed(o), Succeeded(e), Living(e, o), Carries(o, m),
           o.mode = Other(e.mode), Alive(o) => Living(o, e), e.mode = "server", Active(e) = "CLIENT_FINISHED"
    PROVE  Result(e, tls13_handshake_recv_action(e, m), o)
<1> DEFINE f == tls13_handshake_recv_action(e, m)
           X == {"read", "ccs_allowed"}
           Z == RecordFields \cup {"read", "ccs_allowed", "n"}
<1>0. X \cap Stable = {} /\ Within(X, Z)
  BY DEF Within, Stable, RecordFields
<1>1. ASSUME NEW r, Recorded(e, r, m, state_machine[Active(e)].recv_hash), Expected(Active(e), m)
      PROVE  Outcome(r, RecvHandler(r, Active(e), m), X)
  <2>1. Ready(r)
    BY <1>1, WorksReady, Zenon DEF Recorded
  <2>2. RecvHandler(r, Active(e), m) = tls13_client_finished_recv(r, m)
    BY RecvHandlers
  <2>4. Outcome(r, tls13_client_finished_recv(r, m), X)
    BY <2>1, ClientFinishedRecv DEF Outcome
  <2> QED BY <2>2, <2>4, Zenon
<1>2. Dies(e, f) \/ \E r, h : Accepted(e, r, h, f, m, X)
  <2> HIDE DEF X
  <2> QED BY <1>0, <1>1, RecvAction
<1> HIDE DEF f
<1>3. CASE Dies(e, f)
  BY <1>3, Dead, Zenon DEF f
<1>4. ASSUME NEW r, NEW h, Accepted(e, r, h, f, m, X)
      PROVE  Result(e, f, o)
  <2>1. /\ Works(e, f, Z) /\ Works(e, r, RecordFields) /\ Works(h, f, {"n"}) /\ Ready(r)
        /\ r.hs = e.hs /\ f.hs = h.hs /\ f.n = e.n + 1
    <3> HIDE DEF X, Z
    <3> QED BY <1>0, <1>4, AcceptedWorks, ZenonT(40)
  <2>2. h = tls13_client_finished_recv(r, m) /\ Succeeded(h) /\ ~Dies(r, h)
    <3>1. h = RecvHandler(r, Active(e), m) /\ Works(r, h, X)
      BY <1>4, Zenon DEF Accepted
    <3>2. h = tls13_client_finished_recv(r, m)
      BY <3>1, RecvHandlers
    <3> QED BY <3>1, <3>2, NotBoth, Zenon DEF Works
  <2>3. /\ r.cfg = e.cfg /\ r.mode = e.mode /\ r.peer_cert = e.peer_cert
        /\ r.handshake_traffic = e.handshake_traffic /\ r.application_traffic = e.application_traffic
        /\ r.cipher = e.cipher /\ r.shared = e.shared
        /\ f.peer_cert = h.peer_cert /\ f.peer_proved = h.peer_proved /\ f.read = h.read
        /\ f.application_traffic = h.application_traffic /\ f.handshake_hash = h.handshake_hash
        /\ f.handshake_traffic = h.handshake_traffic /\ f.cipher = h.cipher /\ f.shared = h.shared
    BY <2>1 DEF Works, Changes, Fields, RecordFields
  <2>4. h.read = r.application_traffic["client"] /\ m = Finished(r, "client", r.transcript_hash) /\ Works(r, h, X)
    BY <1>4, <2>1, <2>2, ClientFinishedRecv, Zenon DEF Accepted
  <2>5. f.read = f.application_traffic["client"]
    <3>1. h.application_traffic = r.application_traffic
      BY <2>4 DEF Works, Changes, Fields
    <3> QED BY <2>3, <2>4, <3>1, Zenon
  <2>6. h.handshake_hash = Append(e.handshake_hash, FinishedDigest) /\ m.mac.over = e.handshake_hash /\ e.handshake_hash # None /\ m.type = "finished"
    <3>1. r.handshake_hash = Hashed(e.handshake_hash, Digest(m)) /\ r.transcript_hash = e.handshake_hash /\ e.handshake_hash # None
      BY <1>4, Entries DEF Accepted, Recorded, Entry
    <3>2. m.type = "finished" /\ m.mac.over = r.transcript_hash
      BY <2>4 DEF Finished
    <3>3. Digest(m) = FinishedDigest
      BY <3>2 DEF Digest, FinishedDigest
    <3>4. h.handshake_hash = r.handshake_hash
      BY <2>4 DEF Works, Changes, Fields
    <3> QED BY <3>1, <3>2, <3>3, <3>4, Zenon DEF Hashed
  <2>7. Alive(o) => Active(o) = "APPLICATION_DATA" /\ f.handshake_hash = o.handshake_hash
    <3> SUFFICES ASSUME Alive(o) PROVE Active(o) = "APPLICATION_DATA" /\ f.handshake_hash = o.handshake_hash
      OBVIOUS
    <3>1. o.mode = "client"
      BY DEF Other
    <3>2. Active(o) = "APPLICATION_DATA" /\ o.handshake_hash = Hashed(m.mac.over, FinishedDigest)
      BY <2>6, <3>1, Zenon DEF Carries, FinishedSent
    <3> QED BY <2>3, <2>6, <3>2, Zenon DEF Hashed
  <2>20. Living(f, o) /\ Steady(e, f)
    <3> HIDE DEF Z
    <3> QED BY <2>1, <2>4, <2>5, <2>6, <2>7, RecvClientFinished DEF Z
  <2> HIDE DEF X
  <2> QED BY <1>0, <1>4, <2>20, AcceptedResult
<1> QED BY <1>2, <1>3, <1>4, Zenon DEF f

(* A client takes a HelloRetryRequest, or a ServerHello in its place. *)
LEMMA TakesRetryRequest ==
    ASSUME NEW e, NEW o, NEW m, Typed(e), Typed(o), Succeeded(e), Living(e, o), Carries(o, m),
           o.mode = Other(e.mode), Alive(o) => Living(o, e), e.mode = "client", Active(e) = "SERVER_HELLO_RETRY_REQUEST"
    PROVE  Result(e, tls13_handshake_recv_action(e, m), o)
<1> DEFINE f == tls13_handshake_recv_action(e, m)
           X == ServerHelloFields
           Z == RecordFields \cup ServerHelloFields \cup {"n"}
<1>0. X \cap Stable = {} /\ Within(X, Z)
  BY DEF Within, Stable, RecordFields, ServerHelloFields, HelloFields, EngageFields
<1>1. ASSUME NEW r, Recorded(e, r, m, state_machine[Active(e)].recv_hash), Expected(Active(e), m)
      PROVE  Outcome(r, RecvHandler(r, Active(e), m), X)
  <2>1. Ready(r)
    BY <1>1, WorksReady, Zenon DEF Recorded
  <2>2. RecvHandler(r, Active(e), m) = tls13_server_hello_retry_request_recv(r, m)
    BY RecvHandlers
  <2> HIDE DEF X
  <2>4. Outcome(r, tls13_server_hello_retry_request_recv(r, m), X)
    BY <2>1, RetryRequestRecv DEF Outcome, X
  <2> QED BY <2>2, <2>4, Zenon
<1>2. Dies(e, f) \/ \E r, h : Accepted(e, r, h, f, m, X)
  <2> HIDE DEF X
  <2> QED BY <1>0, <1>1, RecvAction
<1> HIDE DEF f
<1>3. CASE Dies(e, f)
  BY <1>3, Dead, Zenon DEF f
<1>4. ASSUME NEW r, NEW h, Accepted(e, r, h, f, m, X)
      PROVE  Result(e, f, o)
  <2>1. /\ Works(e, f, Z) /\ Works(e, r, RecordFields) /\ Works(h, f, {"n"}) /\ Ready(r)
        /\ r.hs = e.hs /\ f.hs = h.hs /\ f.n = e.n + 1
    <3> HIDE DEF X, Z
    <3> QED BY <1>0, <1>4, AcceptedWorks, ZenonT(40)
  <2>2. h = tls13_server_hello_retry_request_recv(r, m) /\ Succeeded(h) /\ ~Dies(r, h)
    <3>1. h = RecvHandler(r, Active(e), m) /\ Works(r, h, X)
      BY <1>4, Zenon DEF Accepted
    <3>2. h = tls13_server_hello_retry_request_recv(r, m)
      BY <3>1, RecvHandlers
    <3> QED BY <3>1, <3>2, NotBoth, Zenon DEF Works
  <2>3. /\ r.cfg = e.cfg /\ r.mode = e.mode /\ r.peer_cert = e.peer_cert
        /\ r.handshake_traffic = e.handshake_traffic /\ r.application_traffic = e.application_traffic
        /\ r.cipher = e.cipher /\ r.shared = e.shared
        /\ f.peer_cert = h.peer_cert /\ f.peer_proved = h.peer_proved /\ f.read = h.read
        /\ f.application_traffic = h.application_traffic /\ f.handshake_hash = h.handshake_hash
        /\ f.handshake_traffic = h.handshake_traffic /\ f.cipher = h.cipher /\ f.shared = h.shared
    BY <2>1 DEF Works, Changes, Fields, RecordFields
  <2>4. f.hs = e.hs \/ (Keyed(f) /\ f.hs = (e.hs \cup {"WITHOUT_HRR"}) \cup {"NEGOTIATED"})
    <3>1. h.hs = r.hs \/ (Keyed(h) /\ h.hs = (r.hs \cup {"WITHOUT_HRR"}) \cup {"NEGOTIATED"})
      BY <2>1, <2>2, RetryRequestRecv, Zenon
    <3>2. Keyed(h) => Keyed(f)
      BY <2>3, KeyedSame
    <3> QED BY <2>1, <3>1, <3>2, Zenon
  <2>20. Living(f, o) /\ Steady(e, f)
    <3> HIDE DEF Z
    <3>1. CASE f.hs = e.hs
      BY <2>1, <3>1, RecvRetryRequest DEF Z
    <3>2. CASE ~(f.hs = e.hs)
      BY <2>1, <2>4, <3>2, RecvFirstServerHello DEF Z
    <3> QED BY <3>1, <3>2
  <2> HIDE DEF X
  <2> QED BY <1>0, <1>4, <2>20, AcceptedResult
<1> QED BY <1>2, <1>3, <1>4, Zenon DEF f

(* A client takes the ServerHello after a retry. *)
LEMMA TakesServerHello ==
    ASSUME NEW e, NEW o, NEW m, Typed(e), Typed(o), Succeeded(e), Living(e, o), Carries(o, m),
           o.mode = Other(e.mode), Alive(o) => Living(o, e), e.mode = "client", Active(e) = "SERVER_HELLO"
    PROVE  Result(e, tls13_handshake_recv_action(e, m), o)
<1> DEFINE f == tls13_handshake_recv_action(e, m)
           X == ServerHelloFields
           Z == RecordFields \cup ServerHelloFields \cup {"n"}
<1>0. X \cap Stable = {} /\ Within(X, Z)
  BY DEF Within, Stable, RecordFields, ServerHelloFields, HelloFields, EngageFields
<1>1. ASSUME NEW r, Recorded(e, r, m, state_machine[Active(e)].recv_hash), Expected(Active(e), m)
      PROVE  Outcome(r, RecvHandler(r, Active(e), m), X)
  <2>1. Ready(r)
    BY <1>1, WorksReady, Zenon DEF Recorded
  <2>2. RecvHandler(r, Active(e), m) = tls13_server_hello_recv(r, m)
    BY RecvHandlers
  <2> HIDE DEF X
  <2>4. Outcome(r, tls13_server_hello_recv(r, m), X)
    BY <2>1, ServerHelloRecv DEF Outcome, X
  <2> QED BY <2>2, <2>4, Zenon
<1>2. Dies(e, f) \/ \E r, h : Accepted(e, r, h, f, m, X)
  <2> HIDE DEF X
  <2> QED BY <1>0, <1>1, RecvAction
<1> HIDE DEF f
<1>3. CASE Dies(e, f)
  BY <1>3, Dead, Zenon DEF f
<1>4. ASSUME NEW r, NEW h, Accepted(e, r, h, f, m, X)
      PROVE  Result(e, f, o)
  <2>1. /\ Works(e, f, Z) /\ Works(e, r, RecordFields) /\ Works(h, f, {"n"}) /\ Ready(r)
        /\ r.hs = e.hs /\ f.hs = h.hs /\ f.n = e.n + 1
    <3> HIDE DEF X, Z
    <3> QED BY <1>0, <1>4, AcceptedWorks, ZenonT(40)
  <2>2. h = tls13_server_hello_recv(r, m) /\ Succeeded(h) /\ ~Dies(r, h)
    <3>1. h = RecvHandler(r, Active(e), m) /\ Works(r, h, X)
      BY <1>4, Zenon DEF Accepted
    <3>2. h = tls13_server_hello_recv(r, m)
      BY <3>1, RecvHandlers
    <3> QED BY <3>1, <3>2, NotBoth, Zenon DEF Works
  <2>3. /\ r.cfg = e.cfg /\ r.mode = e.mode /\ r.peer_cert = e.peer_cert
        /\ r.handshake_traffic = e.handshake_traffic /\ r.application_traffic = e.application_traffic
        /\ r.cipher = e.cipher /\ r.shared = e.shared
        /\ f.peer_cert = h.peer_cert /\ f.peer_proved = h.peer_proved /\ f.read = h.read
        /\ f.application_traffic = h.application_traffic /\ f.handshake_hash = h.handshake_hash
        /\ f.handshake_traffic = h.handshake_traffic /\ f.cipher = h.cipher /\ f.shared = h.shared
    BY <2>1 DEF Works, Changes, Fields, RecordFields
  <2>4. Keyed(f) /\ f.hs = e.hs \cup {"NEGOTIATED"}
    <3>1. Keyed(h) /\ h.hs = r.hs \cup {"NEGOTIATED"}
      BY <2>1, <2>2, ServerHelloRecv, Zenon
    <3>2. Keyed(f)
      BY <2>3, <3>1, KeyedSame
    <3> QED BY <2>1, <3>1, <3>2, Zenon
  <2>20. Living(f, o) /\ Steady(e, f)
    <3> HIDE DEF Z
    <3> QED BY <2>1, <2>4, RecvServerHello DEF Z
  <2> HIDE DEF X
  <2> QED BY <1>0, <1>4, <2>20, AcceptedResult
<1> QED BY <1>2, <1>3, <1>4, Zenon DEF f

(* A client takes the EncryptedExtensions. *)
LEMMA TakesEncryptedExtensions ==
    ASSUME NEW e, NEW o, NEW m, Typed(e), Typed(o), Succeeded(e), Living(e, o), Carries(o, m),
           o.mode = Other(e.mode), Alive(o) => Living(o, e), e.mode = "client", Active(e) = "SERVER_ENCRYPTED_EXTENSIONS"
    PROVE  Result(e, tls13_handshake_recv_action(e, m), o)
<1> DEFINE f == tls13_handshake_recv_action(e, m)
           X == {}
           Z == RecordFields \cup {"n"}
<1>0. X \cap Stable = {} /\ Within(X, Z)
  BY DEF Within, Stable, RecordFields
<1>1. ASSUME NEW r, Recorded(e, r, m, state_machine[Active(e)].recv_hash), Expected(Active(e), m)
      PROVE  Outcome(r, RecvHandler(r, Active(e), m), X)
  <2>1. Ready(r)
    BY <1>1, WorksReady, Zenon DEF Recorded
  <2>2. RecvHandler(r, Active(e), m) = r
    BY RecvHandlers
  <2>3. Works(r, r, X)
    BY <2>1 DEF Works, Ready, Changes
  <2> QED BY <2>2, <2>3, Zenon DEF Outcome
<1>2. Dies(e, f) \/ \E r, h : Accepted(e, r, h, f, m, X)
  <2> HIDE DEF X
  <2> QED BY <1>0, <1>1, RecvAction
<1> HIDE DEF f
<1>3. CASE Dies(e, f)
  BY <1>3, Dead, Zenon DEF f
<1>4. ASSUME NEW r, NEW h, Accepted(e, r, h, f, m, X)
      PROVE  Result(e, f, o)
  <2>1. /\ Works(e, f, Z) /\ Works(e, r, RecordFields) /\ Works(h, f, {"n"}) /\ Ready(r)
        /\ r.hs = e.hs /\ f.hs = h.hs /\ f.n = e.n + 1
    <3> HIDE DEF X, Z
    <3> QED BY <1>0, <1>4, AcceptedWorks, ZenonT(40)
  <2>2. h = r /\ Succeeded(h) /\ ~Dies(r, h)
    <3>1. h = RecvHandler(r, Active(e), m) /\ Works(r, h, X)
      BY <1>4, Zenon DEF Accepted
    <3>2. h = r
      BY <3>1, RecvHandlers
    <3> QED BY <3>1, <3>2, NotBoth, Zenon DEF Works
  <2>3. /\ r.cfg = e.cfg /\ r.mode = e.mode /\ r.peer_cert = e.peer_cert
        /\ r.handshake_traffic = e.handshake_traffic /\ r.application_traffic = e.application_traffic
        /\ r.cipher = e.cipher /\ r.shared = e.shared
        /\ f.peer_cert = h.peer_cert /\ f.peer_proved = h.peer_proved /\ f.read = h.read
        /\ f.application_traffic = h.application_traffic /\ f.handshake_hash = h.handshake_hash
        /\ f.handshake_traffic = h.handshake_traffic /\ f.cipher = h.cipher /\ f.shared = h.shared
    BY <2>1 DEF Works, Changes, Fields, RecordFields
  <2>20. Living(f, o) /\ Steady(e, f)
    <3> HIDE DEF Z
    <3> QED BY <2>1, RecvEncryptedExtensions DEF Z
  <2> HIDE DEF X
  <2> QED BY <1>0, <1>4, <2>20, AcceptedResult
<1> QED BY <1>2, <1>3, <1>4, Zenon DEF f

(* A client takes a CertificateRequest, or a Certificate in its place. *)
LEMMA TakesCertificateRequest ==
    ASSUME NEW e, NEW o, NEW m, Typed(e), Typed(o), Succeeded(e), Living(e, o), Carries(o, m),
           o.mode = Other(e.mode), Alive(o) => Living(o, e), e.mode = "client", Active(e) = "SERVER_CERTIFICATE_REQUEST"
    PROVE  Result(e, tls13_handshake_recv_action(e, m), o)
<1> DEFINE f == tls13_handshake_recv_action(e, m)
           X == {"peer_cert", "hs"}
           Z == RecordFields \cup {"peer_cert", "hs", "n"}
<1>0. X \cap Stable = {} /\ Within(X, Z)
  BY DEF Within, Stable, RecordFields
<1>1. ASSUME NEW r, Recorded(e, r, m, state_machine[Active(e)].recv_hash), Expected(Active(e), m)
      PROVE  Outcome(r, RecvHandler(r, Active(e), m), X)
  <2>1. Ready(r)
    BY <1>1, WorksReady, Zenon DEF Recorded
  <2>2. RecvHandler(r, Active(e), m) = tls13_server_certificate_request_recv(r, m)
    BY RecvHandlers
  <2>3. Works(r, r, X)
    BY <2>1 DEF Works, Ready, Changes
  <2>4. Outcome(r, tls13_server_certificate_request_recv(r, m), X)
    BY <2>1, <2>3, CertificateRequestRecv DEF Outcome
  <2> QED BY <2>2, <2>4, Zenon
<1>2. Dies(e, f) \/ \E r, h : Accepted(e, r, h, f, m, X)
  <2> HIDE DEF X
  <2> QED BY <1>0, <1>1, RecvAction
<1> HIDE DEF f
<1>3. CASE Dies(e, f)
  BY <1>3, Dead, Zenon DEF f
<1>4. ASSUME NEW r, NEW h, Accepted(e, r, h, f, m, X)
      PROVE  Result(e, f, o)
  <2>1. /\ Works(e, f, Z) /\ Works(e, r, RecordFields) /\ Works(h, f, {"n"}) /\ Ready(r)
        /\ r.hs = e.hs /\ f.hs = h.hs /\ f.n = e.n + 1
    <3> HIDE DEF X, Z
    <3> QED BY <1>0, <1>4, AcceptedWorks, ZenonT(40)
  <2>2. h = tls13_server_certificate_request_recv(r, m) /\ Succeeded(h) /\ ~Dies(r, h)
    <3>1. h = RecvHandler(r, Active(e), m) /\ Works(r, h, X)
      BY <1>4, Zenon DEF Accepted
    <3>2. h = tls13_server_certificate_request_recv(r, m)
      BY <3>1, RecvHandlers
    <3> QED BY <3>1, <3>2, NotBoth, Zenon DEF Works
  <2>3. /\ r.cfg = e.cfg /\ r.mode = e.mode /\ r.peer_cert = e.peer_cert
        /\ r.handshake_traffic = e.handshake_traffic /\ r.application_traffic = e.application_traffic
        /\ r.cipher = e.cipher /\ r.shared = e.shared
        /\ f.peer_cert = h.peer_cert /\ f.peer_proved = h.peer_proved /\ f.read = h.read
        /\ f.application_traffic = h.application_traffic /\ f.handshake_hash = h.handshake_hash
        /\ f.handshake_traffic = h.handshake_traffic /\ f.cipher = h.cipher /\ f.shared = h.shared
    BY <2>1 DEF Works, Changes, Fields, RecordFields
  <2>4. m.type = "certificate" => m.cert = o.cfg.cert /\ o.cfg.cert # None
    <3>1. o.mode = "server"
      BY DEF Other
    <3> QED BY <3>1 DEF Carries, Certificate
  <2>20. Living(f, o) /\ Steady(e, f)
    <3>1. CASE h = r
      <4>1. Works(e, f, RecordFields \cup {"n"})
        BY <2>1, <3>1, WorksTwice
      <4> QED BY <2>1, <4>1, RecvCertificateRequest
    <3>2. CASE h # r
      <4>1. m.type = "certificate" /\ h.hs = r.hs \cup {"WITHOUT_CR"} /\ h.peer_cert = m.cert /\ (r.cfg.verify # "none" => m.cert # "bad")
        BY <2>1, <2>2, <3>2, CertificateRequestRecv
      <4>2. f.hs = e.hs \cup {"WITHOUT_CR"} /\ f.peer_cert = o.cfg.cert /\ o.cfg.cert # None
        BY <2>1, <2>3, <2>4, <4>1, Zenon
      <4>3. e.cfg.verify # "none" => o.cfg.cert = "good"
        BY <2>3, <2>4, <4>1 DEF Typed
      <4> HIDE DEF Z
      <4> QED BY <2>1, <4>2, <4>3, RecvNoCertificateRequest DEF Z
    <3> QED BY <3>1, <3>2
  <2> HIDE DEF X
  <2> QED BY <1>0, <1>4, <2>20, AcceptedResult
<1> QED BY <1>2, <1>3, <1>4, Zenon DEF f

(* A client takes the Certificate of the server. *)
LEMMA TakesServerCertificate ==
    ASSUME NEW e, NEW o, NEW m, Typed(e), Typed(o), Succeeded(e), Living(e, o), Carries(o, m),
           o.mode = Other(e.mode), Alive(o) => Living(o, e), e.mode = "client", Active(e) = "SERVER_CERTIFICATE"
    PROVE  Result(e, tls13_handshake_recv_action(e, m), o)
<1> DEFINE f == tls13_handshake_recv_action(e, m)
           X == {"peer_cert"}
           Z == RecordFields \cup {"peer_cert", "n"}
<1>0. X \cap Stable = {} /\ Within(X, Z)
  BY DEF Within, Stable, RecordFields
<1>1. ASSUME NEW r, Recorded(e, r, m, state_machine[Active(e)].recv_hash), Expected(Active(e), m)
      PROVE  Outcome(r, RecvHandler(r, Active(e), m), X)
  <2>1. Ready(r)
    BY <1>1, WorksReady, Zenon DEF Recorded
  <2>2. RecvHandler(r, Active(e), m) = tls13_server_certificate_recv(r, m)
    BY RecvHandlers
  <2>4. Outcome(r, tls13_server_certificate_recv(r, m), X)
    BY <2>1, ServerCertificateRecv DEF Outcome
  <2> QED BY <2>2, <2>4, Zenon
<1>2. Dies(e, f) \/ \E r, h : Accepted(e, r, h, f, m, X)
  <2> HIDE DEF X
  <2> QED BY <1>0, <1>1, RecvAction
<1> HIDE DEF f
<1>3. CASE Dies(e, f)
  BY <1>3, Dead, Zenon DEF f
<1>4. ASSUME NEW r, NEW h, Accepted(e, r, h, f, m, X)
      PROVE  Result(e, f, o)
  <2>1. /\ Works(e, f, Z) /\ Works(e, r, RecordFields) /\ Works(h, f, {"n"}) /\ Ready(r)
        /\ r.hs = e.hs /\ f.hs = h.hs /\ f.n = e.n + 1
    <3> HIDE DEF X, Z
    <3> QED BY <1>0, <1>4, AcceptedWorks, ZenonT(40)
  <2>2. h = tls13_server_certificate_recv(r, m) /\ Succeeded(h) /\ ~Dies(r, h)
    <3>1. h = RecvHandler(r, Active(e), m) /\ Works(r, h, X)
      BY <1>4, Zenon DEF Accepted
    <3>2. h = tls13_server_certificate_recv(r, m)
      BY <3>1, RecvHandlers
    <3> QED BY <3>1, <3>2, NotBoth, Zenon DEF Works
  <2>3. /\ r.cfg = e.cfg /\ r.mode = e.mode /\ r.peer_cert = e.peer_cert
        /\ r.handshake_traffic = e.handshake_traffic /\ r.application_traffic = e.application_traffic
        /\ r.cipher = e.cipher /\ r.shared = e.shared
        /\ f.peer_cert = h.peer_cert /\ f.peer_proved = h.peer_proved /\ f.read = h.read
        /\ f.application_traffic = h.application_traffic /\ f.handshake_hash = h.handshake_hash
        /\ f.handshake_traffic = h.handshake_traffic /\ f.cipher = h.cipher /\ f.shared = h.shared
    BY <2>1 DEF Works, Changes, Fields, RecordFields
  <2>4. m.type = "certificate" => m.cert = o.cfg.cert /\ o.cfg.cert # None
    <3>1. o.mode = "server"
      BY DEF Other
    <3> QED BY <3>1 DEF Carries, Certificate
  <2>5. m.type = "certificate"
    BY <1>4, Entries DEF Accepted, Expected, Entry
  <2>6. h.peer_cert = m.cert /\ (r.cfg.verify # "none" => m.cert # "bad")
    BY <2>1, <2>2, ServerCertificateRecv
  <2>7. f.peer_cert = o.cfg.cert /\ o.cfg.cert # None
    BY <2>3, <2>4, <2>5, <2>6
  <2>8. e.cfg.verify # "none" => o.cfg.cert = "good"
    BY <2>3, <2>4, <2>5, <2>6 DEF Typed
  <2>20. Living(f, o) /\ Steady(e, f)
    <3> HIDE DEF Z
    <3> QED BY <2>1, <2>4, <2>5, <2>6, <2>7, <2>8, RecvServerCertificate DEF Z
  <2> HIDE DEF X
  <2> QED BY <1>0, <1>4, <2>20, AcceptedResult
<1> QED BY <1>2, <1>3, <1>4, Zenon DEF f

(* A client takes the CertificateVerify of the server. *)
LEMMA TakesServerCertificateVerify ==
    ASSUME NEW e, NEW o, NEW m, Typed(e), Typed(o), Succeeded(e), Living(e, o), Carries(o, m),
           o.mode = Other(e.mode), Alive(o) => Living(o, e), e.mode = "client", Active(e) = "SERVER_CERTIFICATE_VERIFY"
    PROVE  Result(e, tls13_handshake_recv_action(e, m), o)
<1> DEFINE f == tls13_handshake_recv_action(e, m)
           X == {"peer_proved"}
           Z == RecordFields \cup {"peer_proved", "n"}
<1>0. X \cap Stable = {} /\ Within(X, Z)
  BY DEF Within, Stable, RecordFields
<1>1. ASSUME NEW r, Recorded(e, r, m, state_machine[Active(e)].recv_hash), Expected(Active(e), m)
      PROVE  Outcome(r, RecvHandler(r, Active(e), m), X)
  <2>1. Ready(r)
    BY <1>1, WorksReady, Zenon DEF Recorded
  <2>2. RecvHandler(r, Active(e), m) = CertificateVerifyRecv(r, m)
    BY RecvHandlers
  <2>4. Outcome(r, CertificateVerifyRecv(r, m), X)
    BY <2>1, VerifyRecv DEF Outcome
  <2> QED BY <2>2, <2>4, Zenon
<1>2. Dies(e, f) \/ \E r, h : Accepted(e, r, h, f, m, X)
  <2> HIDE DEF X
  <2> QED BY <1>0, <1>1, RecvAction
<1> HIDE DEF f
<1>3. CASE Dies(e, f)
  BY <1>3, Dead, Zenon DEF f
<1>4. ASSUME NEW r, NEW h, Accepted(e, r, h, f, m, X)
      PROVE  Result(e, f, o)
  <2>1. /\ Works(e, f, Z) /\ Works(e, r, RecordFields) /\ Works(h, f, {"n"}) /\ Ready(r)
        /\ r.hs = e.hs /\ f.hs = h.hs /\ f.n = e.n + 1
    <3> HIDE DEF X, Z
    <3> QED BY <1>0, <1>4, AcceptedWorks, ZenonT(40)
  <2>2. h = CertificateVerifyRecv(r, m) /\ Succeeded(h) /\ ~Dies(r, h)
    <3>1. h = RecvHandler(r, Active(e), m) /\ Works(r, h, X)
      BY <1>4, Zenon DEF Accepted
    <3>2. h = CertificateVerifyRecv(r, m)
      BY <3>1, RecvHandlers
    <3> QED BY <3>1, <3>2, NotBoth, Zenon DEF Works
  <2>3. /\ r.cfg = e.cfg /\ r.mode = e.mode /\ r.peer_cert = e.peer_cert
        /\ r.handshake_traffic = e.handshake_traffic /\ r.application_traffic = e.application_traffic
        /\ r.cipher = e.cipher /\ r.shared = e.shared
        /\ f.peer_cert = h.peer_cert /\ f.peer_proved = h.peer_proved /\ f.read = h.read
        /\ f.application_traffic = h.application_traffic /\ f.handshake_hash = h.handshake_hash
        /\ f.handshake_traffic = h.handshake_traffic /\ f.cipher = h.cipher /\ f.shared = h.shared
    BY <2>1 DEF Works, Changes, Fields, RecordFields
  <2>4. f.peer_proved
    <3>1. h.peer_proved
      BY <2>1, <2>2, VerifyRecv
    <3> QED BY <2>3, <3>1, Zenon
  <2>20. Living(f, o) /\ Steady(e, f)
    <3> HIDE DEF Z
    <3> QED BY <2>1, <2>4, RecvServerCertificateVerify DEF Z
  <2> HIDE DEF X
  <2> QED BY <1>0, <1>4, <2>20, AcceptedResult
<1> QED BY <1>2, <1>3, <1>4, Zenon DEF f

(* A client takes the Finished of the server. *)
LEMMA TakesServerFinished ==
    ASSUME NEW e, NEW o, NEW m, Typed(e), Typed(o), Succeeded(e), Living(e, o), Carries(o, m),
           o.mode = Other(e.mode), Alive(o) => Living(o, e), e.mode = "client", Active(e) = "SERVER_FINISHED"
    PROVE  Result(e, tls13_handshake_recv_action(e, m), o)
<1> DEFINE f == tls13_handshake_recv_action(e, m)
           X == {"application_traffic", "read", "ccs_allowed"}
           Z == RecordFields \cup {"application_traffic", "read", "ccs_allowed", "n"}
<1>0. X \cap Stable = {} /\ Within(X, Z)
  BY DEF Within, Stable, RecordFields
<1>1. ASSUME NEW r, Recorded(e, r, m, state_machine[Active(e)].recv_hash), Expected(Active(e), m)
      PROVE  Outcome(r, RecvHandler(r, Active(e), m), X)
  <2>1. Ready(r)
    BY <1>1, WorksReady, Zenon DEF Recorded
  <2>2. RecvHandler(r, Active(e), m) = tls13_server_finished_recv(r, m)
    BY RecvHandlers
  <2>4. Outcome(r, tls13_server_finished_recv(r, m), X)
    BY <2>1, ServerFinishedRecv DEF Outcome
  <2> QED BY <2>2, <2>4, Zenon
<1>2. Dies(e, f) \/ \E r, h : Accepted(e, r, h, f, m, X)
  <2> HIDE DEF X
  <2> QED BY <1>0, <1>1, RecvAction
<1> HIDE DEF f
<1>3. CASE Dies(e, f)
  BY <1>3, Dead, Zenon DEF f
<1>4. ASSUME NEW r, NEW h, Accepted(e, r, h, f, m, X)
      PROVE  Result(e, f, o)
  <2>1. /\ Works(e, f, Z) /\ Works(e, r, RecordFields) /\ Works(h, f, {"n"}) /\ Ready(r)
        /\ r.hs = e.hs /\ f.hs = h.hs /\ f.n = e.n + 1
    <3> HIDE DEF X, Z
    <3> QED BY <1>0, <1>4, AcceptedWorks, ZenonT(40)
  <2>2. h = tls13_server_finished_recv(r, m) /\ Succeeded(h) /\ ~Dies(r, h)
    <3>1. h = RecvHandler(r, Active(e), m) /\ Works(r, h, X)
      BY <1>4, Zenon DEF Accepted
    <3>2. h = tls13_server_finished_recv(r, m)
      BY <3>1, RecvHandlers
    <3> QED BY <3>1, <3>2, NotBoth, Zenon DEF Works
  <2>3. /\ r.cfg = e.cfg /\ r.mode = e.mode /\ r.peer_cert = e.peer_cert
        /\ r.handshake_traffic = e.handshake_traffic /\ r.application_traffic = e.application_traffic
        /\ r.cipher = e.cipher /\ r.shared = e.shared
        /\ f.peer_cert = h.peer_cert /\ f.peer_proved = h.peer_proved /\ f.read = h.read
        /\ f.application_traffic = h.application_traffic /\ f.handshake_hash = h.handshake_hash
        /\ f.handshake_traffic = h.handshake_traffic /\ f.cipher = h.cipher /\ f.shared = h.shared
    BY <2>1 DEF Works, Changes, Fields, RecordFields
  <2>4. /\ h.application_traffic = TrafficKeys(r, "application", r.handshake_hash)
        /\ h.read = h.application_traffic["server"] /\ m = Finished(r, "server", r.transcript_hash) /\ Works(r, h, X)
    BY <1>4, <2>1, <2>2, ServerFinishedRecv, Zenon DEF Accepted
  <2>5. f.read = f.application_traffic["server"]
    BY <2>3, <2>4, Zenon
  <2>6. /\ r.handshake_hash = Append(e.handshake_hash, FinishedDigest) /\ e.handshake_hash # None
        /\ m.mac.over = e.handshake_hash /\ m.mac.key = e.handshake_traffic["server"] /\ m.type = "finished"
    <3>1. r.handshake_hash = Hashed(e.handshake_hash, Digest(m)) /\ r.transcript_hash = e.handshake_hash /\ e.handshake_hash # None
      BY <1>4, Entries DEF Accepted, Recorded, Entry
    <3>2. m.type = "finished" /\ m.mac.over = r.transcript_hash /\ m.mac.key = r.handshake_traffic["server"]
      BY <2>4 DEF Finished
    <3>3. Digest(m) = FinishedDigest
      BY <3>2 DEF Digest, FinishedDigest
    <3> QED BY <2>3, <3>1, <3>2, <3>3, Zenon DEF Hashed
  <2>7. Keyed(e)
    BY DEF Living, Engaged, Hellos
  <2>8. Alive(o) => ServerDone(o) /\ f.application_traffic = o.application_traffic /\ f.cipher = o.cipher
    <3> SUFFICES ASSUME Alive(o) PROVE ServerDone(o) /\ f.application_traffic = o.application_traffic /\ f.cipher = o.cipher
      OBVIOUS
    <3>1. o.mode = "server"
      BY DEF Other
    <3>2. /\ ServerDone(o) /\ m = Finished(o, "server", m.mac.over)
          /\ o.application_traffic = TrafficKeys(o, "application", Hashed(m.mac.over, FinishedDigest))
      BY <2>6, <3>1, Zenon DEF Carries, FinishedSent
    <3>3. m.mac.key = o.handshake_traffic["server"]
      BY <3>2 DEF Finished
    <3>4. Keyed(o)
      BY <3>2 DEF Living, Engaged, ServerDone, Hellos, AfterServerFinished
    <3>5. e.handshake_traffic["server"] = o.handshake_traffic["server"]
      BY <2>6, <3>3
    <3>6. o.handshake_traffic["server"].shared = o.shared /\ o.handshake_traffic["server"].cipher = o.cipher
      BY <3>4, TrafficContext DEF Keyed, Peer
    <3>7. e.handshake_traffic["server"].shared = e.shared /\ e.handshake_traffic["server"].cipher = e.cipher
      BY <2>7, TrafficContext DEF Keyed, Peer
    <3>8. r.shared = o.shared /\ r.cipher = o.cipher
      BY <2>3, <3>5, <3>6, <3>7, Zenon
    <3>9. TrafficKeys(r, "application", r.handshake_hash) = TrafficKeys(o, "application", r.handshake_hash)
      BY <3>8, SameTrafficKeys
    <3>10. Hashed(m.mac.over, FinishedDigest) = r.handshake_hash
      BY <2>6, Zenon DEF Hashed
    <3>11. f.cipher = r.cipher
      BY <2>3, <2>4 DEF Works, Changes, Fields
    <3> QED BY <2>3, <2>4, <3>2, <3>8, <3>9, <3>10, <3>11, Zenon
  <2>20. Living(f, o) /\ Steady(e, f)
    <3> HIDE DEF Z
    <3> QED BY <2>1, <2>4, <2>5, <2>6, <2>7, <2>8, RecvServerFinished DEF Z
  <2> HIDE DEF X
  <2> QED BY <1>0, <1>4, <2>20, AcceptedResult
<1> QED BY <1>2, <1>3, <1>4, Zenon DEF f

-----------------------------------------------------------------------------
(* Records. *)

(* The fields that Living is about. *)
Matters == Fields \ {"out", "need_flush", "ccs_seen", "ccs_sent"}

Quiet(e, f) == \A x \in Matters : f[x] = e[x]

(* The fields that a quiet change keeps. *)
LEMMA QuietFields ==
    ASSUME NEW e, NEW f, Quiet(e, f)
    PROVE  /\ f.mode = e.mode /\ f.cfg = e.cfg /\ f.st = e.st /\ f.hs = e.hs /\ f.n = e.n
           /\ f.alert = e.alert /\ f.hs_msg = e.hs_msg /\ f.wrec = e.wrec
           /\ f.send_dummy_ccs = e.send_dummy_ccs
           /\ f.send_dummy_ccs_after = e.send_dummy_ccs_after
           /\ f.read = e.read /\ f.write = e.write /\ f.handshake_hash = e.handshake_hash
           /\ f.cipher = e.cipher /\ f.shared = e.shared
           /\ f.handshake_traffic = e.handshake_traffic
           /\ f.application_traffic = e.application_traffic
           /\ f.peer_cert = e.peer_cert /\ f.peer_proved = e.peer_proved /\ Active(f) = Active(e)
  BY DEF Quiet, Matters, Fields, Active

(* A step that keeps the place in the table: only a Certificate of the client *)
(* changes the row.                                                          *)
Keeps(e, f) ==
    /\ f.mode = e.mode /\ f.cfg = e.cfg /\ f.st = e.st /\ f.n = e.n /\ f.alert = e.alert
    /\ f.send_dummy_ccs_after = e.send_dummy_ccs_after /\ f.read = e.read /\ f.write = e.write
    /\ f.cipher = e.cipher /\ f.shared = e.shared /\ f.handshake_traffic = e.handshake_traffic
    /\ f.application_traffic = e.application_traffic
    /\ f.peer_cert = e.peer_cert /\ f.peer_proved = e.peer_proved
    /\ Active(e) = "SERVER_HELLO_RETRY_REQUEST" \/ f.handshake_hash = e.handshake_hash
    /\ f.hs \in Rows /\ Active(f) = Active(e) /\ Agrees(e.hs, f.hs, e.n)
    /\ f.hs = e.hs \/ (e.mode = "client" /\ Active(e) = "CLIENT_CERTIFICATE")

(* An endpoint that keeps its place and what it negotiated stays alive. *)
LEMMA KeepsLiving ==
    ASSUME NEW e, NEW f, NEW o, Keeps(e, f), Living(e, o), Pending(f), e.mode \in Peer, Alive(e)
    PROVE  Living(f, o) /\ Steady(e, f) /\ Alive(f)
<1>0. PICK a : a = Active(e)
  OBVIOUS
<1>1. /\ f.mode = e.mode /\ f.cfg = e.cfg /\ f.st = e.st /\ f.n = e.n /\ f.alert = e.alert
      /\ f.send_dummy_ccs_after = e.send_dummy_ccs_after /\ f.read = e.read /\ f.write = e.write
      /\ f.cipher = e.cipher /\ f.shared = e.shared /\ f.handshake_traffic = e.handshake_traffic
      /\ f.application_traffic = e.application_traffic
      /\ f.peer_cert = e.peer_cert /\ f.peer_proved = e.peer_proved
      /\ a = "SERVER_HELLO_RETRY_REQUEST" \/ f.handshake_hash = e.handshake_hash
      /\ f.hs \in Rows /\ Active(f) = a /\ Active(e) = a /\ Agrees(e.hs, f.hs, e.n)
      /\ f.hs = e.hs \/ (e.mode = "client" /\ a = "CLIENT_CERTIFICATE")
  BY <1>0, Zenon DEF Keeps
<1>2. Placed(e) /\ Engaged(e) /\ Pending(f)
  BY Zenon DEF Living
<1>3. Placed(f)
  BY <1>1, <1>2 DEF Placed, HelloSent, Hellos, AfterServerFinished
<1>4. Engaged(f)
  BY <1>1, <1>2, KeyedSame DEF Engaged, HelloSent
<1>5. e.mode = "client" => ServerSeen(f, o)
  BY <1>1 DEF Living, ServerSeen
<1>6. e.mode = "client" => ServerAgreed(f, o)
  BY <1>1 DEF Living, ServerAgreed
<1>7. e.mode = "server" => ClientSeen(f, o)
  <2> SUFFICES ASSUME e.mode = "server" PROVE ClientSeen(f, o)
    OBVIOUS
  <2>1. f.hs = e.hs
    BY <1>1
  <2> QED BY <1>1, <2>1 DEF Living, ClientSeen, HelloSent
<1>8. e.mode = "server" => ClientAgreed(f, o)
  BY <1>1 DEF Living, ClientAgreed, ServerDone, AfterServerFinished
<1>9. Late(e, f)
  BY <1>1 DEF Late
<1>10. Moves(e, f)
  BY <1>1 DEF Moves
<1>11. Alive(f)
  BY <1>1 DEF Alive
<1>12. Living(f, o)
  BY <1>1, <1>2, <1>3, <1>4, <1>5, <1>6, <1>7, <1>8 DEF Living
<1> QED BY <1>1, <1>9, <1>10, <1>11, <1>12 DEF Steady

LEMMA QuietLiving ==
    ASSUME NEW e, NEW f, NEW o, Quiet(e, f), Living(e, o), e.mode \in Peer, Alive(e)
    PROVE  Living(f, o) /\ Steady(e, f) /\ Alive(f)
<1>1. /\ f.mode = e.mode /\ f.cfg = e.cfg /\ f.st = e.st /\ f.hs = e.hs /\ f.n = e.n
      /\ f.alert = e.alert /\ f.hs_msg = e.hs_msg /\ f.wrec = e.wrec
      /\ f.send_dummy_ccs = e.send_dummy_ccs
      /\ f.send_dummy_ccs_after = e.send_dummy_ccs_after
      /\ f.read = e.read /\ f.write = e.write /\ f.handshake_hash = e.handshake_hash
      /\ f.cipher = e.cipher /\ f.shared = e.shared
      /\ f.handshake_traffic = e.handshake_traffic
      /\ f.application_traffic = e.application_traffic
      /\ f.peer_cert = e.peer_cert /\ f.peer_proved = e.peer_proved /\ Active(f) = Active(e)
  BY QuietFields
<1>2. e.hs \in Rows /\ Pending(e)
  BY DEF Living, Placed
<1>3. Keeps(e, f)
  BY <1>1, <1>2 DEF Keeps, Agrees
<1>4. \A m : Fits(e, m) => Fits(f, m)
  BY <1>1 DEF Fits, SendsNext, Finished
<1>5. Pending(f)
  BY <1>1, <1>2, <1>4 DEF Pending, SendsNext
<1> QED BY <1>3, <1>5, KeepsLiving

LEMMA QuietSteady ==
    ASSUME NEW e, NEW f, Quiet(e, f)
    PROVE  Steady(e, f) /\ (Alive(f) <=> Alive(e))
  BY QuietFields DEF Steady, Alive, Moves, Agrees, Late

(* What e has sent is still what it says after a step. *)
LEMMA SoundKept ==
    ASSUME NEW e, NEW f, NEW rec, Steady(e, f), Sound(e, rec), e.mode \in Peer
    PROVE  Sound(f, rec)
<1> SUFFICES ASSUME rec.ct = "handshake" PROVE Carries(f, rec.msg)
  BY Zenon DEF Sound
<1> DEFINE m == rec.msg
<1>1. Carries(e, m)
  BY Zenon DEF Sound
<1> HIDE DEF m
<1>2. f.mode = e.mode /\ f.cfg = e.cfg
  BY DEF Steady
<1>3. ASSUME m.type = "finished", Alive(f)
      PROVE  FinishedSent(f, m)
  <2>1. FinishedSent(e, m) /\ Late(e, f)
    BY <1>1, <1>3, Zenon DEF Carries, Steady
  <2>2. CASE e.mode = "server"
    <3>1. /\ m = Finished(e, "server", m.mac.over) /\ ServerDone(e)
          /\ e.application_traffic = TrafficKeys(e, "application", Hashed(m.mac.over, FinishedDigest))
      BY <2>1, <2>2, Zenon DEF FinishedSent
    <3>2. /\ Active(f) \in AfterServerFinished
          /\ f.write = e.write /\ f.application_traffic = e.application_traffic
          /\ f.handshake_traffic = e.handshake_traffic /\ f.cipher = e.cipher /\ f.shared = e.shared
      BY <2>1, <2>2, <3>1, Zenon DEF Late, ServerDone
    <3>3. ServerDone(f)
      BY <3>1, <3>2, Zenon DEF ServerDone
    <3>4. TrafficKeys(f, "application", Hashed(m.mac.over, FinishedDigest))
            = TrafficKeys(e, "application", Hashed(m.mac.over, FinishedDigest))
      BY <3>2, SameTrafficKeys
    <3>5. Finished(f, "server", m.mac.over) = Finished(e, "server", m.mac.over)
      BY <3>2, Zenon DEF Finished
    <3>6. f.mode = "server" /\ f.mode # "client"
      BY <1>2, <2>2
    <3> QED BY <3>1, <3>2, <3>3, <3>4, <3>5, <3>6, Zenon DEF FinishedSent
  <2>3. CASE e.mode = "client"
    <3>1. /\ m = Finished(e, "client", m.mac.over) /\ Active(e) = "APPLICATION_DATA"
          /\ e.handshake_hash = Hashed(m.mac.over, FinishedDigest)
      BY <2>1, <2>3, Zenon DEF FinishedSent
    <3>2. /\ Active(f) = "APPLICATION_DATA" /\ f.handshake_hash = e.handshake_hash
          /\ f.handshake_traffic = e.handshake_traffic
      BY <2>1, <2>3, <3>1, Zenon DEF Late
    <3>3. Finished(f, "client", m.mac.over) = Finished(e, "client", m.mac.over)
      BY <3>2, Zenon DEF Finished
    <3>4. f.mode = "client" /\ f.mode # "server"
      BY <1>2, <2>3
    <3> QED BY <3>1, <3>2, <3>3, <3>4, Zenon DEF FinishedSent
  <2> QED BY <2>2, <2>3 DEF Peer
<1>4. Carries(f, m)
  BY <1>1, <1>2, <1>3, Zenon DEF Carries
<1> QED BY <1>4, Zenon DEF m

(* The same for a sequence of records. *)
LEMMA RecordsKept ==
    ASSUME NEW e, NEW f, NEW q, Steady(e, f), Records(e, q), e.mode \in Peer
    PROVE  Records(f, q)
  BY SoundKept, Zenon DEF Records

(* What an endpoint knows of its peer still holds after a step of the peer. *)
LEMMA PeerKept ==
    ASSUME NEW e, NEW o, NEW q, Steady(o, q), Living(e, o), o.mode = Other(e.mode), e.mode \in Peer
    PROVE  Living(e, q)
<1>1. q.cfg = o.cfg
  BY DEF Steady
<1>2. CASE e.mode = "client"
  <2>1. o.mode = "server" /\ e.mode # "server"
    BY <1>2 DEF Other
  <2>2. ServerSeen(e, q)
    BY <1>1, <1>2, Zenon DEF Living, ServerSeen
  <2>3. ServerAgreed(e, q)
    <3>1. ServerAgreed(e, o)
      BY <1>2, Zenon DEF Living
    <3>2. ASSUME Alive(q), Active(e) \in AfterServerFinished PROVE ServerDone(q) /\ e.application_traffic = q.application_traffic /\ e.cipher = q.cipher
      <4>1. Alive(o) /\ Late(o, q)
        BY <3>2, Zenon DEF Steady
      <4>2. ServerDone(o) /\ e.application_traffic = o.application_traffic /\ e.cipher = o.cipher
        BY <3>1, <3>2, <4>1, Zenon DEF ServerAgreed
      <4>3. /\ Active(q) \in AfterServerFinished
            /\ q.write = o.write /\ q.application_traffic = o.application_traffic /\ q.cipher = o.cipher
        BY <2>1, <4>1, <4>2, Zenon DEF Late, ServerDone
      <4> QED BY <4>2, <4>3, Zenon DEF ServerDone
    <3> QED BY <3>1, <3>2, Zenon DEF ServerAgreed
  <2> QED BY <1>2, <2>1, <2>2, <2>3, Zenon DEF Living
<1>3. CASE e.mode = "server"
  <2>1. o.mode = "client" /\ e.mode # "client"
    BY <1>3 DEF Other
  <2>2. ClientSeen(e, q)
    BY <1>1, <1>3, Zenon DEF Living, ClientSeen
  <2>3. ClientAgreed(e, q)
    <3>1. ClientAgreed(e, o)
      BY <1>3, Zenon DEF Living
    <3>2. ASSUME Active(e) = "APPLICATION_DATA", Alive(q) PROVE Active(q) = "APPLICATION_DATA" /\ e.handshake_hash = q.handshake_hash
      <4>1. Alive(o) /\ Late(o, q)
        BY <3>2, Zenon DEF Steady
      <4>2. Active(o) = "APPLICATION_DATA" /\ e.handshake_hash = o.handshake_hash
        BY <3>1, <3>2, <4>1, Zenon DEF ClientAgreed
      <4> QED BY <2>1, <4>1, <4>2, Zenon DEF Late
    <3> QED BY <3>1, <3>2, Zenon DEF ClientAgreed
  <2> QED BY <1>3, <2>1, <2>2, <2>3, Zenon DEF Living
<1> QED BY <1>2, <1>3 DEF Peer

(* A record read by an endpoint that waits for a message. *)
LEMMA RecvResult ==
    ASSUME NEW e, NEW o, NEW rec, Typed(e), Typed(o), Succeeded(e), Living(e, o), Sound(o, rec),
           o.mode = Other(e.mode), Alive(o) => Living(o, e), e.mode \in Peer,
           state_machine[Active(e)].sender = Other(e.mode)
    PROVE  Result(e, tls13_record_layer_read_record(e, rec), o)
<1> DEFINE f == tls13_record_layer_read_record(e, rec)
           U == AbortWith(e, "unexpected_message")
           g == [e EXCEPT !.ccs_seen = @ + 1]
           a == tls13_handshake_recv_action(e, rec.msg)
<1>1. f = CASE rec.ct = "ccs" -> IF ~e.ccs_allowed \/ e.ccs_seen >= 2 THEN U ELSE g
            [] rec.ct # "ccs" /\ (rec.key = None) # (e.read = None) -> U
            [] rec.ct # "ccs" /\ (rec.key = None) = (e.read = None) /\ rec.key # e.read -> Abort(e)
            [] rec.ct = "alert" /\ rec.key = e.read -> Abort(e)
            [] rec.ct = "handshake" /\ rec.key = e.read -> a
  BY Zenon DEF tls13_record_layer_read_record
<1>2. \/ f \in {U, Abort(e)}
      \/ f = g /\ ~(e.ccs_seen >= 2)
      \/ f = a /\ rec.ct = "handshake"
  <2>1. rec.ct \in {"ccs", "alert", "handshake"}
    BY DEF Sound, Content
  <2> HIDE DEF f, U, g, a
  <2>2. CASE rec.ct = "ccs"
    BY <1>1, <2>2
  <2>3. CASE rec.ct # "ccs" /\ (rec.key = None) # (e.read = None)
    BY <1>1, <2>1, <2>3
  <2>4. CASE rec.ct # "ccs" /\ (rec.key = None) = (e.read = None) /\ rec.key # e.read
    BY <1>1, <2>1, <2>4
  <2>5. CASE rec.ct # "ccs" /\ rec.key = e.read
    BY <1>1, <2>1, <2>5
  <2> QED BY <2>2, <2>3, <2>4, <2>5
<1>3. Ready(e)
  BY DEF Ready, Typed
<1>4. CASE f \in {U, Abort(e)}
  <2>1. Dies(e, U) /\ Dies(e, Abort(e))
    BY <1>3, Alerts, AbortsWith, Zenon
  <2>2. Dies(e, f)
    BY <1>4, <2>1, Zenon
  <2> QED BY <2>2, Dead, Zenon
<1>5. CASE f = g /\ ~(e.ccs_seen >= 2)
  <2>1. Changes(e, g, {"ccs_seen"}) /\ g.ccs_seen = e.ccs_seen + 1
    BY <1>3 DEF Ready, Changes, Shape, Fields
  <2>2. PICK k : k = g
    OBVIOUS
  <2> HIDE DEF g
  <2>3. Quiet(e, k) /\ k.out = e.out /\ Shape(k)
    BY <2>1, <2>2 DEF Quiet, Matters, Changes, Fields
  <2>4. Typed(k)
    <3>1. k.ccs_seen \in 0 .. 2
      BY <1>5, <2>1, <2>2 DEF Typed
    <3>2. /\ k.mode = e.mode /\ k.cfg = e.cfg /\ k.st = e.st /\ k.hs = e.hs /\ k.n = e.n
          /\ k.alert = e.alert
      BY <2>3, QuietFields
    <3> QED BY <2>3, <3>1, <3>2 DEF Typed, Alive
  <2>5. Living(k, o) /\ Steady(e, k)
    BY <2>3, QuietLiving, AliveOrNot, Zenon
  <2> QED BY <1>5, <2>2, <2>3, <2>4, <2>5, Zenon DEF Result, Writes
<1>6. CASE f = a /\ rec.ct = "handshake"
  <2> DEFINE m == rec.msg
  <2>1. Carries(o, m)
    BY <1>6, Zenon DEF Sound
  <2>2. Active(e) \in Names
    BY Entries DEF Living, Placed
  <2> HIDE DEF m
  <2>3. CASE e.mode = "server"
    <3>1. Active(e) \in {"CLIENT_HELLO", "CLIENT_HELLO_RETRY", "CLIENT_CERTIFICATE", "CLIENT_CERTIFICATE_VERIFY", "CLIENT_FINISHED"}
      BY <2>2, <2>3, Entries DEF Names, Entry, Other
    <3>2. Result(e, tls13_handshake_recv_action(e, m), o)
      BY <2>1, <2>3, <3>1, TakesClientHello, TakesClientHelloRetry, TakesClientCertificate, TakesClientCertificateVerify, TakesClientFinished
    <3> QED BY <1>6, <3>2, Zenon DEF m
  <2>4. CASE e.mode = "client"
    <3>1. Active(e) \in {"SERVER_HELLO_RETRY_REQUEST", "SERVER_HELLO", "SERVER_ENCRYPTED_EXTENSIONS", "SERVER_CERTIFICATE_REQUEST", "SERVER_CERTIFICATE", "SERVER_CERTIFICATE_VERIFY", "SERVER_FINISHED"}
      BY <2>2, <2>4, Entries DEF Names, Entry, Other
    <3>2. Result(e, tls13_handshake_recv_action(e, m), o)
      BY <2>1, <2>4, <3>1, TakesRetryRequest, TakesServerHello, TakesEncryptedExtensions, TakesCertificateRequest, TakesServerCertificate, TakesServerCertificateVerify, TakesServerFinished
    <3> QED BY <1>6, <3>2, Zenon DEF m
  <2> QED BY <2>3, <2>4 DEF Peer
<1> QED BY <1>2, <1>4, <1>5, <1>6, Zenon
-----------------------------------------------------------------------------
(* Building a message. *)

BuildFields ==
    {"hs_msg", "key_share", "server_group", "hrr", "transcript", "frozen", "handshake_hash", "hs"}

(* f is e with the message it has to send. *)
Prepared(e, f) == Works(e, f, BuildFields) /\ Keeps(e, f) /\ Fits(f, f.hs_msg)

(* Building a message keeps what Living speaks of. *)
LEMMA KeepsBy ==
    ASSUME NEW e, NEW f, NEW o, NEW X, Works(e, f, X), X \subseteq BuildFields, "hs" \notin X,
           "handshake_hash" \notin X \/ Active(e) = "SERVER_HELLO_RETRY_REQUEST", Living(e, o)
    PROVE  Keeps(e, f) /\ Works(e, f, BuildFields)
<1>1. e.hs \in Rows
  BY DEF Living, Placed
<1>2. /\ f.mode = e.mode /\ f.cfg = e.cfg /\ f.st = e.st /\ f.n = e.n /\ f.alert = e.alert
      /\ f.send_dummy_ccs_after = e.send_dummy_ccs_after /\ f.read = e.read /\ f.write = e.write
      /\ f.cipher = e.cipher /\ f.shared = e.shared /\ f.handshake_traffic = e.handshake_traffic
      /\ f.application_traffic = e.application_traffic
      /\ f.peer_cert = e.peer_cert /\ f.peer_proved = e.peer_proved
      /\ f.hs = e.hs /\ ("handshake_hash" \notin X => f.handshake_hash = e.handshake_hash)
  BY DEF Works, Changes, Fields, BuildFields
<1>3. Active(f) = Active(e)
  BY <1>2 DEF Active
<1>4. Works(e, f, BuildFields)
  BY DEF Works, Changes
<1> QED BY <1>1, <1>2, <1>3, <1>4 DEF Keeps, Agrees

(* A message of the right type that is neither certificate nor finished fits. *)
LEMMA FitsBy ==
    ASSUME NEW e, NEW f, NEW m, Keeps(e, f), SendsNext(e), "type" \in DOMAIN m,
           m.type = state_machine[Active(e)].type, m.type \notin {"certificate", "finished"}
    PROVE  Fits(f, m)
<1>1. f.mode = e.mode /\ Active(f) = Active(e)
  BY DEF Keeps
<1>2. Active(e) # "SERVER_CERTIFICATE"
  BY Entries DEF Entry
<1> QED BY <1>1, <1>2 DEF Fits, SendsNext

(* Setting hs_msg changes nothing else. *)
LEMMA SetMessage ==
    ASSUME NEW e, NEW m, Ready(e)
    PROVE  LET f == [e EXCEPT !.hs_msg = m] IN Works(e, f, {"hs_msg"}) /\ f.hs_msg = m
<1> DEFINE f == [e EXCEPT !.hs_msg = m]
<1>1. Changes(e, f, {"hs_msg"}) /\ f.hs_msg = m
  BY DEF Ready, Shape, Fields, Changes
<1> HIDE DEF f
<1>2. Works(e, f, {"hs_msg"}) /\ f.hs_msg = m
  BY <1>1, WorksBy
<1> QED BY <1>2, Zenon DEF f

(* A message whose content no property asks for. *)
LEMMA PlainMessage ==
    ASSUME NEW e, NEW o, NEW m, Ready(e), Living(e, o), SendsNext(e), "type" \in DOMAIN m,
           m.type = state_machine[Active(e)].type, m.type \notin {"certificate", "finished"}
    PROVE  Prepared(e, [e EXCEPT !.hs_msg = m])
<1> DEFINE f == [e EXCEPT !.hs_msg = m]
<1>1. Works(e, f, {"hs_msg"}) /\ f.hs_msg = m
  BY SetMessage, Zenon
<1> HIDE DEF f
<1>2. Keeps(e, f) /\ Works(e, f, BuildFields)
  BY <1>1, KeepsBy DEF BuildFields
<1>3. Fits(f, m)
  BY <1>2, FitsBy, Zenon
<1>4. Prepared(e, f)
  BY <1>1, <1>2, <1>3, Zenon DEF Prepared
<1> QED BY <1>4, Zenon DEF f

(* The handler of each message sent. *)
LEMMA SendHandlers ==
    ASSUME NEW e
    PROVE  /\ SendHandler(e, "CLIENT_HELLO") = tls13_client_hello_send(e)
           /\ SendHandler(e, "CLIENT_HELLO_RETRY") = tls13_client_hello_retry_send(e)
           /\ SendHandler(e, "CLIENT_CERTIFICATE") = tls13_client_certificate_send(e)
           /\ SendHandler(e, "CLIENT_CERTIFICATE_VERIFY") = tls13_client_certificate_verify_send(e)
           /\ SendHandler(e, "CLIENT_FINISHED") = tls13_client_finished_send(e)
           /\ SendHandler(e, "SERVER_HELLO") = tls13_server_hello_send(e)
           /\ SendHandler(e, "SERVER_HELLO_RETRY_REQUEST") = tls13_server_hello_retry_request_send(e)
           /\ SendHandler(e, "SERVER_ENCRYPTED_EXTENSIONS") = tls13_server_encrypted_extensions_send(e)
           /\ SendHandler(e, "SERVER_CERTIFICATE") = tls13_server_certificate_send(e)
           /\ SendHandler(e, "SERVER_CERTIFICATE_REQUEST") = tls13_server_certificate_request_send(e)
           /\ SendHandler(e, "SERVER_CERTIFICATE_VERIFY") = tls13_server_certificate_verify_send(e)
           /\ SendHandler(e, "SERVER_FINISHED") = tls13_server_finished_send(e)
  BY DEF SendHandler

(* The messages that always succeed and carry nothing of interest. *)
LEMMA PlainSends ==
    ASSUME NEW e, NEW o, Ready(e), Living(e, o), SendsNext(e),
           Active(e) \in {"CLIENT_HELLO", "CLIENT_CERTIFICATE_VERIFY", "SERVER_ENCRYPTED_EXTENSIONS",
                          "SERVER_CERTIFICATE_REQUEST", "SERVER_CERTIFICATE_VERIFY"}
    PROVE  Prepared(e, SendHandler(e, Active(e)))
<1>1. CASE Active(e) = "CLIENT_HELLO"
  <2> DEFINE m == tls13_client_hello_build(e)
  <2>1. "type" \in DOMAIN m /\ m.type = "client_hello"
    BY DEF tls13_client_hello_build
  <2>2. state_machine[Active(e)].type = "client_hello"
    BY <1>1, Entries DEF Entry
  <2> HIDE DEF m
  <2>3. Prepared(e, [e EXCEPT !.hs_msg = m])
    BY <2>1, <2>2, PlainMessage
  <2>4. SendHandler(e, Active(e)) = [e EXCEPT !.hs_msg = m]
    BY <1>1, SendHandlers, Zenon DEF tls13_client_hello_send, m
  <2> QED BY <2>3, <2>4, Zenon
<1>2. CASE Active(e) = "CLIENT_CERTIFICATE_VERIFY"
  <2> DEFINE m == CertificateVerify("client", e.transcript_hash)
  <2>1. "type" \in DOMAIN m /\ m.type = "certificate_verify"
    BY DEF CertificateVerify
  <2>2. state_machine[Active(e)].type = "certificate_verify"
    BY <1>2, Entries DEF Entry
  <2> HIDE DEF m
  <2>3. Prepared(e, [e EXCEPT !.hs_msg = m])
    BY <2>1, <2>2, PlainMessage
  <2>4. SendHandler(e, Active(e)) = [e EXCEPT !.hs_msg = m]
    BY <1>2, SendHandlers, Zenon DEF tls13_client_certificate_verify_send, m
  <2> QED BY <2>3, <2>4, Zenon
<1>3. CASE Active(e) = "SERVER_CERTIFICATE_VERIFY"
  <2> DEFINE m == CertificateVerify("server", e.transcript_hash)
  <2>1. "type" \in DOMAIN m /\ m.type = "certificate_verify"
    BY DEF CertificateVerify
  <2>2. state_machine[Active(e)].type = "certificate_verify"
    BY <1>3, Entries DEF Entry
  <2> HIDE DEF m
  <2>3. Prepared(e, [e EXCEPT !.hs_msg = m])
    BY <2>1, <2>2, PlainMessage
  <2>4. SendHandler(e, Active(e)) = [e EXCEPT !.hs_msg = m]
    BY <1>3, SendHandlers, Zenon DEF tls13_server_certificate_verify_send, m
  <2> QED BY <2>3, <2>4, Zenon
<1>4. CASE Active(e) = "SERVER_ENCRYPTED_EXTENSIONS"
  <2> DEFINE m == [type |-> "encrypted_extensions"]
  <2>1. "type" \in DOMAIN m /\ m.type = "encrypted_extensions"
    OBVIOUS
  <2>2. state_machine[Active(e)].type = "encrypted_extensions"
    BY <1>4, Entries DEF Entry
  <2> HIDE DEF m
  <2>3. Prepared(e, [e EXCEPT !.hs_msg = m])
    BY <2>1, <2>2, PlainMessage
  <2>4. SendHandler(e, Active(e)) = [e EXCEPT !.hs_msg = m]
    BY <1>4, SendHandlers, Zenon DEF tls13_server_encrypted_extensions_send, m
  <2> QED BY <2>3, <2>4, Zenon
<1>5. CASE Active(e) = "SERVER_CERTIFICATE_REQUEST"
  <2> DEFINE m == [type |-> "certificate_request"]
  <2>1. "type" \in DOMAIN m /\ m.type = "certificate_request"
    OBVIOUS
  <2>2. state_machine[Active(e)].type = "certificate_request"
    BY <1>5, Entries DEF Entry
  <2> HIDE DEF m
  <2>3. Prepared(e, [e EXCEPT !.hs_msg = m])
    BY <2>1, <2>2, PlainMessage
  <2>4. SendHandler(e, Active(e)) = [e EXCEPT !.hs_msg = m]
    BY <1>5, SendHandlers, Zenon DEF tls13_server_certificate_request_send, m
  <2> QED BY <2>3, <2>4, Zenon
<1> QED BY <1>1, <1>2, <1>3, <1>4, <1>5

(* The Finished messages. *)
LEMMA FinishedSends ==
    ASSUME NEW e, NEW o, Ready(e), Living(e, o), SendsNext(e), e.mode \in Peer,
           Active(e) \in {"CLIENT_FINISHED", "SERVER_FINISHED"}
    PROVE  Prepared(e, SendHandler(e, Active(e)))
<1> DEFINE m == Finished(e, e.mode, e.handshake_hash)
           f == [e EXCEPT !.hs_msg = m]
<1>1. SendHandler(e, Active(e)) = f
  <2>1. \/ Active(e) = "CLIENT_FINISHED" /\ e.mode = "client"
        \/ Active(e) = "SERVER_FINISHED" /\ e.mode = "server"
    BY Entries DEF SendsNext, Entry
  <2>2. CASE Active(e) = "CLIENT_FINISHED" /\ e.mode = "client"
    BY <2>2, SendHandlers, Zenon DEF tls13_client_finished_send
  <2>3. CASE Active(e) = "SERVER_FINISHED" /\ e.mode = "server"
    BY <2>3, SendHandlers, Zenon DEF tls13_server_finished_send
  <2> QED BY <2>1, <2>2, <2>3
<1>2. "type" \in DOMAIN m /\ m.type = "finished" /\ state_machine[Active(e)].type = "finished"
  BY Entries DEF Entry, Finished
<1>3. m = Finished(e, e.mode, e.handshake_hash)
  BY Zenon
<1>4. Works(e, f, {"hs_msg"}) /\ f.hs_msg = m
  BY SetMessage, Zenon
<1> HIDE DEF f, m
<1>5. Keeps(e, f) /\ Works(e, f, BuildFields)
  BY <1>4, KeepsBy DEF BuildFields
<1>6. /\ f.mode = e.mode /\ Active(f) = Active(e) /\ f.handshake_traffic = e.handshake_traffic
      /\ f.handshake_hash = e.handshake_hash
  BY <1>5 DEF Keeps
<1>7. m = Finished(f, f.mode, f.handshake_hash)
  BY <1>3, <1>6, Zenon DEF Finished
<1>8. Fits(f, m)
  BY <1>2, <1>6, <1>7 DEF Fits, SendsNext
<1>9. Prepared(e, f)
  BY <1>4, <1>5, <1>8, Zenon DEF Prepared
<1> QED BY <1>1, <1>9, Zenon

(* The send handlers that touch more than hs_msg. *)
LEMMA ServerCertificateSend ==
    ASSUME NEW e, NEW o, Ready(e), Living(e, o), SendsNext(e), Active(e) = "SERVER_CERTIFICATE"
    PROVE  LET f == SendHandler(e, Active(e)) IN Dies(e, f) \/ Prepared(e, f)
<1> DEFINE m == Certificate(e.cfg.cert)
           f == SendHandler(e, Active(e))
           g == [e EXCEPT !.hs_msg = m]
           A == AbortWith(e, "handshake_failure")
<1>1. f = A \/ (f = g /\ e.cfg.cert # None)
  BY SendHandlers, Zenon DEF tls13_server_certificate_send
<1>2. Dies(e, A)
  BY Alerts, AbortsWith, Zenon
<1>3. "type" \in DOMAIN m /\ m.type = "certificate" /\ state_machine[Active(e)].type = "certificate"
  BY Entries DEF Entry, Certificate
<1>4. Works(e, g, {"hs_msg"}) /\ g.hs_msg = m
  BY SetMessage, Zenon
<1>5. m = Certificate(e.cfg.cert)
  BY Zenon
<1> HIDE DEF f, g, A, m
<1>6. Keeps(e, g) /\ Works(e, g, BuildFields)
  BY <1>4, KeepsBy DEF BuildFields
<1>7. g.mode = e.mode /\ g.cfg = e.cfg /\ Active(g) = Active(e)
  BY <1>6 DEF Keeps
<1>8. e.cfg.cert # None => Fits(g, m)
  BY <1>3, <1>5, <1>7 DEF Fits, SendsNext
<1>9. Dies(e, f) \/ Prepared(e, f)
  BY <1>1, <1>2, <1>4, <1>6, <1>8, Zenon DEF Prepared
<1> QED BY <1>9, Zenon DEF f

(* With a certificate the handshake becomes one with a CertificateVerify. *)
LEMMA ClientCertificateSend ==
    ASSUME NEW e, NEW o, Ready(e), Living(e, o), SendsNext(e), e.mode = "client", e.n \in Nat,
           Active(e) = "CLIENT_CERTIFICATE"
    PROVE  Prepared(e, SendHandler(e, Active(e)))
<1> DEFINE c == IF e.cfg.cert = None THEN "empty" ELSE e.cfg.cert
           m == Certificate(c)
           f == SendHandler(e, Active(e))
           g == [e EXCEPT !.hs_msg = m]
           ks == e.hs \cup {"WITH_CCV"}
           k == [e EXCEPT !.hs_msg = m, !.hs = ks]
<1>1. (f = g /\ e.cfg.cert = None) \/ (f = k /\ e.cfg.cert # None)
  <2>1. f = IF e.cfg.cert = None THEN [e EXCEPT !.hs_msg = Certificate("empty")]
            ELSE [e EXCEPT !.hs_msg = Certificate(e.cfg.cert), !.hs = @ \cup {"WITH_CCV"}]
    BY SendHandlers, Zenon DEF tls13_client_certificate_send
  <2> HIDE DEF f
  <2>2. CASE e.cfg.cert = None
    BY <2>1, <2>2, Zenon
  <2>3. CASE e.cfg.cert # None
    <3>1. f = [e EXCEPT !.hs_msg = Certificate(e.cfg.cert), !.hs = @ \cup {"WITH_CCV"}] /\ c = e.cfg.cert
      BY <2>1, <2>3, Zenon
    <3>2. f = k
      BY <3>1
    <3> QED BY <2>3, <3>2
  <2> QED BY <2>2, <2>3
<1>2. "type" \in DOMAIN m /\ m.type = "certificate" /\ state_machine[Active(e)].type = "certificate"
  BY Entries DEF Entry, Certificate
<1>3. m = Certificate(IF e.cfg.cert = None THEN "empty" ELSE e.cfg.cert)
  BY Zenon
<1>4. Works(e, g, {"hs_msg"}) /\ g.hs_msg = m
  BY SetMessage, Zenon
<1>5. Switch(e.hs, e.n, ks, "CLIENT_CERTIFICATE") /\ e.hs \in Rows
  BY SwitchVerify DEF Living, Placed, Active
<1>6. Changes(e, k, {"hs_msg", "hs"}) /\ k.hs_msg = m /\ k.hs = ks
  <2> HIDE DEF m, ks
  <2> QED BY ZenonT(40) DEF Ready, Shape, Fields, Changes
<1>7. ks \subseteq Flag
  BY DEF Ready, Flag
<1> HIDE DEF f, g, k, m, ks, c
<1>8. Keeps(e, g) /\ Works(e, g, BuildFields)
  BY <1>4, KeepsBy DEF BuildFields
<1>9. /\ k.mode = e.mode /\ k.cfg = e.cfg /\ k.st = e.st /\ k.n = e.n /\ k.alert = e.alert
      /\ k.send_dummy_ccs_after = e.send_dummy_ccs_after /\ k.read = e.read /\ k.write = e.write
      /\ k.cipher = e.cipher /\ k.shared = e.shared /\ k.handshake_traffic = e.handshake_traffic
      /\ k.application_traffic = e.application_traffic
      /\ k.peer_cert = e.peer_cert /\ k.peer_proved = e.peer_proved
      /\ k.handshake_hash = e.handshake_hash
  BY <1>6 DEF Changes, Fields
<1>10. Keeps(e, k)
  <2>1. k.hs \in Rows /\ Active(k) = "CLIENT_CERTIFICATE" /\ Agrees(e.hs, k.hs, e.n)
    BY <1>5, <1>6, <1>9, Zenon DEF Switch, Active
  <2> QED BY <1>9, <2>1 DEF Keeps
<1>11. Works(e, k, BuildFields)
  <2>1. Succeeded(k) /\ k.hs \subseteq Flag
    BY <1>6, <1>7, <1>9 DEF Ready, Succeeded
  <2>2. Changes(e, k, BuildFields)
    BY <1>6 DEF Changes, BuildFields
  <2> QED BY <2>1, <2>2 DEF Works
<1>12. f.hs_msg = m /\ Keeps(e, f) /\ Works(e, f, BuildFields)
  BY <1>1, <1>4, <1>6, <1>8, <1>10, <1>11, Zenon
<1>13. f.mode = e.mode /\ f.cfg = e.cfg /\ Active(f) = Active(e)
  BY <1>12 DEF Keeps
<1>14. Fits(f, m)
  BY <1>2, <1>3, <1>13 DEF Fits, SendsNext
<1>15. Prepared(e, f)
  BY <1>12, <1>14, Zenon DEF Prepared
<1> QED BY <1>15, Zenon DEF f

LEMMA ClientHelloRetrySend ==
    ASSUME NEW e, NEW o, Ready(e), Living(e, o), SendsNext(e), Active(e) = "CLIENT_HELLO_RETRY"
    PROVE  LET f == SendHandler(e, Active(e)) IN Dies(e, f) \/ Prepared(e, f)
<1> DEFINE f == SendHandler(e, Active(e))
           share == tls_key_share_new(e.server_group, tls_key_share_generate("client", 2), None)
           k == [e EXCEPT !.key_share = share]
           m == tls13_client_hello_build(k)
           g == [k EXCEPT !.hs_msg = m]
<1>1. f = Abort(e) \/ f = g
  BY SendHandlers, Zenon DEF tls13_client_hello_retry_send
<1>2. Dies(e, Abort(e))
  BY AbortDies, ReadyFacts, Zenon
<1>3. "type" \in DOMAIN m /\ m.type = "client_hello" /\ state_machine[Active(e)].type = "client_hello"
  BY Entries DEF Entry, tls13_client_hello_build
<1>4. Works(e, k, {"key_share"})
  <2> HIDE DEF share
  <2>1. Changes(e, k, {"key_share"})
    BY DEF Ready, Shape, Fields, Changes
  <2> HIDE DEF k
  <2> QED BY <2>1, WorksBy
<1> HIDE DEF k
<1>5. Works(k, g, {"hs_msg"}) /\ g.hs_msg = m
  BY <1>4, WorksReady, SetMessage, Zenon
<1> HIDE DEF f, g, m
<1>6. Works(e, g, {"key_share", "hs_msg"})
  BY <1>4, <1>5, WorksTwice
<1>7. Keeps(e, g) /\ Works(e, g, BuildFields)
  BY <1>6, KeepsBy DEF BuildFields
<1>8. Fits(g, m)
  BY <1>3, <1>7, FitsBy
<1>9. Dies(e, f) \/ Prepared(e, f)
  BY <1>1, <1>2, <1>5, <1>7, <1>8, Zenon DEF Prepared
<1> QED BY <1>9, Zenon DEF f

LEMMA ServerHelloSend ==
    ASSUME NEW e, NEW o, Ready(e), Living(e, o), SendsNext(e), Active(e) = "SERVER_HELLO"
    PROVE  LET f == SendHandler(e, Active(e)) IN Dies(e, f) \/ Prepared(e, f)
<1> DEFINE f == SendHandler(e, Active(e))
           pub == tls_key_share_generate("server", 1)
           m == tls13_server_hello_build(e, "fresh", e.key_share.group, pub)
           share == [e.key_share EXCEPT !.pub = pub]
           g == [e EXCEPT !.key_share = share, !.server_group = None, !.hs_msg = m]
           X == {"key_share", "server_group", "hs_msg"}
<1>1. f = Abort(e) \/ f = g
  <2>1. f = IF e.key_share = None THEN Abort(e)
            ELSE [e EXCEPT !.key_share.pub = pub, !.server_group = None, !.hs_msg = m]
    BY SendHandlers, Zenon DEF tls13_server_hello_send
  <2>2. g = [e EXCEPT !.key_share.pub = pub, !.server_group = None, !.hs_msg = m]
    <3> HIDE DEF m, pub
    <3> QED OBVIOUS
  <2> HIDE DEF f, g
  <2> QED BY <2>1, <2>2
<1>2. Dies(e, Abort(e))
  BY AbortDies, ReadyFacts, Zenon
<1>3. "type" \in DOMAIN m /\ m.type = "server_hello" /\ state_machine[Active(e)].type = "server_hello"
  BY Entries DEF Entry, tls13_server_hello_build
<1>4. Changes(e, g, X) /\ g.hs_msg = m
  <2> HIDE DEF share, m
  <2> QED BY ZenonT(40) DEF Ready, Shape, Fields, Changes
<1> HIDE DEF f, g, m
<1>5. Works(e, g, X)
  BY <1>4, WorksBy
<1>6. Keeps(e, g) /\ Works(e, g, BuildFields)
  BY <1>5, KeepsBy DEF BuildFields
<1>7. Fits(g, m)
  BY <1>3, <1>6, FitsBy
<1>8. Dies(e, f) \/ Prepared(e, f)
  BY <1>1, <1>2, <1>4, <1>6, <1>7, Zenon DEF Prepared
<1> QED BY <1>8, Zenon DEF f

LEMMA RetryRequestSend ==
    ASSUME NEW e, NEW o, Ready(e), Living(e, o), SendsNext(e),
           Active(e) = "SERVER_HELLO_RETRY_REQUEST"
    PROVE  LET f == SendHandler(e, Active(e)) IN Dies(e, f) \/ Prepared(e, f)
<1> DEFINE f == SendHandler(e, Active(e))
           h == [e EXCEPT !.hrr = TRUE]
           s == tls13_synthetic_handshake_message(h)
           group == tls1_get_supported_group(e)
           m == tls13_server_hello_build(e, "hrr", group, None)
           g == [s EXCEPT !.server_group = group, !.hs_msg = m]
           X == {"hrr", "handshake_hash", "transcript", "frozen"}
           Y == {"hrr", "handshake_hash", "transcript", "frozen", "server_group", "hs_msg"}
<1>1. f = Abort(s) \/ f = g
  BY SendHandlers, Zenon DEF tls13_server_hello_retry_request_send
<1>2. Changes(e, h, {"hrr"})
  BY DEF Ready, Shape, Fields, Changes
<1>3. "type" \in DOMAIN m /\ m.type = "server_hello" /\ state_machine[Active(e)].type = "server_hello"
  BY Entries DEF Entry, tls13_server_hello_build
<1> HIDE DEF h
<1>4. Changes(h, s, {"handshake_hash", "transcript", "frozen"})
  BY <1>2, Synthetic DEF Changes
<1> HIDE DEF s, group, m
<1>5. Changes(e, s, X)
  BY <1>2, <1>4, ChangesTwice
<1>6. Works(e, s, X) /\ Ready(s)
  BY <1>5, WorksBy, WorksReady
<1>7. Dies(e, Abort(s))
  <2>1. Dies(s, Abort(s))
    BY <1>6, AbortDies, ReadyFacts, Zenon
  <2> QED BY <1>5, <2>1, DiesLater
<1>8. Changes(s, g, {"server_group", "hs_msg"}) /\ g.hs_msg = m
  BY <1>6, ZenonT(40) DEF Ready, Shape, Fields, Changes
<1> HIDE DEF f, g
<1>9. Changes(e, g, Y)
  BY <1>5, <1>8, ChangesTwice
<1>10. Works(e, g, Y)
  BY <1>9, WorksBy
<1>11. Keeps(e, g) /\ Works(e, g, BuildFields)
  BY <1>10, KeepsBy DEF BuildFields
<1>12. Fits(g, m)
  BY <1>3, <1>11, FitsBy
<1>13. Dies(e, f) \/ Prepared(e, f)
  BY <1>1, <1>7, <1>8, <1>11, <1>12, Zenon DEF Prepared
<1> QED BY <1>13, Zenon DEF f

(* The message an endpoint has to send, whether it was built before or not. *)
LEMMA Builds ==
    ASSUME NEW e, NEW o, Typed(e), Succeeded(e), Living(e, o), SendsNext(e)
    PROVE  Dies(e, Built(e)) \/ Prepared(e, Built(e))
<1>1. Ready(e) /\ e.n \in Nat /\ e.mode \in Peer
  BY PositionTyped DEF Ready, Typed
<1>2. CASE e.hs_msg # None
  <2>1. Built(e) = e
    BY <1>2, Zenon DEF Built
  <2>2. Works(e, e, {"hs_msg"})
    BY <1>1 DEF Works, Ready, Changes
  <2>3. Keeps(e, e) /\ Works(e, e, BuildFields)
    BY <2>2, KeepsBy DEF BuildFields
  <2>4. Fits(e, e.hs_msg)
    BY <1>2, Zenon DEF Living, Pending
  <2> QED BY <2>1, <2>3, <2>4, Zenon DEF Prepared
<1>3. CASE e.hs_msg = None
  <2>1. Built(e) = SendHandler(e, Active(e))
    BY <1>3, Zenon DEF Built
  <2>2. Active(e) \in Names
    BY Entries DEF Living, Placed
  <2>3. e.mode = state_machine[Active(e)].sender
    BY DEF SendsNext
  <2>4. CASE Active(e) \in {"CLIENT_HELLO", "CLIENT_CERTIFICATE_VERIFY", "SERVER_ENCRYPTED_EXTENSIONS",
                            "SERVER_CERTIFICATE_REQUEST", "SERVER_CERTIFICATE_VERIFY"}
    BY <1>1, <2>1, <2>4, PlainSends
  <2>5. CASE Active(e) \in {"CLIENT_FINISHED", "SERVER_FINISHED"}
    BY <1>1, <2>1, <2>5, FinishedSends
  <2>6. CASE Active(e) = "SERVER_CERTIFICATE"
    BY <1>1, <2>1, <2>6, ServerCertificateSend, Zenon
  <2>7. CASE Active(e) = "CLIENT_CERTIFICATE"
    <3>1. e.mode = "client"
      BY <2>3, <2>7, Entries DEF Entry
    <3> QED BY <1>1, <2>1, <2>7, <3>1, ClientCertificateSend, Zenon
  <2>8. CASE Active(e) = "CLIENT_HELLO_RETRY"
    BY <1>1, <2>1, <2>8, ClientHelloRetrySend, Zenon
  <2>9. CASE Active(e) = "SERVER_HELLO"
    BY <1>1, <2>1, <2>9, ServerHelloSend, Zenon
  <2>10. CASE Active(e) = "SERVER_HELLO_RETRY_REQUEST"
    BY <1>1, <2>1, <2>10, RetryRequestSend, Zenon
  <2>11. Active(e) # "APPLICATION_DATA"
    BY <1>1, <2>3, Entries DEF Entry, Peer
  <2> QED BY <2>2, <2>4, <2>5, <2>6, <2>7, <2>8, <2>9, <2>10, <2>11 DEF Names
<1> QED BY <1>2, <1>3
-----------------------------------------------------------------------------
(* Writing a message. *)

(* A message that fits still fits while the endpoint keeps its place. *)
LEMMA FitsKept ==
    ASSUME NEW e, NEW f, NEW m, Keeps(e, f), Fits(e, m)
    PROVE  Fits(f, m)
<1>1. /\ f.mode = e.mode /\ f.cfg = e.cfg /\ Active(f) = Active(e)
      /\ f.handshake_traffic = e.handshake_traffic
      /\ Active(e) = "SERVER_HELLO_RETRY_REQUEST" \/ f.handshake_hash = e.handshake_hash
  BY DEF Keeps
<1>2. m.type = "finished" => f.handshake_hash = e.handshake_hash
  BY <1>1, Entries DEF Fits, Entry
<1>3. m.type = "finished" => m = Finished(f, f.mode, f.handshake_hash)
  BY <1>1, <1>2, Zenon DEF Fits, Finished
<1> QED BY <1>1, <1>3 DEF Fits, SendsNext

(* Two steady steps make one. *)
LEMMA SteadyTwice ==
    ASSUME NEW e, NEW f, NEW g, Steady(e, f), Steady(f, g), f.n = e.n
    PROVE  Steady(e, g)
<1>1. g.mode = e.mode /\ g.cfg = e.cfg
  BY DEF Steady
<1>2. ASSUME Alive(g) PROVE Alive(e) /\ Moves(e, g) /\ Late(e, g)
  <2>1. Alive(f) /\ Moves(f, g) /\ Late(f, g) /\ f.mode = e.mode
    BY <1>2 DEF Steady
  <2>2. Alive(e) /\ Moves(e, f) /\ Late(e, f)
    BY <2>1 DEF Steady
  <2>3. Moves(e, g)
    BY <2>1, <2>2 DEF Moves, Agrees
  <2>4. Late(e, g)
    BY <2>1, <2>2 DEF Late
  <2> QED BY <2>2, <2>3, <2>4
<1> QED BY <1>1, <1>2 DEF Steady

(* The end of a handshake that writes nothing. *)
Falls(e, f) == Dies(e, f) /\ f.out = e.out

(* Failures that write nothing. *)
LEMMA AbortFalls ==
    ASSUME NEW e, Ready(e)
    PROVE  Falls(e, Abort(e))
<1>1. Dies(e, Abort(e)) /\ Changes(e, Abort(e), {"st"})
  BY ReadyFacts, AbortDies, Zenon
<1>2. Abort(e).out = e.out
  <2> HIDE DEF Abort
  <2> QED BY <1>1 DEF Changes, Fields
<1> QED BY <1>1, <1>2, Zenon DEF Falls

LEMMA FallsLater ==
    ASSUME NEW e, NEW f, NEW g, NEW X, Changes(e, f, X), Falls(f, g),
           X \cap {"mode", "cfg", "n", "ccs_seen", "out"} = {}
    PROVE  Falls(e, g)
<1>1. f.out = e.out
  BY DEF Changes, Fields
<1>2. Dies(f, g) /\ g.out = f.out
  BY DEF Falls
<1>3. Dies(e, g)
  BY <1>2, DiesLater
<1> QED BY <1>1, <1>2, <1>3, Zenon DEF Falls

(* w is e with its message written in the record rec. *)
Written(e, w, rec) ==
    /\ Works(e, w, BuildFields \cup {"out", "wrec"}) /\ Keeps(e, w)
    /\ w.out = Append(e.out, rec) /\ w.wrec = None /\ rec.ct = "handshake"
    /\ Fits(w, rec.msg) /\ Fits(w, w.hs_msg)

(* What a write of a record leaves alone. *)
Quiets(e, f) ==
    /\ f.mode = e.mode /\ f.cfg = e.cfg /\ f.st = e.st /\ f.n = e.n /\ f.alert = e.alert
    /\ f.hs = e.hs /\ f.hs_msg = e.hs_msg /\ f.handshake_hash = e.handshake_hash
    /\ f.send_dummy_ccs_after = e.send_dummy_ccs_after /\ f.read = e.read /\ f.write = e.write
    /\ f.cipher = e.cipher /\ f.shared = e.shared /\ f.handshake_traffic = e.handshake_traffic
    /\ f.application_traffic = e.application_traffic
    /\ f.peer_cert = e.peer_cert /\ f.peer_proved = e.peer_proved

(* An endpoint that has built its message is still alive. *)
LEMMA BuiltLiving ==
    ASSUME NEW e, NEW b, NEW o, Typed(e), Succeeded(e), Living(e, o), SendsNext(e),
           ~e.send_dummy_ccs_after, Prepared(e, b)
    PROVE  Living(b, o) /\ Steady(e, b) /\ Pending(b) /\ Ready(b)
<1>1. Works(e, b, BuildFields) /\ Keeps(e, b) /\ Fits(b, b.hs_msg) /\ e.mode \in Peer
  BY DEF Prepared, Typed
<1>2. b.wrec = e.wrec
  BY <1>1 DEF Works, Changes, Fields, BuildFields
<1>3. ~b.send_dummy_ccs_after /\ SendsNext(b)
  BY <1>1 DEF Keeps, SendsNext
<1>4. Pending(e) /\ Alive(e)
  BY AliveOrNot DEF Living
<1>5. Pending(b)
  <2>1. \A m : Fits(e, m) => Fits(b, m)
    BY <1>1, FitsKept, Zenon
  <2> QED BY <1>1, <1>2, <1>3, <1>4, <2>1 DEF Pending
<1>6. Ready(b)
  BY <1>1, WorksReady, Zenon
<1> QED BY <1>1, <1>4, <1>5, <1>6, KeepsLiving

(* The record of the message is written, and it is sound. *)
LEMMA WritesMessage ==
    ASSUME NEW e, NEW o, Typed(e), Succeeded(e), Living(e, o), SendsNext(e), ~e.send_dummy_ccs_after
    PROVE  LET b == Built(e)
               w == tls13_record_layer_write_record(b, "handshake", b.hs_msg)
           IN  \/ ~Succeeded(b) /\ Dies(e, b)
               \/ Succeeded(b) /\ ~Succeeded(w) /\ Dies(e, w)
               \/ Succeeded(b) /\ Succeeded(w) /\ \E rec : Written(e, w, rec)
<1> DEFINE b == Built(e)
           w == tls13_record_layer_write_record(b, "handshake", b.hs_msg)
           fresh == tls13_record_layer_seal_record(b, "handshake", b.hs_msg)
           rec == IF b.wrec = None THEN fresh ELSE b.wrec
           g == [b EXCEPT !.out = Append(@, rec), !.wrec = None]
<1>1. Dies(e, b) \/ Prepared(e, b)
  BY Builds, Zenon
<1>2. w = IF rec.ct # "handshake" THEN Abort(b) ELSE g
  BY Zenon DEF tls13_record_layer_write_record
<1>3. fresh.ct = "handshake" /\ fresh.msg = b.hs_msg
  BY DEF tls13_record_layer_seal_record
<1> HIDE DEF b, fresh
<1>4. CASE Dies(e, b)
  BY <1>4, NotBoth, Zenon DEF b
<1>5. CASE Prepared(e, b)
  <2>1. Living(b, o) /\ Pending(b) /\ Ready(b)
    BY <1>5, BuiltLiving, Zenon
  <2>2. Succeeded(b) /\ Works(e, b, BuildFields) /\ Keeps(e, b) /\ Fits(b, b.hs_msg)
    BY <1>5, <2>1, Zenon DEF Prepared, Ready
  <2>3. CASE rec.ct # "handshake"
    <3>1. w = Abort(b)
      BY <1>2, <2>3
    <3>2. Dies(b, Abort(b))
      BY <2>1, AbortFalls, Zenon DEF Falls
    <3>3. Dies(e, w)
      <4> HIDE DEF w
      <4> QED BY <2>2, <3>1, <3>2, DiesLater DEF Works, BuildFields
    <3>4. ~Succeeded(w)
      BY <3>3, NotBoth
    <3> QED BY <2>2, <3>3, <3>4, Zenon DEF b
  <2>4. CASE rec.ct = "handshake"
    <3>1. Fits(b, rec.msg)
      BY <1>3, <2>1, <2>2, <2>4 DEF Pending
    <3> HIDE DEF rec
    <3>2. Changes(b, g, {"out", "wrec"}) /\ g.out = Append(b.out, rec) /\ g.wrec = None
      BY <2>1 DEF Ready, Shape, Fields, Changes
    <3>3. w = g
      BY <1>2, <2>4
    <3> HIDE DEF w, g
    <3>4. Works(b, w, {"out", "wrec"}) /\ w.hs = b.hs
      BY <2>1, <3>2, <3>3, WorksBy
    <3>5. Works(e, w, BuildFields \cup {"out", "wrec"})
      BY <2>2, <3>4, WorksTwice
    <3>6. b.out = e.out
      BY <2>2 DEF Works, Changes, Fields, BuildFields
    <3>7. Quiets(b, w)
      BY <3>4 DEF Works, Changes, Fields, Quiets
    <3>8. Keeps(e, w) /\ Keeps(b, w) /\ w.hs_msg = b.hs_msg
      <4>1. b.hs \in Rows /\ Active(w) = Active(b)
        BY <2>2, <3>7 DEF Keeps, Quiets, Active
      <4> QED BY <2>2, <3>7, <4>1 DEF Keeps, Quiets, Agrees
    <3>9. Fits(w, rec.msg) /\ Fits(w, w.hs_msg)
      BY <2>2, <3>1, <3>8, FitsKept, Zenon
    <3>10. Written(e, w, rec)
      <4>1. w.out = Append(e.out, rec) /\ w.wrec = None
        BY <3>2, <3>3, <3>6
      <4> QED BY <2>4, <3>5, <3>8, <3>9, <4>1, Zenon DEF Written
    <3>11. Succeeded(w)
      BY <3>4 DEF Works
    <3> QED BY <2>2, <3>10, <3>11, Zenon DEF w, b
  <2> QED BY <2>3, <2>4
<1> QED BY <1>1, <1>4, <1>5

(* What is written is what the endpoint says it is, should it end here. *)
LEMMA WrittenSound ==
    ASSUME NEW e, NEW w, NEW f, NEW rec, Written(e, w, rec), Active(e) \in Names,
           f.mode = w.mode, f.cfg = w.cfg,
           rec.msg.type = "finished" /\ Alive(f) => FinishedSent(f, rec.msg)
    PROVE  Sound(f, rec)
<1>1. rec.ct = "handshake" /\ Fits(w, rec.msg)
  BY DEF Written
<1>2. PICK m : m = rec.msg
  OBVIOUS
<1>3. m.type = "certificate" /\ w.mode = "server" => w.cfg.cert # None
  <2>1. m.type = "certificate" /\ w.mode = "server" => Active(w) = "SERVER_CERTIFICATE" \/ Active(w) \notin Names
    BY <1>1, <1>2, Entries, ZenonT(40) DEF Fits, SendsNext, Entry, Names
  <2>2. Active(w) \in Names
    BY DEF Written, Keeps
  <2> QED BY <1>1, <1>2, <2>1, <2>2 DEF Fits
<1>4. Carries(f, m)
  BY <1>1, <1>2, <1>3 DEF Carries, Fits
<1> QED BY <1>1, <1>2, <1>4 DEF Sound, Content

(* A failure after the record was written. *)
LEMMA WrittenFalls ==
    ASSUME NEW e, NEW w, NEW f, NEW o, NEW rec, Typed(e), Written(e, w, rec), Falls(w, f),
           Active(e) \in Names
    PROVE  Result(e, f, o)
<1>1. /\ f.mode = w.mode /\ f.cfg = w.cfg /\ f.n = w.n /\ f.ccs_seen = w.ccs_seen /\ Shape(f)
      /\ f.hs \subseteq Flag /\ f.st \in Status /\ f.st # "completed" /\ ~Alive(f) /\ f.out = w.out
  BY Zenon DEF Falls, Dies
<1>2. w.mode = e.mode /\ w.cfg = e.cfg /\ w.n = e.n /\ w.ccs_seen = e.ccs_seen
  BY DEF Written, Works, Changes, Fields, BuildFields
<1>3. w.out = Append(e.out, rec)
  BY Zenon DEF Written
<1>4. Sound(f, rec)
  BY <1>1, WrittenSound, Zenon
<1>5. IsSeq(f.out)
  <2>1. IsSeq(e.out)
    BY DEF Typed
  <2>2. IsSeq(Append(e.out, rec))
    BY <2>1, IsSeqAppend
  <2> QED BY <1>1, <1>3, <2>2, Zenon
<1>6. Typed(f)
  BY <1>1, <1>2, <1>5 DEF Typed
<1>7. Writes(e, f)
  BY <1>1, <1>3, <1>4, Zenon DEF Writes
<1>8. Steady(e, f)
  BY <1>1, <1>2, Zenon DEF Steady
<1> QED BY <1>1, <1>6, <1>7, <1>8, Zenon DEF Result

(* The message is in the transcript. *)
LogFields == {"handshake_hash", "transcript", "transcript_hash", "hs_msg"}

Logged(w, q, hash) ==
    /\ Works(w, q, LogFields) /\ q.hs = w.hs /\ q.hs_msg = None
    /\ q.handshake_hash = Hashed(w.handshake_hash, Digest(w.hs_msg))
    /\ hash => q.transcript_hash = q.handshake_hash

(* The message written is recorded, and its hash preserved where the table says so. *)
LEMMA Logs ==
    ASSUME NEW w, NEW mt, Ready(w)
    PROVE  LET hash == state_machine[mt].send_hash
               r == tls1_transcript_record(w, w.hs_msg)
               p == IF hash THEN tls1_transcript_hash_preserve(r) ELSE r
               q == [p EXCEPT !.hs_msg = None]
           IN  \/ ~Succeeded(p) /\ Falls(w, p)
               \/ Succeeded(p) /\ Logged(w, q, hash)
<1> DEFINE hash == state_machine[mt].send_hash
           r == tls1_transcript_record(w, w.hs_msg)
           p == IF hash THEN tls1_transcript_hash_preserve(r) ELSE r
           q == [p EXCEPT !.hs_msg = None]
           k == [r EXCEPT !.transcript_hash = r.handshake_hash]
           X == {"handshake_hash", "transcript"}
           Y == {"handshake_hash", "transcript", "transcript_hash"}
<1>1. Changes(w, r, X) /\ r.handshake_hash = Hashed(w.handshake_hash, Digest(w.hs_msg))
  BY Recording DEF Ready
<1>2. /\ p = Abort(r) \/ p = k \/ (p = r /\ ~hash)
      /\ p # Abort(r) /\ hash => p = k
  BY Zenon DEF tls1_transcript_hash_preserve
<1> HIDE DEF r
<1>3. Works(w, r, X) /\ Ready(r) /\ r.hs = w.hs
  BY <1>1, WorksBy, WorksReady
<1>4. Changes(r, k, {"transcript_hash"}) /\ k.transcript_hash = r.handshake_hash /\ k.handshake_hash = r.handshake_hash
  BY <1>3 DEF Ready, Shape, Fields, Changes
<1> HIDE DEF k, p, hash
<1>5. CASE p = Abort(r)
  <2>1. Falls(r, p)
    BY <1>3, <1>5, AbortFalls, Zenon
  <2>2. Falls(w, p)
    BY <1>1, <2>1, FallsLater
  <2>3. ~Succeeded(p)
    BY <2>1, NotBoth, Zenon DEF Falls
  <2> QED BY <2>2, <2>3, Zenon DEF p, r, hash
<1>6. CASE p # Abort(r)
  <2>1. /\ Changes(r, p, {"transcript_hash"}) /\ p.handshake_hash = r.handshake_hash
        /\ hash => p.transcript_hash = r.handshake_hash
    <3>1. Changes(r, r, {"transcript_hash"})
      BY <1>1 DEF Changes
    <3> QED BY <1>2, <1>4, <1>6, <3>1
  <2>2. Changes(w, p, Y)
    BY <1>1, <2>1, ChangesTwice
  <2>3. Works(w, p, Y)
    BY <2>2, WorksBy
  <2>4. Changes(p, q, {"hs_msg"}) /\ q.hs_msg = None
    BY <2>2 DEF Shape, Fields, Changes
  <2> HIDE DEF q
  <2>5. Changes(w, q, LogFields)
    BY <2>2, <2>4, ChangesTwice DEF LogFields
  <2>6. Works(w, q, LogFields) /\ q.hs = w.hs
    BY <2>5, WorksBy DEF LogFields
  <2>7. q.handshake_hash = p.handshake_hash /\ q.transcript_hash = p.transcript_hash
    BY <2>4 DEF Changes, Fields
  <2>8. Logged(w, q, hash)
    BY <1>1, <2>1, <2>4, <2>6, <2>7 DEF Logged
  <2>9. Succeeded(p)
    BY <2>3 DEF Works
  <2> QED BY <2>8, <2>9, Zenon DEF q, p, r, hash
<1> QED BY <1>5, <1>6

(* The end of a send action moves by one or gives up. *)
LEMMA SendEnds ==
    ASSUME NEW e, Ready(e), e.n \in 0 .. TLS13_NUM_MESSAGE_TYPES - 1
    PROVE  LET f == AfterSend(e)
           IN  \/ Falls(e, f)
               \/ /\ Works(e, f, {"n", "need_flush"}) /\ f.n = e.n + 1 /\ f.hs = e.hs
                  /\ f.n \in 0 .. TLS13_NUM_MESSAGE_TYPES - 1
<1> DEFINE f == AfterSend(e)
           a == tls13_handshake_advance_state_machine(e)
           flush == tls13_handshake_end_of_flight(a)
           g == [e EXCEPT !.n = @ + 1]
<1>1. f = [a EXCEPT !.need_flush = flush]
  BY Zenon DEF AfterSend
<1>2. a = Abort(e) \/ (a = g /\ ~(e.n + 1 >= TLS13_NUM_MESSAGE_TYPES))
  BY Zenon DEF tls13_handshake_advance_state_machine
<1>3. Changes(e, g, {"n"}) /\ g.n = e.n + 1
  BY DEF Ready, Changes, Shape, Fields
<1>4. Falls(e, Abort(e))
  BY AbortFalls
<1> HIDE DEF f, a, g, flush
<1>5. Shape(a)
  BY <1>2, <1>3, <1>4, Zenon DEF Changes, Falls, Dies
<1>6. Changes(a, f, {"need_flush"})
  BY <1>1, <1>5 DEF Changes, Shape, Fields
<1>7. CASE a = Abort(e)
  <2>1. Dies(e, a) /\ a.out = e.out
    BY <1>4, <1>7, Zenon DEF Falls
  <2>2. f.st = a.st /\ f.out = a.out
    BY <1>6 DEF Changes, Fields
  <2>3. Dies(e, f)
    BY <1>6, <2>1, <2>2, DiesStill
  <2> QED BY <2>1, <2>2, <2>3, Zenon DEF Falls, f
<1>8. CASE a = g /\ ~(e.n + 1 >= TLS13_NUM_MESSAGE_TYPES)
  <2>1. Changes(e, f, {"n", "need_flush"})
    BY <1>3, <1>6, <1>8, ChangesTwice
  <2>2. f.n = e.n + 1
    BY <1>3, <1>6, <1>8 DEF Changes, Fields
  <2>3. e.n + 1 \in 0 .. TLS13_NUM_MESSAGE_TYPES - 1
    BY <1>8 DEF TLS13_NUM_MESSAGE_TYPES
  <2>4. Works(e, f, {"n", "need_flush"}) /\ f.hs = e.hs
    BY <2>1, WorksBy
  <2>5. /\ Works(e, f, {"n", "need_flush"}) /\ f.n = e.n + 1 /\ f.hs = e.hs
        /\ f.n \in 0 .. TLS13_NUM_MESSAGE_TYPES - 1
    BY <2>2, <2>3, <2>4
  <2> QED BY <2>5, Zenon DEF f
<1> QED BY <1>2, <1>7, <1>8
-----------------------------------------------------------------------------
(* A message is out. *)

(* w has written its message in rec, and f has advanced. *)
SentFields ==
    LogFields \cup {"frozen", "ccs_allowed", "send_dummy_ccs", "n", "need_flush"}

Advanced(w, f, X) ==
    Works(w, f, X) /\ f.n = w.n + 1 /\ f.hs_msg = None /\ w.wrec = None /\ ~w.send_dummy_ccs_after

(* A message whose sent handler does nothing: the place after it. *)
LEMMA PlainAdvances ==
    ASSUME NEW w, NEW f, NEW o, Living(w, o), Succeeded(w), SendsNext(w), w.mode \in Peer, w.n \in Nat,
           Advanced(w, f, SentFields),
           Active(w) \notin {"SERVER_HELLO", "SERVER_HELLO_RETRY_REQUEST", "CLIENT_FINISHED", "SERVER_FINISHED"}
    PROVE  Living(f, o) /\ Steady(w, f)
<1>1. /\ f.mode = w.mode /\ f.cfg = w.cfg /\ f.st = w.st /\ f.hs = w.hs
      /\ f.alert = w.alert /\ f.wrec = w.wrec
      /\ f.send_dummy_ccs_after = w.send_dummy_ccs_after /\ f.write = w.write /\ f.read = w.read
      /\ f.application_traffic = w.application_traffic /\ f.handshake_traffic = w.handshake_traffic
      /\ f.shared = w.shared /\ f.cipher = w.cipher
      /\ f.peer_cert = w.peer_cert /\ f.peer_proved = w.peer_proved
  BY DEF Advanced, Works, Changes, Fields, SentFields, LogFields
<1>2. f.hs_msg = None /\ f.wrec = None /\ ~f.send_dummy_ccs_after /\ f.n = w.n + 1 /\ ~w.send_dummy_ccs_after
  BY <1>1 DEF Advanced
<1>3. Placed(w) /\ w.hs \in Rows /\ Engaged(w) /\ w.st = "run" /\ w.alert = None /\ Active(w) \in Names
  BY Entries DEF Living, Placed, Succeeded
<1>4. Switch(w.hs, w.n, f.hs, Active(w))
  BY <1>1, <1>3, SwitchSame DEF Active
<1>5. f.hs \in Rows /\ Moves(w, f) /\ Follow(f.hs, Active(w), Active(f))
  BY <1>2, <1>4, Position
<1>6. Pending(f)
  BY <1>2 DEF Pending
<1>7. CASE w.mode = "client"
  <2>1. Active(w) \in {"CLIENT_HELLO", "CLIENT_HELLO_RETRY", "CLIENT_CERTIFICATE", "CLIENT_CERTIFICATE_VERIFY"}
    BY <1>3, <1>7, Entries DEF SendsNext, Entry, Names
  <2>2. \/ Active(w) = "CLIENT_HELLO" /\ w.hs = {} /\ Active(f) = "SERVER_HELLO_RETRY_REQUEST"
        \/ Active(w) = "CLIENT_HELLO_RETRY" /\ w.hs = {} /\ Active(f) = "SERVER_HELLO"
        \/ /\ Active(w) \in {"CLIENT_CERTIFICATE", "CLIENT_CERTIFICATE_VERIFY"}
           /\ Active(f) \in {"CLIENT_CERTIFICATE_VERIFY", "CLIENT_FINISHED"}
    BY <1>1, <1>3, <1>5, <2>1 DEF Placed, Hellos, Follow
  <2>3. Placed(f)
    BY <1>1, <1>2, <1>3, <1>5, <1>7, <2>2, Entries DEF Placed, HelloSent, Hellos, AfterServerFinished, Names
  <2>4. Engaged(f)
    BY <1>1, <1>2, <1>3, <2>2, KeyedSame DEF Engaged, HelloSent, Hellos
  <2>5. ServerSeen(f, o)
    BY <1>1, <1>7, <2>2 DEF Living, ServerSeen, AfterServerFinished, AfterServerVerify, AfterServerCertificate
  <2>6. ServerAgreed(f, o)
    BY <1>1, <1>7, <2>2 DEF Living, ServerAgreed, AfterServerFinished
  <2>7. Late(w, f)
    BY <1>7, <2>2 DEF Late
  <2>8. Alive(w)
    BY <1>3 DEF Alive
  <2> QED BY <1>1, <1>5, <1>6, <1>7, <2>3, <2>4, <2>5, <2>6, <2>7, <2>8 DEF Living, Steady
<1>8. CASE w.mode = "server"
  <2>1. Active(w) \in {"SERVER_ENCRYPTED_EXTENSIONS", "SERVER_CERTIFICATE_REQUEST", "SERVER_CERTIFICATE",
                       "SERVER_CERTIFICATE_VERIFY"}
    BY <1>3, <1>8, Entries DEF SendsNext, Entry, Names
  <2>2. Active(f) \in {"SERVER_CERTIFICATE_REQUEST", "SERVER_CERTIFICATE", "SERVER_CERTIFICATE_VERIFY", "SERVER_FINISHED"}
    BY <1>5, <2>1 DEF Follow
  <2>3. Placed(f)
    BY <1>1, <1>2, <1>3, <1>5, <2>1, <2>2, Entries DEF Placed, HelloSent, Hellos, AfterServerFinished, Names
  <2>4. Engaged(f)
    BY <1>1, <1>2, <1>3, <2>1, <2>2, KeyedSame DEF Engaged, HelloSent, Hellos
  <2>5. ClientSeen(f, o)
    BY <1>1, <1>2, <1>8, <2>1, <2>2 DEF Living, ClientSeen, HelloSent, Hellos, AfterServerFinished
  <2>6. ClientAgreed(f, o)
    BY <2>2 DEF ClientAgreed, AfterServerFinished
  <2>7. Late(w, f)
    BY <1>8, <2>1 DEF Late, AfterServerFinished
  <2>8. Alive(w)
    BY <1>3 DEF Alive
  <2> QED BY <1>1, <1>5, <1>6, <1>8, <2>3, <2>4, <2>5, <2>6, <2>7, <2>8 DEF Living, Steady
<1> QED BY <1>7, <1>8 DEF Peer

(* The place after the Finished of the client, and after that of the server. *)
LEMMA ClientFinishedAdvances ==
    ASSUME NEW w, NEW f, NEW o, Living(w, o), Succeeded(w), SendsNext(w), w.mode \in Peer, w.n \in Nat,
           Advanced(w, f, SentFields \cup {"write"}), Active(w) = "CLIENT_FINISHED",
           f.write = f.application_traffic["client"]
    PROVE  Living(f, o) /\ Steady(w, f) /\ Active(f) = "APPLICATION_DATA"
<1>1. /\ f.mode = w.mode /\ f.cfg = w.cfg /\ f.st = w.st /\ f.hs = w.hs
      /\ f.alert = w.alert /\ f.wrec = w.wrec
      /\ f.send_dummy_ccs_after = w.send_dummy_ccs_after /\ f.read = w.read
      /\ f.application_traffic = w.application_traffic /\ f.handshake_traffic = w.handshake_traffic
      /\ f.shared = w.shared /\ f.cipher = w.cipher
      /\ f.peer_cert = w.peer_cert /\ f.peer_proved = w.peer_proved
  BY DEF Advanced, Works, Changes, Fields, SentFields, LogFields
<1>2. f.hs_msg = None /\ f.wrec = None /\ ~f.send_dummy_ccs_after /\ f.n = w.n + 1 /\ ~w.send_dummy_ccs_after
  BY <1>1 DEF Advanced
<1>3. Placed(w) /\ w.hs \in Rows /\ Engaged(w) /\ w.st = "run" /\ w.alert = None
  BY DEF Living, Placed, Succeeded
<1>4. Switch(w.hs, w.n, f.hs, Active(w)) /\ w.mode = "client"
  BY <1>1, <1>3, SwitchSame, Entries DEF Active, SendsNext, Entry
<1>5. f.hs \in Rows /\ Moves(w, f) /\ Active(f) = "APPLICATION_DATA"
  BY <1>2, <1>4, Position DEF Follow
<1>6. Pending(f)
  BY <1>2 DEF Pending
<1>7. Placed(f)
  BY <1>1, <1>2, <1>3, <1>5, Entries DEF Placed, HelloSent, Hellos, AfterServerFinished, Names
<1>8. Engaged(f)
  BY <1>1, <1>2, <1>3, <1>5, KeyedSame DEF Engaged, HelloSent, Hellos
<1>9. ServerSeen(f, o)
  BY <1>1, <1>4, <1>5 DEF Living, ServerSeen, AfterServerFinished, AfterServerVerify, AfterServerCertificate
<1>10. ServerAgreed(f, o)
  BY <1>1, <1>4, <1>5 DEF Living, ServerAgreed, AfterServerFinished
<1>11. Late(w, f)
  BY <1>4 DEF Late
<1>12. Alive(w)
  BY <1>3 DEF Alive
<1> QED BY <1>1, <1>4, <1>5, <1>6, <1>7, <1>8, <1>9, <1>10, <1>11, <1>12 DEF Living, Steady

LEMMA ServerFinishedAdvances ==
    ASSUME NEW w, NEW f, NEW o, NEW c, Living(w, o), Succeeded(w), SendsNext(w), w.mode \in Peer, w.n \in Nat,
           Advanced(w, f, SentFields \cup {"write", "application_traffic"}), Active(w) = "SERVER_FINISHED",
           f.write = f.application_traffic["server"],
           f.application_traffic = TrafficKeys(f, "application", c)
    PROVE  Living(f, o) /\ Steady(w, f) /\ ServerDone(f)
<1>1. /\ f.mode = w.mode /\ f.cfg = w.cfg /\ f.st = w.st /\ f.hs = w.hs
      /\ f.alert = w.alert /\ f.wrec = w.wrec
      /\ f.send_dummy_ccs_after = w.send_dummy_ccs_after /\ f.read = w.read
      /\ f.handshake_traffic = w.handshake_traffic
      /\ f.shared = w.shared /\ f.cipher = w.cipher
      /\ f.peer_cert = w.peer_cert /\ f.peer_proved = w.peer_proved
  BY DEF Advanced, Works, Changes, Fields, SentFields, LogFields
<1>2. f.hs_msg = None /\ f.wrec = None /\ ~f.send_dummy_ccs_after /\ f.n = w.n + 1 /\ ~w.send_dummy_ccs_after
  BY <1>1 DEF Advanced
<1>3. Placed(w) /\ w.hs \in Rows /\ Engaged(w) /\ w.st = "run" /\ w.alert = None
  BY DEF Living, Placed, Succeeded
<1>4. Switch(w.hs, w.n, f.hs, Active(w)) /\ w.mode = "server"
  BY <1>1, <1>3, SwitchSame, Entries DEF Active, SendsNext, Entry
<1>5. /\ f.hs \in Rows /\ Moves(w, f) /\ Active(f) \in {"CLIENT_CERTIFICATE", "CLIENT_FINISHED"}
      /\ Active(f) = "CLIENT_FINISHED" => "WITHOUT_CR" \in f.hs
  BY <1>2, <1>4, Position DEF Follow
<1>6. Pending(f)
  BY <1>2 DEF Pending
<1>7. Placed(f)
  BY <1>1, <1>2, <1>3, <1>5, Entries DEF Placed, HelloSent, Hellos, AfterServerFinished, Names
<1>8. Engaged(f)
  BY <1>1, <1>2, <1>3, <1>5, KeyedSame DEF Engaged, HelloSent, Hellos
<1>9. ServerDone(f)
  BY <1>5, TrafficContext DEF ServerDone, AfterServerFinished
<1>10. ClientAgreed(f, o)
  BY <1>5, <1>9 DEF ClientAgreed
<1>11. "WITH_CCV" \notin w.hs
  BY <1>3 DEF Placed, AfterServerFinished
<1>12. ClientSeen(f, o)
  BY <1>1, <1>2, <1>4, <1>5, <1>11 DEF Living, ClientSeen, HelloSent, Hellos, AfterServerFinished
<1>13. Late(w, f)
  BY <1>4 DEF Late, AfterServerFinished
<1>14. Alive(w)
  BY <1>3 DEF Alive
<1> QED BY <1>1, <1>4, <1>5, <1>6, <1>7, <1>8, <1>9, <1>10, <1>12, <1>13, <1>14 DEF Living, Steady

(* The server's hellos, after which a ChangeCipherSpec may have to follow. *)
HelloSentFields ==
    SentFields \cup EngageFields \cup {"hs", "wrec", "send_dummy_ccs_after", "ccs_sent", "out"}

(* After the retry request: the next place, or the wait for the ChangeCipherSpec. *)
LEMMA RetryRequestAdvances ==
    ASSUME NEW w, NEW f, NEW o, Living(w, o), Succeeded(w), SendsNext(w), w.n \in Nat,
           Works(w, f, HelloSentFields), f.hs = w.hs, f.n = w.n + 1, f.hs_msg = None, f.wrec = None,
           ~f.send_dummy_ccs_after, Active(w) = "SERVER_HELLO_RETRY_REQUEST"
    PROVE  Living(f, o) /\ Steady(w, f)
<1>1. /\ f.mode = w.mode /\ f.cfg = w.cfg /\ f.st = w.st /\ f.alert = w.alert
      /\ f.peer_cert = w.peer_cert
  BY DEF Works, Changes, Fields, HelloSentFields, SentFields, EngageFields, LogFields
<1>2. Placed(w) /\ w.hs = {} /\ w.hs \in Rows /\ w.st = "run" /\ w.alert = None
  BY DEF Living, Placed, Succeeded, Hellos
<1>3. Switch(w.hs, w.n, f.hs, Active(w)) /\ w.mode = "server"
  BY <1>1, <1>2, SwitchSame, Entries DEF Active, SendsNext, Entry
<1>4. f.hs \in Rows /\ Moves(w, f) /\ Active(f) = "CLIENT_HELLO_RETRY"
  BY <1>3, Position DEF Follow
<1>5. Pending(f)
  BY DEF Pending
<1>6. Placed(f)
  BY <1>1, <1>2, <1>4, Entries DEF Placed, HelloSent, Hellos, AfterServerFinished, Names
<1>7. Engaged(f)
  BY <1>4 DEF Engaged, HelloSent, Hellos
<1>8. ClientAgreed(f, o)
  BY <1>4 DEF ClientAgreed, AfterServerFinished
<1>9. ClientSeen(f, o)
  BY <1>1, <1>2, <1>3, <1>4 DEF Living, ClientSeen, HelloSent, Hellos, AfterServerFinished
<1>10. Late(w, f)
  BY <1>3 DEF Late, AfterServerFinished
<1>11. Alive(w)
  BY <1>2 DEF Alive
<1> QED BY <1>1, <1>3, <1>4, <1>5, <1>6, <1>7, <1>8, <1>9, <1>10, <1>11 DEF Living, Steady

LEMMA RetryRequestHolds ==
    ASSUME NEW w, NEW f, NEW o, Living(w, o), Succeeded(w), SendsNext(w), w.n \in Nat,
           Works(w, f, HelloSentFields), f.hs = w.hs, f.n = w.n, f.hs_msg = None, f.wrec = None,
           f.send_dummy_ccs, Active(w) = "SERVER_HELLO_RETRY_REQUEST"
    PROVE  Living(f, o) /\ Steady(w, f)
<1>1. /\ f.mode = w.mode /\ f.cfg = w.cfg /\ f.st = w.st /\ f.alert = w.alert
      /\ f.peer_cert = w.peer_cert
  BY DEF Works, Changes, Fields, HelloSentFields, SentFields, EngageFields, LogFields
<1>2. Placed(w) /\ w.hs = {} /\ w.hs \in Rows /\ w.st = "run" /\ w.alert = None
  BY DEF Living, Placed, Succeeded, Hellos
<1>3. w.mode = "server" /\ Active(f) = Active(w)
  BY Entries DEF Active, SendsNext, Entry
<1>4. f.hs \in Rows /\ Moves(w, f) /\ SendsNext(f)
  BY <1>1, <1>2, <1>3 DEF Moves, Agrees, SendsNext
<1>5. Pending(f)
  BY <1>3, <1>4 DEF Pending
<1>6. Placed(f)
  BY <1>1, <1>2, <1>3, <1>4, Entries DEF Placed, HelloSent, Hellos, AfterServerFinished, Names
<1>7. Engaged(f)
  BY <1>3 DEF Engaged, HelloSent, Hellos
<1>8. ClientAgreed(f, o)
  BY <1>3 DEF ClientAgreed, AfterServerFinished
<1>9. ClientSeen(f, o)
  BY <1>1, <1>2, <1>3 DEF Living, ClientSeen, HelloSent, Hellos, AfterServerFinished
<1>10. Late(w, f)
  BY <1>3 DEF Late, AfterServerFinished
<1>11. Alive(w)
  BY <1>2 DEF Alive
<1> QED BY <1>1, <1>3, <1>4, <1>5, <1>6, <1>7, <1>8, <1>9, <1>10, <1>11 DEF Living, Steady

(* The row a server takes with its ServerHello. *)
ServerRow(w, f) ==
    /\ Switch(w.hs, w.n, f.hs, "SERVER_HELLO") /\ f.hs # {} /\ "WITH_CCV" \notin f.hs
    /\ w.cfg.verify = "none" <=> "WITHOUT_CR" \in f.hs

(* After the ServerHello: the next place, or the wait for the ChangeCipherSpec. *)
LEMMA ServerHelloAdvances ==
    ASSUME NEW w, NEW f, NEW o, Living(w, o), Succeeded(w), SendsNext(w), w.n \in Nat,
           Works(w, f, HelloSentFields), ServerRow(w, f), Keyed(f), f.n = w.n + 1, f.hs_msg = None,
           f.wrec = None, ~f.send_dummy_ccs_after, Active(w) = "SERVER_HELLO"
    PROVE  Living(f, o) /\ Steady(w, f)
<1>1. /\ f.mode = w.mode /\ f.cfg = w.cfg /\ f.st = w.st /\ f.alert = w.alert
      /\ f.peer_cert = w.peer_cert
  BY DEF Works, Changes, Fields, HelloSentFields, SentFields, EngageFields, LogFields
<1>2. Placed(w) /\ w.hs \in Rows /\ w.st = "run" /\ w.alert = None
  BY DEF Living, Placed, Succeeded
<1>3. w.mode = "server"
  BY Entries DEF SendsNext, Entry
<1>4. f.hs \in Rows /\ Moves(w, f) /\ Active(f) = "SERVER_ENCRYPTED_EXTENSIONS"
  BY Position DEF Follow, ServerRow
<1>5. Pending(f)
  BY DEF Pending
<1>6. Placed(f)
  BY <1>1, <1>2, <1>4, Entries DEF Placed, HelloSent, Hellos, AfterServerFinished, Names, ServerRow
<1>7. Engaged(f)
  BY DEF Engaged
<1>8. ClientAgreed(f, o)
  BY <1>4 DEF ClientAgreed, AfterServerFinished
<1>9. w.peer_cert = None
  <2>1. "WITH_CCV" \notin w.hs
    BY <1>2 DEF Placed, AfterServerFinished
  <2> QED BY <1>3, <2>1 DEF Living, ClientSeen
<1>10. ClientSeen(f, o)
  BY <1>1, <1>4, <1>9 DEF ClientSeen, HelloSent, Hellos, AfterServerFinished, ServerRow
<1>11. Late(w, f)
  BY <1>3 DEF Late, AfterServerFinished
<1>12. Alive(w)
  BY <1>2 DEF Alive
<1> QED BY <1>1, <1>3, <1>4, <1>5, <1>6, <1>7, <1>8, <1>10, <1>11, <1>12 DEF Living, Steady

LEMMA ServerHelloHolds ==
    ASSUME NEW w, NEW f, NEW o, Living(w, o), Succeeded(w), SendsNext(w), w.n \in Nat,
           Works(w, f, HelloSentFields), ServerRow(w, f), Keyed(f), f.n = w.n, f.hs_msg = None,
           f.wrec = None, f.send_dummy_ccs, f.send_dummy_ccs_after, Active(w) = "SERVER_HELLO"
    PROVE  Living(f, o) /\ Steady(w, f)
<1>1. /\ f.mode = w.mode /\ f.cfg = w.cfg /\ f.st = w.st /\ f.alert = w.alert
      /\ f.peer_cert = w.peer_cert
  BY DEF Works, Changes, Fields, HelloSentFields, SentFields, EngageFields, LogFields
<1>2. Placed(w) /\ w.hs \in Rows /\ w.st = "run" /\ w.alert = None
  BY DEF Living, Placed, Succeeded
<1>3. w.mode = "server" /\ Active(f) = "SERVER_HELLO"
  BY Entries DEF SendsNext, Entry, ServerRow, Switch, Active
<1>4. f.hs \in Rows /\ Moves(w, f) /\ SendsNext(f)
  BY <1>1, <1>3 DEF Moves, ServerRow, Switch, SendsNext
<1>5. Pending(f)
  BY <1>3, <1>4 DEF Pending
<1>6. Placed(f)
  BY <1>1, <1>2, <1>3, <1>4, Entries DEF Placed, HelloSent, Hellos, AfterServerFinished, Names, ServerRow
<1>7. Engaged(f)
  BY DEF Engaged
<1>8. ClientAgreed(f, o)
  BY <1>3 DEF ClientAgreed, AfterServerFinished
<1>9. w.peer_cert = None
  <2>1. "WITH_CCV" \notin w.hs
    BY <1>2 DEF Placed, AfterServerFinished
  <2> QED BY <1>3, <2>1 DEF Living, ClientSeen
<1>10. ClientSeen(f, o)
  BY <1>1, <1>3, <1>9 DEF ClientSeen, HelloSent, Hellos, AfterServerFinished, ServerRow
<1>11. Late(w, f)
  BY <1>3 DEF Late, AfterServerFinished
<1>12. Alive(w)
  BY <1>2 DEF Alive
<1> QED BY <1>1, <1>3, <1>4, <1>5, <1>6, <1>7, <1>8, <1>10, <1>11, <1>12 DEF Living, Steady
-----------------------------------------------------------------------------
(* The rest of tls13_handshake_send_action. *)

(* w is e with its message written in rec, q has the message in its transcript. *)
Sends(e, w, q, rec, o) ==
    /\ Typed(e) /\ Written(e, w, rec) /\ Living(w, o) /\ Steady(e, w) /\ Succeeded(w) /\ Ready(w)
    /\ SendsNext(w) /\ w.n = e.n /\ w.n \in 0 .. TLS13_NUM_MESSAGE_TYPES - 1 /\ w.n \in Nat
    /\ Active(w) = Active(e) /\ Active(e) \in Names
    /\ w.wrec = None /\ ~w.send_dummy_ccs_after /\ w.mode \in Peer
    /\ Logged(w, q, state_machine[Active(w)].send_hash)

(* What is left to show once the sent handler has run. *)
LEMMA SentResult ==
    ASSUME NEW e, NEW w, NEW q, NEW rec, NEW o, NEW f, NEW X, Sends(e, w, q, rec, o), Works(w, f, X),
           X \cap {"mode", "cfg", "ccs_seen", "out"} = {}, f.n \in 0 .. TLS13_NUM_MESSAGE_TYPES - 1,
           Living(f, o), Steady(w, f), rec.msg.type = "finished" => FinishedSent(f, rec.msg)
    PROVE  Result(e, f, o)
<1>1. /\ f.mode = w.mode /\ f.cfg = w.cfg /\ f.ccs_seen = w.ccs_seen /\ f.out = w.out
      /\ Shape(f) /\ Succeeded(f) /\ f.hs \subseteq Flag
  BY DEF Works, Changes, Fields
<1>2. /\ Typed(e) /\ Written(e, w, rec) /\ Steady(e, w) /\ w.n = e.n /\ Active(e) \in Names
  BY Zenon DEF Sends
<1>3. w.mode = e.mode /\ w.cfg = e.cfg /\ w.ccs_seen = e.ccs_seen
  BY <1>2 DEF Written, Works, Changes, Fields, BuildFields
<1>4. w.out = Append(e.out, rec)
  BY <1>2, Zenon DEF Written
<1>5. Sound(f, rec)
  BY <1>1, <1>2, WrittenSound, Zenon
<1>6. IsSeq(f.out)
  <2>1. IsSeq(e.out)
    BY <1>2 DEF Typed
  <2>2. IsSeq(Append(e.out, rec))
    BY <2>1, IsSeqAppend
  <2> QED BY <1>1, <1>4, <2>2, Zenon
<1>7. Typed(f)
  BY <1>1, <1>2, <1>3, <1>6 DEF Typed, Succeeded, Status
<1>8. Writes(e, f)
  BY <1>1, <1>4, <1>5, Zenon DEF Writes
<1>9. Steady(e, f)
  BY <1>2, SteadyTwice, Zenon
<1> QED BY <1>7, <1>8, <1>9, Zenon DEF Result

(* The end of the send action after its sent handler. *)
LEMMA SentThen ==
    ASSUME NEW w, NEW s, NEW X, Works(w, s, X), w.n \in 0 .. TLS13_NUM_MESSAGE_TYPES - 1,
           X \cap {"mode", "cfg", "n", "ccs_seen", "out"} = {}
    PROVE  LET f == AfterSend(s)
           IN  \/ Falls(w, f)
               \/ /\ Works(w, f, X \cup {"n", "need_flush"}) /\ Works(s, f, {"n", "need_flush"})
                  /\ f.n = w.n + 1 /\ f.hs = s.hs /\ f.n \in 0 .. TLS13_NUM_MESSAGE_TYPES - 1
<1> DEFINE f == AfterSend(s)
<1>1. Ready(s) /\ s.n = w.n /\ Changes(w, s, X)
  BY WorksReady DEF Works, Changes, Fields
<1>2. \/ Falls(s, f)
      \/ /\ Works(s, f, {"n", "need_flush"}) /\ f.n = s.n + 1 /\ f.hs = s.hs
         /\ f.n \in 0 .. TLS13_NUM_MESSAGE_TYPES - 1
  BY <1>1, SendEnds
<1> HIDE DEF f
<1>3. Falls(s, f) => Falls(w, f)
  BY <1>1, FallsLater
<1>4. Works(s, f, {"n", "need_flush"}) => Works(w, f, X \cup {"n", "need_flush"})
  BY WorksTwice
<1>5. \/ Falls(w, f)
      \/ /\ Works(w, f, X \cup {"n", "need_flush"}) /\ Works(s, f, {"n", "need_flush"})
         /\ f.n = w.n + 1 /\ f.hs = s.hs /\ f.n \in 0 .. TLS13_NUM_MESSAGE_TYPES - 1
  BY <1>1, <1>2, <1>3, <1>4
<1> QED BY <1>5, Zenon DEF f

(* What follows the sent handler. *)
Concluded(s) ==
    IF s.send_dummy_ccs_after THEN [s EXCEPT !.send_dummy_ccs = TRUE] ELSE AfterSend(s)

(* The record written carries the message that the table asks for. *)
LEMMA RecordType ==
    ASSUME NEW e, NEW w, NEW q, NEW rec, NEW o, Sends(e, w, q, rec, o)
    PROVE  rec.msg.type = state_machine[Active(w)].type /\ w.hs_msg.type = state_machine[Active(w)].type
  BY DEF Sends, Written, Fits

(* The messages sent, one by one. *)
LEMMA PlainSent ==
    ASSUME NEW e, NEW w, NEW q, NEW rec, NEW o, NEW s, Sends(e, w, q, rec, o),
           Works(q, s, {"frozen", "ccs_allowed", "send_dummy_ccs"}),
           Active(w) \notin {"SERVER_HELLO", "SERVER_HELLO_RETRY_REQUEST", "CLIENT_FINISHED", "SERVER_FINISHED"}
    PROVE  Result(e, Concluded(s), o)
<1> DEFINE X == LogFields \cup {"frozen", "ccs_allowed", "send_dummy_ccs"}
           f == AfterSend(s)
<1>1. Works(w, q, LogFields) /\ q.hs_msg = None
  BY DEF Sends, Logged
<1>2. Works(w, s, X)
  BY <1>1, WorksTwice
<1>3. s.hs_msg = None /\ s.send_dummy_ccs_after = w.send_dummy_ccs_after
  BY <1>1 DEF Works, Changes, Fields, LogFields
<1>4. Concluded(s) = f
  <2>1. ~s.send_dummy_ccs_after
    BY <1>3 DEF Sends
  <2> QED BY <2>1, Zenon DEF Concluded
<1>5. \/ Falls(w, f)
      \/ /\ Works(w, f, X \cup {"n", "need_flush"}) /\ Works(s, f, {"n", "need_flush"})
         /\ f.n = w.n + 1 /\ f.hs = s.hs /\ f.n \in 0 .. TLS13_NUM_MESSAGE_TYPES - 1
  <2>1. X \cap {"mode", "cfg", "n", "ccs_seen", "out"} = {}
    BY DEF LogFields
  <2>2. w.n \in 0 .. TLS13_NUM_MESSAGE_TYPES - 1
    BY DEF Sends
  <2> HIDE DEF X
  <2> QED BY <1>2, <2>1, <2>2, SentThen
<1> HIDE DEF f
<1>6. CASE Falls(w, f)
  BY <1>4, <1>6, WrittenFalls, Zenon DEF Sends
<1>7. CASE ~Falls(w, f)
  <2>1. X \cup {"n", "need_flush"} = SentFields
    BY DEF SentFields
  <2>2. Works(w, f, SentFields)
    BY <1>5, <1>7, <2>1, Zenon
  <2>3. f.hs_msg = None
    BY <1>3, <1>5, <1>7 DEF Works, Changes, Fields
  <2>4. Advanced(w, f, SentFields)
    BY <1>5, <1>7, <2>2, <2>3 DEF Advanced, Sends
  <2>5. Living(f, o) /\ Steady(w, f)
    BY <2>4, PlainAdvances DEF Sends
  <2>6. SentFields \cap {"mode", "cfg", "ccs_seen", "out"} = {}
    BY DEF SentFields, LogFields
  <2>7. rec.msg.type # "finished"
    <3>1. Active(w) \in Names
      BY DEF Sends
    <3> QED BY <3>1, RecordType, Entries DEF Entry, Names
  <2>8. Result(e, f, o)
    BY <1>5, <1>7, <2>2, <2>5, <2>6, <2>7, SentResult
  <2> QED BY <1>4, <2>8, Zenon
<1> QED BY <1>6, <1>7

(* A Finished message, once recorded, is the one over the hash before it. *)
LEMMA FinishedLogged ==
    ASSUME NEW e, NEW w, NEW q, NEW rec, NEW o, Sends(e, w, q, rec, o),
           Active(w) \in {"CLIENT_FINISHED", "SERVER_FINISHED"}
    PROVE  /\ rec.msg = Finished(w, w.mode, w.handshake_hash) /\ rec.msg.mac.over = w.handshake_hash
           /\ q.handshake_hash = Hashed(w.handshake_hash, FinishedDigest)
           /\ Active(w) = "SERVER_FINISHED" => q.transcript_hash = q.handshake_hash
<1>1. rec.msg.type = "finished" /\ w.hs_msg.type = "finished"
  BY RecordType, Entries DEF Entry
<1>2. rec.msg = Finished(w, w.mode, w.handshake_hash)
  BY <1>1, Zenon DEF Sends, Written, Fits
<1>3. rec.msg.mac.over = w.handshake_hash
  BY <1>2 DEF Finished
<1>4. Digest(w.hs_msg) = FinishedDigest
  BY <1>1 DEF Digest, FinishedDigest
<1>5. /\ q.handshake_hash = Hashed(w.handshake_hash, Digest(w.hs_msg))
      /\ state_machine[Active(w)].send_hash => q.transcript_hash = q.handshake_hash
  BY Zenon DEF Sends, Logged
<1>6. Active(w) = "SERVER_FINISHED" => state_machine[Active(w)].send_hash
  BY Entries DEF Entry
<1> QED BY <1>2, <1>3, <1>4, <1>5, <1>6, Zenon

LEMMA ClientFinishedSent ==
    ASSUME NEW e, NEW w, NEW q, NEW rec, NEW o, Sends(e, w, q, rec, o), Active(w) = "CLIENT_FINISHED"
    PROVE  Result(e, Concluded(tls13_client_finished_sent(q)), o)
<1> DEFINE s == tls13_client_finished_sent(q)
           X == LogFields \cup {"write"}
           Y == SentFields \cup {"write"}
           f == AfterSend(s)
<1>1. Works(w, q, LogFields) /\ q.hs_msg = None /\ Ready(q)
  BY WorksReady DEF Sends, Logged
<1>2. Changes(q, s, {"write"}) /\ s.write = q.application_traffic["client"]
  BY <1>1 DEF Ready, Shape, Fields, Changes, tls13_client_finished_sent
<1> HIDE DEF s
<1>3. Works(w, s, X)
  <2>1. Works(q, s, {"write"})
    BY <1>1, <1>2, WorksBy
  <2> QED BY <1>1, <2>1, WorksTwice
<1>4. /\ s.hs_msg = None /\ s.send_dummy_ccs_after = w.send_dummy_ccs_after
      /\ s.application_traffic = q.application_traffic /\ s.handshake_hash = q.handshake_hash
      /\ s.handshake_traffic = w.handshake_traffic
  BY <1>1, <1>2 DEF Works, Changes, Fields, LogFields
<1>5. Concluded(s) = f
  <2>1. ~s.send_dummy_ccs_after
    BY <1>4 DEF Sends
  <2> QED BY <2>1, Zenon DEF Concluded
<1>6. \/ Falls(w, f)
      \/ /\ Works(w, f, X \cup {"n", "need_flush"}) /\ Works(s, f, {"n", "need_flush"})
         /\ f.n = w.n + 1 /\ f.hs = s.hs /\ f.n \in 0 .. TLS13_NUM_MESSAGE_TYPES - 1
  <2>1. X \cap {"mode", "cfg", "n", "ccs_seen", "out"} = {}
    BY DEF LogFields
  <2>2. w.n \in 0 .. TLS13_NUM_MESSAGE_TYPES - 1
    BY DEF Sends
  <2> HIDE DEF X
  <2> QED BY <1>3, <2>1, <2>2, SentThen
<1> HIDE DEF f
<1>7. CASE Falls(w, f)
  <2>1. Result(e, f, o)
    BY <1>7, WrittenFalls, Zenon DEF Sends
  <2> QED BY <1>5, <2>1, Zenon DEF s
<1>8. CASE ~Falls(w, f)
  <2>1. X \cup {"n", "need_flush"} \subseteq Y
    BY DEF SentFields
  <2>2. Works(w, f, Y)
    <3>1. Works(w, f, X \cup {"n", "need_flush"})
      BY <1>6, <1>8
    <3> HIDE DEF X, Y
    <3> QED BY <2>1, <3>1 DEF Works, Changes
  <2>3. /\ f.hs_msg = None /\ f.write = s.write /\ f.application_traffic = s.application_traffic
        /\ f.handshake_hash = s.handshake_hash /\ f.handshake_traffic = s.handshake_traffic
        /\ f.mode = w.mode
    BY <1>4, <1>6, <1>8, <2>2 DEF Works, Changes, Fields, SentFields, LogFields
  <2>4. Advanced(w, f, Y)
    BY <1>6, <1>8, <2>2, <2>3 DEF Advanced, Sends
  <2>5. Living(f, o) /\ Steady(w, f) /\ Active(f) = "APPLICATION_DATA"
    BY <1>2, <1>4, <2>3, <2>4, ClientFinishedAdvances DEF Sends
  <2>6. Y \cap {"mode", "cfg", "ccs_seen", "out"} = {}
    BY DEF SentFields, LogFields
  <2>7. FinishedSent(f, rec.msg)
    <3>1. /\ rec.msg = Finished(w, w.mode, w.handshake_hash) /\ rec.msg.mac.over = w.handshake_hash
          /\ q.handshake_hash = Hashed(w.handshake_hash, FinishedDigest)
      BY FinishedLogged
    <3>2. rec.msg = Finished(f, f.mode, rec.msg.mac.over)
      BY <1>4, <2>3, <3>1, Zenon DEF Finished
    <3>3. f.handshake_hash = Hashed(rec.msg.mac.over, FinishedDigest)
      BY <1>4, <2>3, <3>1, Zenon
    <3>4. f.mode # "server"
      BY <2>3, Entries DEF Sends, SendsNext, Entry
    <3> QED BY <2>5, <3>2, <3>3, <3>4, Zenon DEF FinishedSent
  <2>8. Result(e, f, o)
    <3> HIDE DEF Y
    <3> QED BY <1>6, <1>8, <2>2, <2>5, <2>6, <2>7, SentResult
  <2> QED BY <1>5, <2>8, Zenon DEF s
<1> QED BY <1>7, <1>8

LEMMA ServerFinishedSent ==
    ASSUME NEW e, NEW w, NEW q, NEW rec, NEW o, Sends(e, w, q, rec, o), Active(w) = "SERVER_FINISHED"
    PROVE  Result(e, Concluded(tls13_server_finished_sent(q)), o)
<1> DEFINE s == tls13_server_finished_sent(q)
           keys == TrafficKeys(q, "application", q.transcript_hash)
           d == [q EXCEPT !.application_traffic = keys]
           g == [d EXCEPT !.write = d.application_traffic["server"]]
           X == LogFields \cup {"write", "application_traffic"}
           Y == SentFields \cup {"write", "application_traffic"}
           f == AfterSend(s)
<1>1. Works(w, q, LogFields) /\ q.hs_msg = None /\ Ready(q)
  BY WorksReady DEF Sends, Logged
<1>2. s = g
  BY Zenon DEF tls13_server_finished_sent, tls13_derive_application_secrets
<1>3. keys = TrafficKeys(q, "application", q.transcript_hash)
  BY Zenon
<1>4. Changes(q, g, {"write", "application_traffic"}) /\ g.write = keys["server"] /\ g.application_traffic = keys
  <2> HIDE DEF keys
  <2> QED BY <1>1, ZenonT(40) DEF Ready, Shape, Fields, Changes
<1> HIDE DEF s, g, d, keys
<1>5. Works(w, s, X)
  <2>1. Works(q, s, {"write", "application_traffic"})
    BY <1>1, <1>2, <1>4, WorksBy
  <2> QED BY <1>1, <2>1, WorksTwice
<1>6. /\ s.hs_msg = None /\ s.send_dummy_ccs_after = w.send_dummy_ccs_after
      /\ s.handshake_traffic = w.handshake_traffic /\ s.shared = q.shared /\ s.cipher = q.cipher
  BY <1>1, <1>2, <1>4 DEF Works, Changes, Fields, LogFields
<1>7. Concluded(s) = f
  <2>1. ~s.send_dummy_ccs_after
    BY <1>6 DEF Sends
  <2> QED BY <2>1, Zenon DEF Concluded
<1>8. \/ Falls(w, f)
      \/ /\ Works(w, f, X \cup {"n", "need_flush"}) /\ Works(s, f, {"n", "need_flush"})
         /\ f.n = w.n + 1 /\ f.hs = s.hs /\ f.n \in 0 .. TLS13_NUM_MESSAGE_TYPES - 1
  <2>1. X \cap {"mode", "cfg", "n", "ccs_seen", "out"} = {}
    BY DEF LogFields
  <2>2. w.n \in 0 .. TLS13_NUM_MESSAGE_TYPES - 1
    BY DEF Sends
  <2> HIDE DEF X
  <2> QED BY <1>5, <2>1, <2>2, SentThen
<1> HIDE DEF f
<1>9. CASE Falls(w, f)
  <2>1. Result(e, f, o)
    BY <1>9, WrittenFalls, Zenon DEF Sends
  <2> QED BY <1>7, <2>1, Zenon DEF s
<1>10. CASE ~Falls(w, f)
  <2>1. X \cup {"n", "need_flush"} \subseteq Y
    BY DEF SentFields
  <2>2. Works(w, f, Y)
    <3>1. Works(w, f, X \cup {"n", "need_flush"})
      BY <1>8, <1>10
    <3> HIDE DEF X, Y
    <3> QED BY <2>1, <3>1 DEF Works, Changes
  <2>3. /\ f.hs_msg = None /\ f.write = s.write /\ f.application_traffic = s.application_traffic
        /\ f.handshake_traffic = s.handshake_traffic /\ f.shared = s.shared /\ f.cipher = s.cipher
        /\ f.mode = w.mode
    BY <1>6, <1>8, <1>10, <2>2 DEF Works, Changes, Fields, SentFields, LogFields
  <2>4. Advanced(w, f, Y)
    BY <1>8, <1>10, <2>2, <2>3 DEF Advanced, Sends
  <2>5. f.application_traffic = TrafficKeys(f, "application", q.transcript_hash)
    <3>1. TrafficKeys(f, "application", q.transcript_hash) = keys
      BY <1>3, <1>6, <2>3, SameTrafficKeys
    <3> QED BY <1>2, <1>4, <2>3, <3>1, Zenon
  <2>6. f.write = f.application_traffic["server"]
    BY <1>2, <1>4, <2>3, Zenon
  <2>7. Living(f, o) /\ Steady(w, f) /\ ServerDone(f)
    <3>1. /\ Living(w, o) /\ Succeeded(w) /\ SendsNext(w) /\ w.mode \in Peer /\ w.n \in Nat
      BY DEF Sends
    <3> QED BY <2>4, <2>5, <2>6, <3>1, ServerFinishedAdvances
  <2>8. Y \cap {"mode", "cfg", "ccs_seen", "out"} = {}
    BY DEF SentFields, LogFields
  <2>9. FinishedSent(f, rec.msg)
    <3>1. /\ rec.msg = Finished(w, w.mode, w.handshake_hash) /\ rec.msg.mac.over = w.handshake_hash
          /\ q.transcript_hash = Hashed(w.handshake_hash, FinishedDigest)
      BY FinishedLogged
    <3>2. rec.msg = Finished(f, f.mode, rec.msg.mac.over)
      BY <1>6, <2>3, <3>1, Zenon DEF Finished
    <3>3. f.application_traffic = TrafficKeys(f, "application", Hashed(rec.msg.mac.over, FinishedDigest))
      BY <2>5, <3>1, Zenon
    <3>4. f.mode # "client"
      BY <2>3, Entries DEF Sends, SendsNext, Entry
    <3> QED BY <2>7, <3>2, <3>3, <3>4, Zenon DEF FinishedSent
  <2>10. Result(e, f, o)
    <3> HIDE DEF Y
    <3> QED BY <1>8, <1>10, <2>2, <2>7, <2>8, <2>9, SentResult
  <2> QED BY <1>7, <2>10, Zenon DEF s
<1> QED BY <1>9, <1>10

LEMMA RetryRequestSent ==
    ASSUME NEW e, NEW w, NEW q, NEW rec, NEW o, Sends(e, w, q, rec, o),
           Active(w) = "SERVER_HELLO_RETRY_REQUEST"
    PROVE  Result(e, Concluded(tls13_server_hello_retry_request_sent(q)), o)
<1> DEFINE s == tls13_server_hello_retry_request_sent(q)
           X == LogFields \cup {"send_dummy_ccs_after"}
           f == AfterSend(s)
           h == [s EXCEPT !.send_dummy_ccs = TRUE]
<1>1. Works(w, q, LogFields) /\ q.hs_msg = None /\ Ready(q) /\ q.hs = w.hs
  BY WorksReady DEF Sends, Logged
<1>2. Changes(q, s, {"send_dummy_ccs_after"})
  BY <1>1 DEF Ready, Shape, Fields, Changes, tls13_server_hello_retry_request_sent
<1> HIDE DEF s
<1>3. Works(w, s, X) /\ s.hs = w.hs /\ Ready(s)
  <2>1. Works(q, s, {"send_dummy_ccs_after"}) /\ s.hs = q.hs
    BY <1>1, <1>2, WorksBy
  <2>2. Works(w, s, X)
    BY <1>1, <2>1, WorksTwice
  <2> QED BY <1>1, <2>1, <2>2, WorksReady, Zenon
<1>4. s.hs_msg = None /\ s.wrec = None /\ s.n = w.n
  BY <1>1, <1>2 DEF Works, Changes, Fields, LogFields, Sends
<1>5. /\ Living(w, o) /\ Succeeded(w) /\ SendsNext(w) /\ w.n \in Nat
      /\ w.n \in 0 .. TLS13_NUM_MESSAGE_TYPES - 1
  BY DEF Sends
<1>6. rec.msg.type # "finished"
  BY RecordType, Entries DEF Entry
<1>7. CASE s.send_dummy_ccs_after
  <2>1. Concluded(s) = h
    BY <1>7, Zenon DEF Concluded
  <2>2. Changes(s, h, {"send_dummy_ccs"}) /\ h.send_dummy_ccs
    BY <1>3 DEF Ready, Shape, Fields, Changes
  <2> HIDE DEF h
  <2>3. Works(s, h, {"send_dummy_ccs"}) /\ h.hs = s.hs
    BY <1>3, <2>2, WorksBy
  <2> DEFINE Y == X \cup {"send_dummy_ccs"}
  <2>4. Works(w, h, Y)
    BY <1>3, <2>3, WorksTwice
  <2>5. Works(w, h, HelloSentFields)
    <3>1. Y \subseteq HelloSentFields
      BY DEF HelloSentFields, SentFields
    <3> HIDE DEF Y
    <3> QED BY <2>4, <3>1 DEF Works, Changes
  <2>6. h.hs_msg = None /\ h.wrec = None /\ h.n = w.n /\ h.hs = w.hs
    BY <1>3, <1>4, <2>2, <2>3 DEF Changes, Fields
  <2>7. Living(h, o) /\ Steady(w, h)
    BY <1>5, <2>2, <2>5, <2>6, RetryRequestHolds
  <2>8. Y \cap {"mode", "cfg", "ccs_seen", "out"} = {}
    BY DEF LogFields
  <2>9. Result(e, h, o)
    <3> HIDE DEF Y
    <3> QED BY <1>5, <1>6, <2>4, <2>6, <2>7, <2>8, SentResult
  <2> QED BY <2>1, <2>9, Zenon DEF s
<1>8. CASE ~s.send_dummy_ccs_after
  <2>1. Concluded(s) = f
    BY <1>8, Zenon DEF Concluded
  <2>2. \/ Falls(w, f)
        \/ /\ Works(w, f, X \cup {"n", "need_flush"}) /\ Works(s, f, {"n", "need_flush"})
           /\ f.n = w.n + 1 /\ f.hs = s.hs /\ f.n \in 0 .. TLS13_NUM_MESSAGE_TYPES - 1
    <3>1. X \cap {"mode", "cfg", "n", "ccs_seen", "out"} = {}
      BY DEF LogFields
    <3> HIDE DEF X
    <3> QED BY <1>3, <1>5, <3>1, SentThen
  <2> HIDE DEF f
  <2>3. CASE Falls(w, f)
    <3>1. Result(e, f, o)
      BY <2>3, WrittenFalls, Zenon DEF Sends
    <3> QED BY <2>1, <3>1, Zenon DEF s
  <2>4. CASE ~Falls(w, f)
    <3> DEFINE Y == X \cup {"n", "need_flush"}
    <3>1. /\ Works(w, f, Y) /\ Works(s, f, {"n", "need_flush"})
          /\ f.n = w.n + 1 /\ f.hs = s.hs /\ f.n \in 0 .. TLS13_NUM_MESSAGE_TYPES - 1
      BY <2>2, <2>4
    <3>2. Works(w, f, HelloSentFields)
      <4>1. Y \subseteq HelloSentFields
        BY DEF HelloSentFields, SentFields
      <4> HIDE DEF Y
      <4> QED BY <3>1, <4>1 DEF Works, Changes
    <3>3. /\ f.hs_msg = None /\ f.wrec = None /\ f.hs = w.hs
          /\ f.send_dummy_ccs_after = s.send_dummy_ccs_after
      BY <1>3, <1>4, <3>1 DEF Works, Changes, Fields
    <3>4. Living(f, o) /\ Steady(w, f)
      BY <1>5, <1>8, <3>1, <3>2, <3>3, RetryRequestAdvances
    <3>5. Y \cap {"mode", "cfg", "ccs_seen", "out"} = {}
      BY DEF LogFields
    <3>6. Result(e, f, o)
      <4> HIDE DEF Y
      <4> QED BY <1>6, <3>1, <3>4, <3>5, SentResult
    <3> QED BY <2>1, <3>6, Zenon DEF s
  <2> QED BY <2>3, <2>4
<1> QED BY <1>7, <1>8

LEMMA ServerHelloSent ==
    ASSUME NEW e, NEW w, NEW q, NEW rec, NEW o, Sends(e, w, q, rec, o), Active(w) = "SERVER_HELLO"
    PROVE  Result(e, Concluded(tls13_server_hello_sent(q)), o)
<1> DEFINE s == tls13_server_hello_sent(q)
           a == [q EXCEPT !.send_dummy_ccs_after = "WITHOUT_HRR" \in q.hs /\ q.sid]
           b == EngageRecordProtection(a)
           ks == b.hs \cup {"NEGOTIATED"} \cup IF a.cfg.verify = "none" THEN {"WITHOUT_CR"} ELSE {}
           g == [b EXCEPT !.hs = ks]
           A == LogFields \cup {"send_dummy_ccs_after"}
           B == A \cup EngageFields
           X == B \cup {"hs"}
           f == AfterSend(s)
           h == [s EXCEPT !.send_dummy_ccs = TRUE]
<1>1. Works(w, q, LogFields) /\ q.hs_msg = None /\ Ready(q) /\ q.hs = w.hs
  BY WorksReady DEF Sends, Logged
<1>2. Changes(q, a, {"send_dummy_ccs_after"})
  BY <1>1 DEF Ready, Shape, Fields, Changes
<1>3. s = [b EXCEPT !.hs = @ \cup {"NEGOTIATED"} \cup IF a.cfg.verify = "none" THEN {"WITHOUT_CR"} ELSE {}]
  BY Zenon DEF tls13_server_hello_sent, tls13_server_engage_record_protection
<1> HIDE DEF a
<1>4. Changes(a, b, EngageFields) /\ Keyed(b)
  BY <1>2, Engages DEF Changes
<1> HIDE DEF b
<1>5. s = g
  <2> HIDE DEF s
  <2> QED BY <1>3
<1>6. Works(w, b, B) /\ Ready(b) /\ b.hs = w.hs
  <2>1. Works(q, a, {"send_dummy_ccs_after"}) /\ a.hs = q.hs
    BY <1>1, <1>2, WorksBy
  <2>2. Works(w, a, A) /\ Ready(a)
    BY <1>1, <2>1, WorksTwice, WorksReady
  <2>3. Works(a, b, EngageFields) /\ b.hs = a.hs
    BY <1>4, <2>2, WorksBy DEF EngageFields
  <2>4. Works(w, b, B)
    <3> HIDE DEF A
    <3> QED BY <2>2, <2>3, WorksTwice
  <2> HIDE DEF B
  <2> QED BY <1>1, <2>1, <2>3, <2>4, WorksReady, Zenon
<1>7. a.cfg = w.cfg
  BY <1>1, <1>2 DEF Works, Changes, Fields, LogFields
<1>8. Changes(b, g, {"hs"}) /\ g.hs = ks
  <2> HIDE DEF ks
  <2> QED BY <1>6 DEF Ready, Shape, Fields, Changes
<1>9. /\ Living(w, o) /\ Succeeded(w) /\ SendsNext(w) /\ w.n \in Nat
      /\ w.n \in 0 .. TLS13_NUM_MESSAGE_TYPES - 1 /\ ~w.send_dummy_ccs_after /\ w.wrec = None
  BY DEF Sends
<1>10. w.hs \in {{}, {"NEGOTIATED", "WITHOUT_HRR"}}
  BY <1>9 DEF Living, Placed, HelloSent
<1>11. ks \in {w.hs \cup {"NEGOTIATED"}, w.hs \cup {"NEGOTIATED"} \cup {"WITHOUT_CR"}}
  BY <1>6
<1>12. /\ Switch(w.hs, w.n, ks, "SERVER_HELLO") /\ ks # {} /\ "WITH_CCV" \notin ks
       /\ (w.cfg.verify = "none" <=> "WITHOUT_CR" \in ks) /\ ks \subseteq Flag
  <2>1. Switch(w.hs, w.n, ks, "SERVER_HELLO")
    BY <1>9, <1>10, <1>11, SwitchServerHello DEF Active
  <2>2. ks # {} /\ "WITH_CCV" \notin ks /\ ks \subseteq Flag
    BY <1>10, <1>11 DEF Flag
  <2>3. w.cfg.verify = "none" <=> "WITHOUT_CR" \in ks
    BY <1>6, <1>7, <1>10
  <2> QED BY <2>1, <2>2, <2>3
<1> HIDE DEF ks, s, g, f
<1>13. Works(w, s, X) /\ s.hs = ks /\ Ready(s)
  <2>1. Works(b, s, {"hs"})
    BY <1>5, <1>6, <1>8, <1>12 DEF Works, Ready, Succeeded, Changes, Fields
  <2>2. Works(w, s, X)
    <3> HIDE DEF B
    <3> QED BY <1>6, <2>1, WorksTwice
  <2> HIDE DEF X
  <2> QED BY <1>5, <1>8, <2>2, WorksReady
<1>14. s.hs_msg = None /\ s.wrec = None /\ s.n = w.n
  <2>1. a.hs_msg = None
    BY <1>1, <1>2 DEF Changes, Fields
  <2>2. b.hs_msg = None
    BY <1>4, <2>1 DEF Changes, Fields, EngageFields
  <2>3. s.hs_msg = None
    BY <1>5, <1>8, <2>2 DEF Changes, Fields
  <2>4. s.wrec = w.wrec /\ s.n = w.n
    BY <1>13 DEF Works, Changes, Fields, EngageFields, LogFields
  <2> QED BY <1>9, <2>3, <2>4
<1>15. Keyed(s)
  <2>1. s.handshake_traffic = b.handshake_traffic /\ s.shared = b.shared /\ s.cipher = b.cipher
    BY <1>5, <1>8 DEF Changes, Fields
  <2> QED BY <1>4, <2>1, KeyedSame
<1>16. rec.msg.type # "finished"
  BY RecordType, Entries DEF Entry
<1>17. X \subseteq HelloSentFields /\ X \cap {"mode", "cfg", "n", "ccs_seen", "out"} = {}
  BY DEF HelloSentFields, SentFields, LogFields, EngageFields
<1> HIDE DEF X
<1>18. CASE s.send_dummy_ccs_after
  <2>1. Concluded(s) = h
    BY <1>18, Zenon DEF Concluded
  <2>2. Changes(s, h, {"send_dummy_ccs"}) /\ h.send_dummy_ccs
    BY <1>13 DEF Ready, Shape, Fields, Changes
  <2> HIDE DEF h
  <2>3. Works(s, h, {"send_dummy_ccs"}) /\ h.hs = s.hs
    BY <1>13, <2>2, WorksBy
  <2> DEFINE Y == X \cup {"send_dummy_ccs"}
  <2>4. Works(w, h, Y)
    BY <1>13, <2>3, WorksTwice
  <2>5. Y \subseteq HelloSentFields
    BY <1>17 DEF HelloSentFields, SentFields
  <2>6. Works(w, h, HelloSentFields)
    <3> HIDE DEF Y
    <3> QED BY <2>4, <2>5 DEF Works, Changes
  <2>7. /\ h.hs_msg = None /\ h.wrec = None /\ h.n = w.n /\ h.hs = ks /\ h.send_dummy_ccs_after = s.send_dummy_ccs_after
        /\ h.handshake_traffic = s.handshake_traffic /\ h.shared = s.shared /\ h.cipher = s.cipher
    BY <1>13, <1>14, <2>2, <2>3 DEF Changes, Fields
  <2>8. Keyed(h) /\ ServerRow(w, h)
    BY <1>12, <1>15, <2>7, KeyedSame DEF ServerRow
  <2>9. Living(h, o) /\ Steady(w, h)
    BY <1>9, <1>18, <2>2, <2>6, <2>7, <2>8, ServerHelloHolds
  <2>10. Y \cap {"mode", "cfg", "ccs_seen", "out"} = {}
    BY <1>17
  <2>11. Result(e, h, o)
    <3> HIDE DEF Y
    <3> QED BY <1>9, <1>16, <2>4, <2>7, <2>9, <2>10, SentResult
  <2> QED BY <2>1, <2>11, Zenon DEF s
<1>19. CASE ~s.send_dummy_ccs_after
  <2>1. Concluded(s) = f
    BY <1>19, Zenon DEF Concluded, f
  <2>2. \/ Falls(w, f)
        \/ /\ Works(w, f, X \cup {"n", "need_flush"}) /\ Works(s, f, {"n", "need_flush"})
           /\ f.n = w.n + 1 /\ f.hs = s.hs /\ f.n \in 0 .. TLS13_NUM_MESSAGE_TYPES - 1
    BY <1>9, <1>13, <1>17, SentThen DEF f
  <2>3. CASE Falls(w, f)
    <3>1. Result(e, f, o)
      BY <2>3, WrittenFalls, Zenon DEF Sends
    <3> QED BY <2>1, <3>1, Zenon DEF s
  <2>4. CASE ~Falls(w, f)
    <3> DEFINE Y == X \cup {"n", "need_flush"}
    <3>1. /\ Works(w, f, Y) /\ Works(s, f, {"n", "need_flush"})
          /\ f.n = w.n + 1 /\ f.hs = s.hs /\ f.n \in 0 .. TLS13_NUM_MESSAGE_TYPES - 1
      BY <2>2, <2>4
    <3>2. Works(w, f, HelloSentFields)
      <4>1. Y \subseteq HelloSentFields
        BY <1>17 DEF HelloSentFields, SentFields
      <4> HIDE DEF Y
      <4> QED BY <3>1, <4>1 DEF Works, Changes
    <3>3. /\ f.hs_msg = None /\ f.wrec = None /\ f.hs = ks
          /\ f.send_dummy_ccs_after = s.send_dummy_ccs_after
          /\ f.handshake_traffic = s.handshake_traffic /\ f.shared = s.shared /\ f.cipher = s.cipher
      BY <1>13, <1>14, <3>1 DEF Works, Changes, Fields
    <3>4. Keyed(f) /\ ServerRow(w, f)
      BY <1>12, <1>15, <3>3, KeyedSame DEF ServerRow
    <3>5. Living(f, o) /\ Steady(w, f)
      BY <1>9, <1>19, <3>1, <3>2, <3>3, <3>4, ServerHelloAdvances
    <3>6. Y \cap {"mode", "cfg", "ccs_seen", "out"} = {}
      BY <1>17
    <3>7. Result(e, f, o)
      <4> HIDE DEF Y
      <4> QED BY <1>16, <3>1, <3>5, <3>6, SentResult
    <3> QED BY <2>1, <3>7, Zenon DEF s
  <2> QED BY <2>3, <2>4
<1> QED BY <1>18, <1>19

(* What is called once a message is sent. *)
LEMMA SentHandlers ==
    ASSUME NEW e, NEW mt
    PROVE  /\ SentHandler(e, "CLIENT_HELLO") = tls13_client_hello_sent(e)
           /\ SentHandler(e, "CLIENT_FINISHED") = tls13_client_finished_sent(e)
           /\ SentHandler(e, "SERVER_HELLO") = tls13_server_hello_sent(e)
           /\ SentHandler(e, "SERVER_HELLO_RETRY_REQUEST") = tls13_server_hello_retry_request_sent(e)
           /\ SentHandler(e, "SERVER_FINISHED") = tls13_server_finished_sent(e)
           /\ mt \notin {"CLIENT_HELLO", "CLIENT_FINISHED", "SERVER_HELLO",
                         "SERVER_HELLO_RETRY_REQUEST", "SERVER_FINISHED"} => SentHandler(e, mt) = e
  BY DEF SentHandler

(* Whatever the message, sending it leaves the endpoint as Inv says. *)
LEMMA SentAll ==
    ASSUME NEW e, NEW w, NEW q, NEW rec, NEW o, Sends(e, w, q, rec, o)
    PROVE  Result(e, Concluded(SentHandler(q, Active(w))), o)
<1>1. CASE Active(w) = "SERVER_HELLO"
  <2>1. SentHandler(q, Active(w)) = tls13_server_hello_sent(q)
    BY <1>1, SentHandlers
  <2>2. Result(e, Concluded(tls13_server_hello_sent(q)), o)
    BY <1>1, ServerHelloSent
  <2> QED BY <2>1, <2>2, Zenon
<1>2. CASE Active(w) = "SERVER_HELLO_RETRY_REQUEST"
  <2>1. SentHandler(q, Active(w)) = tls13_server_hello_retry_request_sent(q)
    BY <1>2, SentHandlers
  <2>2. Result(e, Concluded(tls13_server_hello_retry_request_sent(q)), o)
    BY <1>2, RetryRequestSent
  <2> QED BY <2>1, <2>2, Zenon
<1>3. CASE Active(w) = "CLIENT_FINISHED"
  <2>1. SentHandler(q, Active(w)) = tls13_client_finished_sent(q)
    BY <1>3, SentHandlers
  <2>2. Result(e, Concluded(tls13_client_finished_sent(q)), o)
    BY <1>3, ClientFinishedSent
  <2> QED BY <2>1, <2>2, Zenon
<1>4. CASE Active(w) = "SERVER_FINISHED"
  <2>1. SentHandler(q, Active(w)) = tls13_server_finished_sent(q)
    BY <1>4, SentHandlers
  <2>2. Result(e, Concluded(tls13_server_finished_sent(q)), o)
    BY <1>4, ServerFinishedSent
  <2> QED BY <2>1, <2>2, Zenon
<1>5. Ready(q)
  BY WorksReady DEF Sends, Logged
<1>6. CASE Active(w) = "CLIENT_HELLO"
  <2> DEFINE s == tls13_client_hello_sent(q)
  <2>1. SentHandler(q, Active(w)) = s
    BY <1>6, SentHandlers, Zenon
  <2>2. Changes(q, s, {"frozen", "ccs_allowed", "send_dummy_ccs"})
    BY <1>5, ZenonT(40) DEF Ready, Shape, Fields, Changes, tls13_client_hello_sent
  <2> HIDE DEF s
  <2>3. Works(q, s, {"frozen", "ccs_allowed", "send_dummy_ccs"})
    BY <1>5, <2>2, WorksBy
  <2>4. Result(e, Concluded(s), o)
    BY <1>6, <2>3, PlainSent
  <2> QED BY <2>1, <2>4, Zenon
<1>7. CASE Active(w) \notin {"CLIENT_HELLO", "CLIENT_FINISHED", "SERVER_HELLO",
                             "SERVER_HELLO_RETRY_REQUEST", "SERVER_FINISHED"}
  <2>1. SentHandler(q, Active(w)) = q
    BY <1>7, SentHandlers, Zenon
  <2>2. Works(q, q, {"frozen", "ccs_allowed", "send_dummy_ccs"})
    BY <1>5 DEF Works, Ready, Changes
  <2>3. Result(e, Concluded(q), o)
    BY <1>7, <2>2, PlainSent
  <2> QED BY <2>1, <2>3, Zenon
<1> QED BY <1>1, <1>2, <1>3, <1>4, <1>6, <1>7

(* The message is written, and the send action ends or stops for a ChangeCipherSpec. *)
LEMMA MessageResult ==
    ASSUME NEW e, NEW w, NEW rec, NEW o, Typed(e), Succeeded(e), Living(e, o), SendsNext(e),
           ~e.send_dummy_ccs_after, Written(e, w, rec), Succeeded(w)
    PROVE  Result(e, MessageWritten(w, Active(e)), o)
<1> DEFINE f == MessageWritten(w, Active(e))
           hash == state_machine[Active(e)].send_hash
           r == tls1_transcript_record(w, w.hs_msg)
           p == IF hash THEN tls1_transcript_hash_preserve(r) ELSE r
           q == [p EXCEPT !.hs_msg = None]
           s == SentHandler(q, Active(e))
<1>1. f = IF ~Succeeded(p) THEN p ELSE Concluded(s)
  BY Zenon DEF MessageWritten, Concluded
<1>2. Works(e, w, BuildFields \cup {"out", "wrec"}) /\ Keeps(e, w) /\ w.wrec = None /\ Fits(w, w.hs_msg)
  BY Zenon DEF Written
<1>3. Ready(w)
  BY <1>2, WorksReady, Zenon
<1>4. \/ ~Succeeded(p) /\ Falls(w, p)
      \/ Succeeded(p) /\ Logged(w, q, hash)
  BY <1>3, Logs, Zenon
<1> HIDE DEF f, p, q, hash, s
<1>5. Active(e) \in Names /\ e.mode \in Peer /\ e.n \in Nat
  BY PositionTyped, Entries DEF Living, Placed, Typed
<1>6. CASE ~Succeeded(p) /\ Falls(w, p)
  <2>1. f = p
    BY <1>1, <1>6
  <2>2. Result(e, p, o)
    BY <1>5, <1>6, WrittenFalls, Zenon
  <2> QED BY <2>1, <2>2, Zenon DEF f
<1>7. CASE Succeeded(p) /\ Logged(w, q, hash)
  <2>1. f = Concluded(s)
    BY <1>1, <1>7
  <2>2. /\ w.n = e.n /\ Active(w) = Active(e) /\ w.mode = e.mode
        /\ w.send_dummy_ccs_after = e.send_dummy_ccs_after
    BY <1>2 DEF Keeps
  <2>3. Pending(w)
    BY <1>2, <2>2 DEF Pending
  <2>4. Living(w, o) /\ Steady(e, w)
    BY <1>2, <1>5, <2>3, AliveOrNot, KeepsLiving
  <2>5. SendsNext(w) /\ w.n \in 0 .. TLS13_NUM_MESSAGE_TYPES - 1
    BY <2>2 DEF SendsNext, Typed
  <2>6. Sends(e, w, q, rec, o)
    BY <1>2, <1>3, <1>5, <1>7, <2>2, <2>4, <2>5 DEF Sends, hash
  <2>7. Result(e, Concluded(SentHandler(q, Active(w))), o)
    BY <2>6, SentAll, Zenon
  <2>8. s = SentHandler(q, Active(w))
    BY <2>2, Zenon DEF s
  <2> QED BY <2>1, <2>7, <2>8, Zenon DEF f
<1> QED BY <1>4, <1>6, <1>7

(* Building and writing a message. *)
LEMMA SendMessageResult ==
    ASSUME NEW e, NEW o, Typed(e), Succeeded(e), Living(e, o), SendsNext(e), ~e.send_dummy_ccs
    PROVE  LET b == Built(e)
               w == tls13_record_layer_write_record(b, "handshake", b.hs_msg)
           IN  Result(e, IF ~Succeeded(b) THEN b ELSE IF ~Succeeded(w) THEN w
                         ELSE MessageWritten(w, Active(e)), o)
<1> DEFINE b == Built(e)
           w == tls13_record_layer_write_record(b, "handshake", b.hs_msg)
<1>1. ~e.send_dummy_ccs_after
  BY DEF Living, Pending
<1>2. \/ ~Succeeded(b) /\ Dies(e, b)
      \/ Succeeded(b) /\ ~Succeeded(w) /\ Dies(e, w)
      \/ Succeeded(b) /\ Succeeded(w) /\ \E rec : Written(e, w, rec)
  BY <1>1, WritesMessage, Zenon
<1> HIDE DEF b, w
<1>3. CASE ~Succeeded(b) /\ Dies(e, b)
  BY <1>3, Dead, Zenon DEF b
<1>4. CASE Succeeded(b) /\ ~Succeeded(w) /\ Dies(e, w)
  BY <1>4, Dead, Zenon DEF b, w
<1>5. CASE Succeeded(b) /\ Succeeded(w) /\ \E rec : Written(e, w, rec)
  <2>1. PICK rec : Written(e, w, rec)
    BY <1>5, Zenon
  <2>2. Result(e, MessageWritten(w, Active(e)), o)
    BY <1>1, <1>5, <2>1, MessageResult, Zenon
  <2> QED BY <1>5, <2>2, Zenon DEF b, w
<1> QED BY <1>2, <1>3, <1>4, <1>5, Zenon

(* The BIO takes no record: what was built and sealed is kept. *)
LEMMA KeptResult ==
    ASSUME NEW e, NEW f, NEW o, NEW X, Typed(e), Succeeded(e), Living(e, o), Keeps(e, f),
           Works(e, f, X), X \cap {"ccs_seen", "out"} = {}, Pending(f)
    PROVE  Result(e, f, o)
<1>1. f.mode = e.mode /\ f.cfg = e.cfg /\ f.n = e.n /\ f.st = e.st /\ f.st # "completed"
  BY DEF Keeps, Succeeded
<1>2. f.ccs_seen = e.ccs_seen /\ f.out = e.out /\ Shape(f) /\ f.hs \subseteq Flag
  BY DEF Works, Changes, Fields
<1>3. Typed(f)
  BY <1>1, <1>2 DEF Typed
<1>4. Living(f, o) /\ Steady(e, f)
  BY AliveOrNot, KeepsLiving DEF Typed
<1> QED BY <1>2, <1>3, <1>4, Zenon DEF Result, Writes

(* A blocked write keeps the message and its record for the next call. *)
LEMMA BlockWriteResult ==
    ASSUME NEW e, NEW o, Typed(e), Succeeded(e), Living(e, o), SendsNext(e), e.wrec = None,
           Succeeded(IF e.send_dummy_ccs THEN e ELSE Built(e))
    PROVE  LET ccs == e.send_dummy_ccs
               b == IF ccs THEN e ELSE Built(e)
               rec == tls13_record_layer_seal_record(b, IF ccs THEN "ccs" ELSE "handshake",
                                                     IF ccs THEN None ELSE b.hs_msg)
           IN  Result(e, [b EXCEPT !.wrec = rec], o)
<1> DEFINE ccs == e.send_dummy_ccs
           b == IF ccs THEN e ELSE Built(e)
           rec == tls13_record_layer_seal_record(b, IF ccs THEN "ccs" ELSE "handshake",
                                                 IF ccs THEN None ELSE b.hs_msg)
           f == [b EXCEPT !.wrec = rec]
<1>1. rec.ct = (IF ccs THEN "ccs" ELSE "handshake") /\ (~ccs => rec.msg = b.hs_msg)
  <2> HIDE DEF b
  <2> QED BY DEF tls13_record_layer_seal_record
<1>2. Ready(e) /\ e.hs \in Rows /\ Pending(e)
  BY DEF Ready, Typed, Living, Placed
<1>3. /\ Works(e, b, BuildFields) /\ Keeps(e, b)
      /\ (~ccs => Fits(b, b.hs_msg) /\ ~e.send_dummy_ccs_after) /\ (ccs => b = e)
  <2>1. CASE ccs
    <3>1. b = e
      BY <2>1
    <3>2. Works(e, e, {"hs_msg"})
      BY <1>2 DEF Works, Ready, Changes
    <3>3. Keeps(e, e) /\ Works(e, e, BuildFields)
      BY <3>2, KeepsBy DEF BuildFields
    <3> QED BY <2>1, <3>1, <3>3, Zenon
  <2>2. CASE ~ccs
    <3>1. b = Built(e) /\ Succeeded(b)
      BY <2>2
    <3>2. Prepared(e, b)
      BY <3>1, Builds, NotBoth, Zenon
    <3>3. ~e.send_dummy_ccs_after
      BY <1>2, <2>2 DEF Pending
    <3> QED BY <2>2, <3>2, <3>3, Zenon DEF Prepared
  <2> QED BY <2>1, <2>2
<1> HIDE DEF b, rec
<1>4. Ready(b)
  BY <1>3, WorksReady, Zenon
<1>5. Changes(b, f, {"wrec"}) /\ f.wrec = rec
  BY <1>4 DEF Ready, Shape, Fields, Changes
<1> HIDE DEF f
<1>6. Works(b, f, {"wrec"})
  BY <1>4, <1>5, WorksBy
<1>7. Works(e, f, BuildFields \cup {"wrec"})
  BY <1>3, <1>6, WorksTwice
<1>8. Quiets(b, f) /\ f.send_dummy_ccs = b.send_dummy_ccs
  BY <1>5 DEF Changes, Fields, Quiets
<1>9. Active(f) = Active(b)
  BY <1>8 DEF Quiets, Active
<1>10. Keeps(e, f) /\ Keeps(b, f)
  BY <1>3, <1>8, <1>9 DEF Keeps, Quiets, Agrees
<1>11. SendsNext(f) /\ SendsNext(b)
  BY <1>3, <1>10 DEF Keeps, SendsNext
<1>12. Pending(f)
  <2>1. CASE ccs
    <3>1. f.hs_msg = e.hs_msg /\ f.send_dummy_ccs_after = e.send_dummy_ccs_after /\ f.send_dummy_ccs = e.send_dummy_ccs
          /\ Active(f) = Active(e) /\ f.wrec.ct = "ccs"
      BY <1>1, <1>3, <1>5, <1>8, <1>9, <2>1 DEF Quiets
    <3>2. f.hs_msg # None => Fits(f, f.hs_msg)
      <4>1. e.hs_msg # None => Fits(e, e.hs_msg)
        BY <1>2, Zenon DEF Pending
      <4> QED BY <1>10, <3>1, <4>1, FitsKept, Zenon
    <3> QED BY <1>2, <1>11, <2>1, <3>1, <3>2 DEF Pending
  <2>2. CASE ~ccs
    <3>1. Fits(f, b.hs_msg) /\ f.hs_msg = b.hs_msg
      BY <1>3, <1>8, <1>10, <2>2, FitsKept, Zenon DEF Quiets
    <3>2. ~f.send_dummy_ccs_after
      BY <1>3, <1>10, <2>2 DEF Keeps
    <3>3. f.wrec.ct = "handshake" /\ f.wrec.msg = b.hs_msg
      BY <1>1, <1>5, <2>2
    <3> QED BY <1>11, <3>1, <3>2, <3>3 DEF Pending
  <2> QED BY <2>1, <2>2
<1>13. Result(e, f, o)
  <2> DEFINE X == BuildFields \cup {"wrec"}
  <2>1. X \cap {"ccs_seen", "out"} = {}
    BY DEF BuildFields
  <2> HIDE DEF X
  <2> QED BY <1>7, <1>10, <1>12, <2>1, KeptResult DEF X
<1> QED BY <1>13, Zenon DEF f, rec, b

(* A record that is not a handshake message. *)
LEMMA AppendResult ==
    ASSUME NEW e, NEW f, NEW o, NEW rec, Typed(e), f.mode = e.mode, f.cfg = e.cfg,
           f.ccs_seen = e.ccs_seen, f.out = Append(e.out, rec), Shape(f), f.hs \subseteq Flag,
           f.st \in Status, f.st # "completed", f.n \in 0 .. TLS13_NUM_MESSAGE_TYPES - 1,
           rec.ct \in {"ccs", "alert"},
           Alive(f) => Steady(e, f) /\ Living(f, o)
    PROVE  Result(e, f, o)
<1>1. Sound(f, rec)
  BY DEF Sound, Content
<1>2. IsSeq(f.out)
  <2>1. IsSeq(e.out)
    BY DEF Typed
  <2>2. IsSeq(Append(e.out, rec))
    BY <2>1, IsSeqAppend
  <2> QED BY <2>2, Zenon
<1>3. Typed(f)
  BY <1>2 DEF Typed
<1>4. Steady(e, f)
  BY Zenon DEF Steady
<1> QED BY <1>1, <1>3, <1>4, Zenon DEF Result, Writes

(* A ChangeCipherSpec is written once, or the endpoint gives up. *)
LEMMA WritesCcs ==
    ASSUME NEW e, Ready(e)
    PROVE  LET d == tls13_send_dummy_ccs(e)
           IN  \/ Dies(e, d)
               \/ /\ Works(e, d, {"out", "wrec", "ccs_sent"}) /\ d.wrec = None
                  /\ \E rec : rec.ct = "ccs" /\ d.out = Append(e.out, rec)
<1> DEFINE d == tls13_send_dummy_ccs(e)
           fresh == tls13_record_layer_seal_record(e, "ccs", None)
           rec == IF e.wrec = None THEN fresh ELSE e.wrec
           g == [e EXCEPT !.out = Append(@, rec), !.wrec = None]
           k == tls13_record_layer_write_record(e, "ccs", None)
           X == {"out", "wrec", "ccs_sent"}
<1>1. d = Abort(e) \/ d = [k EXCEPT !.ccs_sent = TRUE]
  BY Zenon DEF tls13_send_dummy_ccs
<1>2. k = Abort(e) \/ (k = g /\ rec.ct = "ccs")
  BY Zenon DEF tls13_record_layer_write_record
<1> HIDE DEF rec
<1>3. Dies(e, Abort(e))
  BY AbortFalls, Zenon DEF Falls
<1>4. Changes(e, g, {"out", "wrec"}) /\ g.out = Append(e.out, rec) /\ g.wrec = None
  BY DEF Ready, Shape, Fields, Changes
<1> HIDE DEF d, g, k
<1>5. CASE d = Abort(e)
  BY <1>3, <1>5, Zenon DEF d
<1>6. CASE d = [k EXCEPT !.ccs_sent = TRUE]
  <2>1. Shape(k)
    BY <1>2, <1>3, <1>4, Zenon DEF Dies, Changes
  <2>2. Changes(k, d, {"ccs_sent"})
    BY <1>6, <2>1 DEF Shape, Fields, Changes
  <2>3. CASE k = Abort(e)
    <3>1. Dies(e, k) /\ d.st = k.st
      BY <1>3, <2>2, <2>3 DEF Changes, Fields
    <3>2. Dies(e, d)
      BY <2>2, <3>1, DiesStill
    <3> QED BY <3>2, Zenon DEF d
  <2>4. CASE k = g /\ rec.ct = "ccs"
    <3>1. Changes(e, d, X)
      BY <1>4, <2>2, <2>4, ChangesTwice
    <3>2. Works(e, d, X)
      BY <3>1, WorksBy
    <3>3. d.out = Append(e.out, rec) /\ d.wrec = None
      BY <1>4, <2>2, <2>4 DEF Changes, Fields
    <3> QED BY <2>4, <3>2, <3>3, Zenon DEF d
  <2> QED BY <1>2, <2>3, <2>4
<1> QED BY <1>1, <1>5, <1>6

(* The dummy ChangeCipherSpec, before or after a message. *)
LEMMA DummyCcsResult ==
    ASSUME NEW e, NEW o, Typed(e), Succeeded(e), Living(e, o), SendsNext(e)
    PROVE  LET d == tls13_send_dummy_ccs(e)
           IN  Result(e, IF ~Succeeded(d) THEN d
                         ELSE IF d.send_dummy_ccs_after
                         THEN AfterSend([d EXCEPT !.send_dummy_ccs = FALSE,
                                                  !.send_dummy_ccs_after = FALSE])
                         ELSE [d EXCEPT !.send_dummy_ccs = FALSE], o)
<1> DEFINE d == tls13_send_dummy_ccs(e)
           a == [d EXCEPT !.send_dummy_ccs = FALSE, !.send_dummy_ccs_after = FALSE]
           f == AfterSend(a)
           h == [d EXCEPT !.send_dummy_ccs = FALSE]
<1>1. Ready(e) /\ Placed(e) /\ Pending(e) /\ Engaged(e) /\ e.n \in Nat /\ e.mode \in Peer
  BY PositionTyped DEF Ready, Typed, Living
<1>2. \/ Dies(e, d)
      \/ /\ Works(e, d, {"out", "wrec", "ccs_sent"}) /\ d.wrec = None
         /\ \E rec : rec.ct = "ccs" /\ d.out = Append(e.out, rec)
  BY <1>1, WritesCcs, Zenon
<1> HIDE DEF d
<1>3. CASE Dies(e, d)
  <2>1. ~Succeeded(d)
    BY <1>3, NotBoth
  <2>2. Result(e, d, o)
    BY <1>3, Dead, Zenon
  <2> QED BY <2>1, <2>2, Zenon DEF d
<1>4. CASE ~Dies(e, d)
  <2>1. Works(e, d, {"out", "wrec", "ccs_sent"}) /\ d.wrec = None /\ Succeeded(d) /\ Ready(d)
    BY <1>2, <1>4, WorksReady, Zenon DEF Works
  <2>2. PICK rec : rec.ct = "ccs" /\ d.out = Append(e.out, rec)
    BY <1>2, <1>4, Zenon
  <2>3. /\ d.mode = e.mode /\ d.cfg = e.cfg /\ d.ccs_seen = e.ccs_seen /\ d.n = e.n
        /\ d.send_dummy_ccs_after = e.send_dummy_ccs_after
    BY <2>1 DEF Works, Changes, Fields
  <2>4. CASE ~d.send_dummy_ccs_after
    <3>1. Changes(d, h, {"send_dummy_ccs"})
      BY <2>1 DEF Ready, Shape, Fields, Changes
    <3> HIDE DEF h
    <3> DEFINE X == {"out", "wrec", "ccs_sent", "send_dummy_ccs"}
    <3>2. Works(d, h, {"send_dummy_ccs"})
      BY <2>1, <3>1, WorksBy
    <3>3. Works(e, h, X) /\ Ready(h)
      BY <2>1, <3>2, WorksTwice, WorksReady
    <3>4. Quiets(e, h) /\ h.ccs_seen = e.ccs_seen
      BY <3>3 DEF Works, Changes, Fields, Quiets
    <3>5. h.wrec = None /\ h.out = d.out /\ ~h.send_dummy_ccs_after
      BY <2>1, <2>4, <3>1 DEF Changes, Fields
    <3>6. Keeps(e, h)
      <4>1. Active(h) = Active(e) /\ e.hs \in Rows
        BY <1>1, <3>4 DEF Quiets, Active, Placed
      <4> QED BY <3>4, <4>1 DEF Keeps, Quiets, Agrees
    <3>7. Pending(h)
      <4>1. h.hs_msg # None => Fits(h, h.hs_msg)
        <5>1. e.hs_msg # None => Fits(e, e.hs_msg)
          BY <1>1, Zenon DEF Pending
        <5>2. h.hs_msg = e.hs_msg
          BY <3>4 DEF Quiets
        <5> QED BY <3>6, <5>1, <5>2, FitsKept, Zenon
      <4> QED BY <3>5, <4>1 DEF Pending
    <3>8. Living(h, o) /\ Steady(e, h)
      BY <1>1, <3>6, <3>7, AliveOrNot, KeepsLiving
    <3>9. Result(e, h, o)
      <4>1. /\ Shape(h) /\ h.hs \subseteq Flag /\ h.st \in Status /\ h.st # "completed"
            /\ h.n \in 0 .. TLS13_NUM_MESSAGE_TYPES - 1
        BY <3>3, <3>4 DEF Ready, Succeeded, Status, Quiets, Typed
      <4>2. h.out = Append(e.out, rec) /\ h.mode = e.mode /\ h.cfg = e.cfg
        BY <2>2, <3>4, <3>5 DEF Quiets
      <4> QED BY <2>2, <3>4, <3>8, <4>1, <4>2, AppendResult
    <3> QED BY <2>1, <2>4, <3>9, Zenon DEF h, d
  <2>5. CASE d.send_dummy_ccs_after
    <3>1. Changes(d, a, {"send_dummy_ccs", "send_dummy_ccs_after"}) /\ ~a.send_dummy_ccs_after
      BY <2>1 DEF Ready, Shape, Fields, Changes
    <3> HIDE DEF a
    <3> DEFINE X == {"out", "wrec", "ccs_sent", "send_dummy_ccs", "send_dummy_ccs_after"}
    <3>2. Works(d, a, {"send_dummy_ccs", "send_dummy_ccs_after"}) /\ a.hs = d.hs
      BY <2>1, <3>1, WorksBy
    <3>3. Works(e, a, X) /\ Ready(a)
      BY <2>1, <3>2, WorksTwice, WorksReady
    <3>4. /\ a.mode = e.mode /\ a.cfg = e.cfg /\ a.ccs_seen = e.ccs_seen /\ a.n = e.n /\ a.hs = e.hs
          /\ a.hs_msg = e.hs_msg /\ a.handshake_traffic = e.handshake_traffic
          /\ a.shared = e.shared /\ a.cipher = e.cipher
      BY <3>3 DEF Works, Changes, Fields
    <3>5. a.wrec = None /\ a.out = Append(e.out, rec)
      BY <2>1, <2>2, <3>1 DEF Changes, Fields
    <3>6. \/ Falls(a, f)
          \/ /\ Works(a, f, {"n", "need_flush"}) /\ f.n = a.n + 1 /\ f.hs = a.hs
             /\ f.n \in 0 .. TLS13_NUM_MESSAGE_TYPES - 1
      BY <3>3, <3>4, SendEnds DEF Typed
    <3> HIDE DEF f
    <3>7. CASE Falls(a, f)
      <4>1. /\ f.mode = a.mode /\ f.cfg = a.cfg /\ f.n = a.n /\ f.ccs_seen = a.ccs_seen /\ Shape(f)
            /\ f.hs \subseteq Flag /\ f.st \in Status /\ f.st # "completed" /\ ~Alive(f) /\ f.out = a.out
        BY <3>7, Zenon DEF Falls, Dies
      <4>2. Result(e, f, o)
        BY <2>2, <3>4, <3>5, <4>1, AppendResult DEF Typed
      <4> QED BY <2>1, <2>5, <4>2, Zenon DEF f, a, d
    <3>8. CASE ~Falls(a, f)
      <4>1. /\ Works(a, f, {"n", "need_flush"}) /\ f.n = e.n + 1 /\ f.hs = e.hs
            /\ f.n \in 0 .. TLS13_NUM_MESSAGE_TYPES - 1
        BY <3>4, <3>6, <3>8
      <4>2. /\ f.mode = e.mode /\ f.cfg = e.cfg /\ f.ccs_seen = e.ccs_seen /\ f.hs_msg = e.hs_msg
            /\ f.handshake_traffic = e.handshake_traffic /\ f.shared = e.shared /\ f.cipher = e.cipher
            /\ f.wrec = None /\ f.out = Append(e.out, rec) /\ ~f.send_dummy_ccs_after
        BY <3>1, <3>4, <3>5, <4>1 DEF Works, Changes, Fields
      <4>3. Works(e, f, HelloSentFields)
        <5>1. X \subseteq HelloSentFields /\ {"n", "need_flush"} \subseteq HelloSentFields
          BY DEF HelloSentFields, SentFields
        <5> HIDE DEF X
        <5> QED BY <3>3, <4>1, <5>1, WorksTwice
      <4>4. e.hs_msg = None /\ Active(e) \in {"SERVER_HELLO", "SERVER_HELLO_RETRY_REQUEST"}
        BY <1>1, <2>3, <2>5 DEF Pending
      <4>5. Living(f, o) /\ Steady(e, f)
        <5>1. CASE Active(e) = "SERVER_HELLO_RETRY_REQUEST"
          BY <1>1, <4>1, <4>2, <4>3, <4>4, <5>1, RetryRequestAdvances
        <5>2. CASE Active(e) = "SERVER_HELLO"
          <6>1. HelloSent(e) /\ e.mode = "server"
            BY <2>3, <2>5, <5>2, Entries DEF HelloSent, SendsNext, Entry
          <6>2. Keyed(f)
            BY <1>1, <4>2, <6>1, KeyedSame DEF Engaged
          <6>3. ServerRow(e, f)
            <7>1. Switch(e.hs, e.n, f.hs, "SERVER_HELLO")
              BY <1>1, <4>1, <5>2, SwitchSame DEF Placed, Active
            <7>2. e.hs # {} /\ "WITH_CCV" \notin e.hs
              BY <1>1, <5>2, <6>1 DEF Placed, AfterServerFinished
            <7>3. e.cfg.verify = "none" <=> "WITHOUT_CR" \in e.hs
              BY <6>1 DEF Living, ClientSeen
            <7> QED BY <4>1, <7>1, <7>2, <7>3 DEF ServerRow
          <6> QED BY <1>1, <4>1, <4>2, <4>3, <4>4, <5>2, <6>2, <6>3, ServerHelloAdvances
        <5> QED BY <4>4, <5>1, <5>2
      <4>6. Result(e, f, o)
        <5>1. Shape(f) /\ f.hs \subseteq Flag /\ f.st \in Status /\ f.st # "completed"
          BY <4>1 DEF Works, Changes, Succeeded, Status
        <5> QED BY <2>2, <4>1, <4>2, <4>5, <5>1, AppendResult
      <4> QED BY <2>1, <2>5, <4>6, Zenon DEF f, a, d
    <3> QED BY <3>7, <3>8
  <2> QED BY <2>4, <2>5
<1> QED BY <1>3, <1>4

(* tls13_send_alert. *)
LEMMA AlertResult ==
    ASSUME NEW e, NEW o, NEW taken \in BOOLEAN, Typed(e)
    PROVE  LET rec == tls13_record_layer_seal_record(e, "alert", e.alert)
           IN  Result(e, Abort([e EXCEPT !.out = IF taken THEN Append(@, rec) ELSE @]), o)
<1> DEFINE rec == tls13_record_layer_seal_record(e, "alert", e.alert)
           q == IF taken THEN Append(e.out, rec) ELSE e.out
           g == [e EXCEPT !.out = q]
           f == Abort(g)
<1>1. rec.ct = "alert"
  BY DEF tls13_record_layer_seal_record
<1>2. g = [e EXCEPT !.out = IF taken THEN Append(@, rec) ELSE @]
  <2> HIDE DEF rec
  <2> QED OBVIOUS
<1> HIDE DEF rec
<1>3. Changes(e, g, {"out"}) /\ g.out = q
  <2> HIDE DEF q
  <2> QED BY DEF Typed, Shape, Fields, Changes
<1> HIDE DEF g
<1>4. g.hs = e.hs /\ Shape(g)
  BY <1>3 DEF Changes, Fields
<1>5. Changes(g, f, {"st"}) /\ Dies(g, f)
  BY <1>4, AbortDies DEF Typed
<1> HIDE DEF f
<1>6. /\ f.mode = e.mode /\ f.cfg = e.cfg /\ f.ccs_seen = e.ccs_seen /\ f.n = e.n /\ f.out = q
      /\ Shape(f) /\ f.hs \subseteq Flag
  BY <1>3, <1>4, <1>5 DEF Changes, Fields, Typed
<1>7. f.st \in Status /\ f.st # "completed" /\ ~Alive(f)
  BY <1>5, Zenon DEF Dies
<1>8. CASE taken
  <2>1. f.out = Append(e.out, rec)
    BY <1>6, <1>8
  <2>2. Result(e, f, o)
    BY <1>1, <1>6, <1>7, <2>1, AppendResult DEF Typed
  <2> QED BY <1>2, <2>2, Zenon DEF f, rec
<1>9. CASE ~taken
  <2>1. f.out = e.out
    BY <1>6, <1>9
  <2>2. Dies(e, f)
    BY <1>6, <1>7, <2>1, Zenon DEF Dies
  <2>3. Result(e, f, o)
    BY <2>2, Dead, Zenon
  <2> QED BY <1>2, <2>3, Zenon DEF f, rec
<1> QED BY <1>8, <1>9

(* Reaching APPLICATION_DATA completes the handshake. *)
LEMMA CompleteResult ==
    ASSUME NEW e, NEW o, Typed(e), Succeeded(e), Living(e, o), Active(e) = "APPLICATION_DATA"
    PROVE  Result(e, [e EXCEPT !.st = "completed"], o)
<1> DEFINE f == [e EXCEPT !.st = "completed"]
<1>1. Changes(e, f, {"st"}) /\ f.st = "completed"
  BY DEF Typed, Shape, Fields, Changes
<1> HIDE DEF f
<1>2. /\ f.mode = e.mode /\ f.cfg = e.cfg /\ f.n = e.n /\ f.alert = e.alert /\ f.hs = e.hs
      /\ f.hs_msg = e.hs_msg /\ f.wrec = e.wrec /\ f.send_dummy_ccs = e.send_dummy_ccs
      /\ f.send_dummy_ccs_after = e.send_dummy_ccs_after /\ f.read = e.read /\ f.write = e.write
      /\ f.cipher = e.cipher /\ f.shared = e.shared /\ f.handshake_traffic = e.handshake_traffic
      /\ f.application_traffic = e.application_traffic /\ f.handshake_hash = e.handshake_hash
      /\ f.peer_cert = e.peer_cert /\ f.peer_proved = e.peer_proved /\ f.ccs_seen = e.ccs_seen
      /\ f.out = e.out /\ Shape(f) /\ Active(f) = Active(e)
  BY <1>1 DEF Changes, Fields, Active
<1>3. Typed(f)
  BY <1>1, <1>2 DEF Typed, Status, Alive, Succeeded
<1>4. Placed(f)
  BY <1>1, <1>2 DEF Living, Placed, HelloSent
<1>5. Pending(f)
  <2>1. \A m : Fits(e, m) => Fits(f, m)
    BY <1>2 DEF Fits, SendsNext, Finished
  <2> QED BY <1>2, <2>1 DEF Living, Pending, SendsNext
<1>6. Engaged(f)
  BY <1>2, KeyedSame DEF Living, Engaged, HelloSent
<1>7. e.mode = "client" => ServerSeen(f, o) /\ ServerAgreed(f, o)
  BY <1>2 DEF Living, ServerSeen, ServerAgreed
<1>8. e.mode = "server" => ClientSeen(f, o) /\ ClientAgreed(f, o)
  BY <1>2 DEF Living, ClientSeen, ClientAgreed, HelloSent, ServerDone
<1>9. Steady(e, f)
  BY <1>2, AliveOrNot DEF Steady, Moves, Agrees, Late
<1>10. Living(f, o)
  BY <1>2, <1>4, <1>5, <1>6, <1>7, <1>8 DEF Living
<1>11. Result(e, f, o)
  BY <1>2, <1>3, <1>9, <1>10 DEF Result, Writes
<1> QED BY <1>11, Zenon DEF f

-----------------------------------------------------------------------------
(* The steps of the specification. *)

(* Each endpoint has one peer. *)
LEMMA Others == \A p \in Peer : Other(p) \in Peer /\ Other(Other(p)) = p /\ Other(p) # p
  BY DEF Peer, Other

(* A sequence of records that e has sent, and one more. *)
LEMMA RecordsWritten ==
    ASSUME NEW e, NEW f, NEW o, Result(e, f, o), Records(e, e.out), e.mode \in Peer
    PROVE  Records(f, f.out)
<1>1. Records(f, e.out)
  BY RecordsKept DEF Result
<1>2. CASE f.out = e.out
  BY <1>1, <1>2, Zenon
<1>3. CASE f.out # e.out
  <2>1. PICK rec : Sound(f, rec) /\ f.out = Append(e.out, rec)
    BY <1>3, Zenon DEF Result, Writes
  <2>2. IsSeq(e.out) /\ \A i \in 1 .. Len(e.out) : Sound(f, e.out[i])
    BY <1>1, Zenon DEF Records
  <2>3. PICK q : q = f.out
    OBVIOUS
  <2>4. /\ IsSeq(q) /\ Len(q) = Len(e.out) + 1 /\ q[Len(e.out) + 1] = rec
        /\ \A i \in 1 .. Len(e.out) : q[i] = e.out[i]
    BY <2>1, <2>2, <2>3, IsSeqAppend
  <2>5. Len(e.out) \in Nat
    BY <2>2 DEF IsSeq
  <2>6. ASSUME NEW i \in 1 .. Len(q) PROVE Sound(f, q[i])
    <3>1. CASE i = Len(e.out) + 1
      BY <2>1, <2>4, <3>1
    <3>2. CASE i # Len(e.out) + 1
      <4>1. i \in 1 .. Len(e.out)
        BY <2>4, <2>5, <2>6, <3>2
      <4> QED BY <2>2, <2>4, <4>1
    <3> QED BY <3>1, <3>2
  <2> QED BY <2>3, <2>4, <2>6, Zenon DEF Records
<1> QED BY <1>2, <1>3

(* What every endpoint keeps in a step. *)
SteadyStep == \A p \in Peer : Steady(ep[p], ep'[p])

(* A step in which one endpoint changes, and what it sent with it. *)
LEMMA Replaced ==
    ASSUME Inv, NEW p \in Peer, NEW f, ep' = [ep EXCEPT ![p] = f],
           Typed(f), Steady(ep[p], f), Alive(f) => Living(f, ep[Other(p)]), Records(f, f.out),
           DOMAIN wire' = Peer, Records(f, wire'[Other(p)]), Records(ep[Other(p)], wire'[p]),
           closed' \subseteq Peer, damage' \in 0 .. DamageBound
    PROVE  Inv' /\ SteadyStep
<1> DEFINE e == ep[p]
           o == ep[Other(p)]
<1>1. /\ ep'[p] = f /\ ep'[Other(p)] = o /\ DOMAIN ep' = Peer /\ Other(p) \in Peer /\ Other(Other(p)) = p
  BY Others DEF Inv
<1>2. /\ e.mode = p /\ EndpointInv(e, o) /\ o.mode = Other(p) /\ EndpointInv(o, e) /\ Records(o, o.out)
  BY <1>1 DEF Inv
<1>3. Steady(e, f) /\ (Alive(f) => Living(f, o)) /\ Records(o, wire'[p])
  OBVIOUS
<1> HIDE DEF e, o
<1>4. f.mode = e.mode
  BY <1>3, Zenon DEF Steady
<1>5. f.mode = p /\ EndpointInv(f, o)
  BY <1>2, <1>3, <1>4 DEF EndpointInv
<1>6. EndpointInv(o, f)
  <2>1. Alive(o) => Living(o, f)
    BY <1>1, <1>2, <1>3, PeerKept DEF EndpointInv
  <2> QED BY <1>2, <2>1 DEF EndpointInv
<1>7. ASSUME NEW r \in Peer
      PROVE  /\ ep'[r].mode = r /\ EndpointInv(ep'[r], ep'[Other(r)])
             /\ Records(ep'[r], ep'[r].out) /\ Records(ep'[r], wire'[Other(r)])
  <2>1. CASE r = p
    BY <1>1, <1>5, <2>1, Zenon
  <2>2. CASE r = Other(p)
    BY <1>1, <1>2, <1>3, <1>6, <2>2, Zenon
  <2> QED BY <2>1, <2>2 DEF Peer, Other
<1>8. Inv'
  BY <1>1, <1>7 DEF Inv
<1>9. ASSUME NEW r \in Peer PROVE Steady(ep[r], ep'[r])
  <2>1. CASE r = p
    BY <1>1, <1>3, <2>1, Zenon DEF e
  <2>2. CASE r = Other(p)
    <3>1. Quiet(o, o)
      BY DEF Quiet
    <3>2. Steady(o, o)
      BY <3>1, QuietSteady
    <3> QED BY <1>1, <3>2, <2>2, Zenon DEF o
  <2> QED BY <2>1, <2>2 DEF Peer, Other
<1> QED BY <1>8, <1>9 DEF SteadyStep

(* A step of one endpoint as its handlers take it. *)
LEMMA Stepped ==
    ASSUME Inv, NEW p \in Peer, NEW f, Result(ep[p], f, ep[Other(p)]), ep' = [ep EXCEPT ![p] = f],
           DOMAIN wire' = Peer, \A q \in Peer : \A x : Records(x, wire[q]) => Records(x, wire'[q]),
           UNCHANGED <<closed, damage>>
    PROVE  Inv' /\ SteadyStep
<1> DEFINE e == ep[p]
           o == ep[Other(p)]
<1>1. Other(p) \in Peer /\ Other(Other(p)) = p
  BY Others
<1>2. e.mode = p /\ Records(e, e.out) /\ Records(e, wire[Other(p)]) /\ Records(o, wire[p])
  BY <1>1 DEF Inv
<1> HIDE DEF e, o
<1>3. Result(e, f, o)
  BY DEF e, o
<1>4. Typed(f) /\ Steady(e, f) /\ (Alive(f) => Living(f, o))
  BY <1>3, Zenon DEF Result
<1>5. Records(f, f.out)
  BY <1>2, <1>3, RecordsWritten
<1>6. Records(f, wire'[Other(p)]) /\ Records(o, wire'[p])
  <2>1. Records(f, wire[Other(p)])
    BY <1>2, <1>4, RecordsKept
  <2> QED BY <1>1, <1>2, <2>1
<1>7. closed' \subseteq Peer /\ damage' \in 0 .. DamageBound
  BY DEF Inv
<1> QED BY <1>4, <1>5, <1>6, <1>7, Replaced DEF e, o

(* Sequences of records, taken apart and put together. *)
LEMMA RecordsJoined ==
    ASSUME NEW e, NEW a, NEW b, Records(e, a), Records(e, b)
    PROVE  Records(e, a \o b)
<1> DEFINE S == ToSet(a) \cup ToSet(b)
<1>1. /\ IsSeq(a) /\ IsSeq(b) /\ \A i \in 1 .. Len(a) : Sound(e, a[i])
      /\ \A i \in 1 .. Len(b) : Sound(e, b[i])
  BY Zenon DEF Records
<1>2. a \in Seq(S) /\ b \in Seq(S)
  BY <1>1 DEF IsSeq
<1>3. PICK z : z = a \o b
  OBVIOUS
<1>4. /\ z \in Seq(S) /\ Len(z) = Len(a) + Len(b) /\ Len(a) \in Nat /\ Len(b) \in Nat
      /\ \A i \in 1 .. Len(z) : z[i] = IF i <= Len(a) THEN a[i] ELSE b[i - Len(a)]
  BY <1>2, <1>3
<1>5. IsSeq(z)
  BY <1>4 DEF IsSeq, ToSet
<1>6. ASSUME NEW i \in 1 .. Len(z) PROVE Sound(e, z[i])
  <2>1. CASE i <= Len(a)
    BY <1>1, <1>4, <2>1
  <2>2. CASE ~(i <= Len(a))
    <3>1. i - Len(a) \in 1 .. Len(b) /\ z[i] = b[i - Len(a)]
      BY <1>4, <2>2
    <3> QED BY <1>1, <3>1
  <2> QED BY <2>1, <2>2
<1>7. Records(e, z)
  BY <1>5, <1>6 DEF Records
<1> QED BY <1>3, <1>7, Zenon

(* The first record, and the others. *)
LEMMA RecordsHead ==
    ASSUME NEW e, NEW q, Records(e, q), q # << >>
    PROVE  Sound(e, Head(q)) /\ Records(e, Tail(q))
<1> DEFINE S == ToSet(q)
<1>1. q \in Seq(S) /\ \A i \in 1 .. Len(q) : Sound(e, q[i])
  BY DEF Records, IsSeq
<1>2. Head(q) = q[1] /\ Len(q) \in Nat /\ Len(q) >= 1
  BY <1>1
<1>3. PICK z : z = Tail(q)
  OBVIOUS
<1>4. z \in Seq(S) /\ Len(z) = Len(q) - 1 /\ \A i \in 1 .. Len(z) : z[i] = q[i + 1]
  BY <1>1, <1>2, <1>3
<1>5. IsSeq(z)
  BY <1>4 DEF IsSeq, ToSet
<1>6. ASSUME NEW i \in 1 .. Len(z) PROVE Sound(e, z[i])
  <2>1. i + 1 \in 1 .. Len(q) /\ z[i] = q[i + 1]
    BY <1>2, <1>4
  <2> QED BY <1>1, <2>1
<1>7. Records(e, z)
  BY <1>5, <1>6 DEF Records
<1> QED BY <1>1, <1>2, <1>3, <1>7

(* No record, and a single one. *)
LEMMA RecordsFew ==
    ASSUME NEW e
    PROVE  Records(e, << >>) /\ \A rec : Sound(e, rec) => Records(e, <<rec>>)
<1>1. Records(e, << >>)
  BY DEF Records, IsSeq, ToSet
<1>2. ASSUME NEW rec, Sound(e, rec) PROVE Records(e, <<rec>>)
  <2>1. PICK z : z = <<rec>>
    OBVIOUS
  <2>2. z \in Seq({rec}) /\ Len(z) = 1 /\ z[1] = rec
    BY <2>1
  <2>3. IsSeq(z)
    BY <2>2 DEF IsSeq, ToSet
  <2>4. ASSUME NEW i \in 1 .. Len(z) PROVE Sound(e, z[i])
    <3>1. i = 1
      BY <2>2
    <3> QED BY <1>2, <2>2, <3>1, Zenon
  <2> QED BY <2>1, <2>3, <2>4, Zenon DEF Records
<1> QED BY <1>1, <1>2, Zenon

(* A damaged hello is still a hello, and no other message has its fields. *)
LEMMA Damaged ==
    ASSUME NEW e, NEW m, NEW d \in DamagedHellos(m), Carries(e, m)
    PROVE  Carries(e, d)
<1> DEFINE X == {"v13", "sid", "pub", "suites", "groups", "cipher"}
<1>1. \E x \in X : \E v : d = [m EXCEPT ![x] = v]
  <2>1. PICK a, b, c : a = ~m.sid /\ b = Reverse(m.suites) /\ c = Reverse(m.groups)
    OBVIOUS
  <2>2. \/ d = [m EXCEPT !["v13"] = FALSE] \/ d = [m EXCEPT !["sid"] = a]
        \/ d = [m EXCEPT !["pub"] = Noise]
        \/ d = [m EXCEPT !["suites"] = b] \/ d = [m EXCEPT !["groups"] = c]
        \/ \E s \in Suites : d = [m EXCEPT !["cipher"] = s]
    BY <2>1, Zenon DEF DamagedHellos
  <2> QED BY <2>2, Zenon
<1> HIDE DEF X
<1>2. PICK x \in X : \E v : d = [m EXCEPT ![x] = v]
  BY <1>1, Zenon
<1>3. PICK v : d = [m EXCEPT ![x] = v]
  BY <1>2, Zenon
<1> USE DEF X
<1>4. DOMAIN d = DOMAIN m /\ d.type = m.type
  BY <1>3 DEF Carries
<1>5. CASE m.type = "certificate"
  <2>1. PICK c : c = IF e.cfg.cert = None THEN "empty" ELSE e.cfg.cert
    OBVIOUS
  <2>2. m = [type |-> "certificate", cert |-> c]
    BY <1>5, <2>1, Zenon DEF Carries, Certificate
  <2>3. d = m
    BY <1>3, <2>2
  <2> QED BY <2>3
<1>6. CASE m.type = "finished" /\ Alive(e)
  <2>1. PICK c : c = [key |-> e.handshake_traffic[e.mode], over |-> m.mac.over]
    OBVIOUS
  <2>2. m = [type |-> "finished", mac |-> c]
    BY <1>6, <2>1, Zenon DEF Carries, FinishedSent, Finished
  <2>3. d = m
    BY <1>3, <2>2
  <2> QED BY <2>3
<1>7. CASE m.type # "certificate" /\ ~(m.type = "finished" /\ Alive(e))
  BY <1>4, <1>7 DEF Carries
<1> QED BY <1>5, <1>6, <1>7

-----------------------------------------------------------------------------
(* The actions. *)

(* An endpoint at work, its peer, and what Inv says of them. *)
LEMMA AtWork ==
    ASSUME Inv, NEW p \in Peer
    PROVE  /\ Typed(ep[p]) /\ ep[p].mode = p /\ Other(p) \in Peer
           /\ Typed(ep[Other(p)]) /\ ep[Other(p)].mode = Other(p)
           /\ Alive(ep[Other(p)]) => Living(ep[Other(p)], ep[p])
           /\ Records(ep[p], ep[p].out) /\ Records(ep[p], wire[Other(p)])
           /\ Records(ep[Other(p)], wire[p])
           /\ Alive(ep[p]) => Living(ep[p], ep[Other(p)])
           /\ Running(p) => Succeeded(ep[p]) /\ Living(ep[p], ep[Other(p)])
           /\ Sending(p) => SendsNext(ep[p])
           /\ Receiving(p) => state_machine[Active(ep[p])].sender = Other(p)
<1>1. Other(p) \in Peer /\ Other(Other(p)) = p
  BY Others
<1>2. /\ ep[p].mode = p /\ EndpointInv(ep[p], ep[Other(p)])
      /\ ep[Other(p)].mode = Other(p) /\ EndpointInv(ep[Other(p)], ep[p])
      /\ Records(ep[p], ep[p].out) /\ Records(ep[p], wire[Other(p)]) /\ Records(ep[Other(p)], wire[p])
  BY <1>1 DEF Inv
<1>3. Running(p) => Succeeded(ep[p]) /\ Living(ep[p], ep[Other(p)])
  BY <1>2, AliveOrNot, Zenon DEF EndpointInv, Running, Succeeded
<1>4. (Sending(p) => SendsNext(ep[p])) /\ (Receiving(p) => state_machine[Active(ep[p])].sender = Other(p))
  <2>1. p # "invalid" /\ Other(p) # "invalid"
    BY <1>1 DEF Peer
  <2> QED BY <1>2, <2>1, Zenon DEF Sending, Receiving, Sender, SendsNext
<1> QED BY <1>1, <1>2, <1>3, <1>4, Zenon DEF EndpointInv

(* The records on the wire stay. *)
LEMMA WireKept ==
    ASSUME Inv, NEW p, NEW f, Update(p, f)
    PROVE  /\ ep' = [ep EXCEPT ![p] = f] /\ DOMAIN wire' = Peer
           /\ \A q \in Peer : \A x : Records(x, wire[q]) => Records(x, wire'[q])
           /\ UNCHANGED <<closed, damage>>
  BY DEF Update, Inv

(* A step that leaves the wire alone. *)
LEMMA Updated ==
    ASSUME Inv, NEW p \in Peer, NEW f, Result(ep[p], f, ep[Other(p)]), Update(p, f)
    PROVE  Inv' /\ SteadyStep
<1>1. /\ ep' = [ep EXCEPT ![p] = f] /\ DOMAIN wire' = Peer
      /\ \A q \in Peer : \A x : Records(x, wire[q]) => Records(x, wire'[q])
      /\ UNCHANGED <<closed, damage>>
  BY WireKept
<1> QED BY <1>1, Stepped

(* The steps of an endpoint that leave the wire alone. *)
LEMMA CompleteStep ==
    ASSUME Inv, NEW p \in Peer, Complete(p)
    PROVE  Inv' /\ SteadyStep
<1> DEFINE f == [ep[p] EXCEPT !.st = "completed"]
<1>1. Running(p) /\ Active(ep[p]) = "APPLICATION_DATA" /\ Update(p, f)
  BY Zenon DEF Complete
<1>2. Typed(ep[p]) /\ Succeeded(ep[p]) /\ Living(ep[p], ep[Other(p)])
  BY <1>1, AtWork
<1>3. Result(ep[p], f, ep[Other(p)])
  BY <1>1, <1>2, CompleteResult
<1> HIDE DEF f
<1> QED BY <1>1, <1>3, Updated

LEMMA SendDummyCcsStep ==
    ASSUME Inv, NEW p \in Peer, SendDummyCcs(p)
    PROVE  Inv' /\ SteadyStep
<1> DEFINE d == tls13_send_dummy_ccs(ep[p])
           f == IF ~Succeeded(d) THEN d
                ELSE IF d.send_dummy_ccs_after
                THEN AfterSend([d EXCEPT !.send_dummy_ccs = FALSE, !.send_dummy_ccs_after = FALSE])
                ELSE [d EXCEPT !.send_dummy_ccs = FALSE]
<1>1. Sending(p) /\ Update(p, f)
  BY Zenon DEF SendDummyCcs
<1>2. Typed(ep[p]) /\ Succeeded(ep[p]) /\ Living(ep[p], ep[Other(p)]) /\ SendsNext(ep[p])
  BY <1>1, AtWork DEF Sending
<1>3. Result(ep[p], f, ep[Other(p)])
  BY <1>2, DummyCcsResult, Zenon
<1> HIDE DEF f
<1> QED BY <1>1, <1>3, Updated

LEMMA SendMessageStep ==
    ASSUME Inv, NEW p \in Peer, SendMessage(p)
    PROVE  Inv' /\ SteadyStep
<1> DEFINE b == Built(ep[p])
           w == tls13_record_layer_write_record(b, "handshake", b.hs_msg)
           f == IF ~Succeeded(b) THEN b ELSE IF ~Succeeded(w) THEN w
                ELSE MessageWritten(w, Active(ep[p]))
<1>1. Sending(p) /\ ~ep[p].send_dummy_ccs /\ Update(p, f)
  BY Zenon DEF SendMessage
<1>2. Typed(ep[p]) /\ Succeeded(ep[p]) /\ Living(ep[p], ep[Other(p)]) /\ SendsNext(ep[p])
  BY <1>1, AtWork DEF Sending
<1>3. Result(ep[p], f, ep[Other(p)])
  BY <1>1, <1>2, SendMessageResult, Zenon
<1> HIDE DEF f
<1> QED BY <1>1, <1>3, Updated

LEMMA BlockWriteStep ==
    ASSUME Inv, NEW p \in Peer, BlockWrite(p)
    PROVE  Inv' /\ SteadyStep
<1> DEFINE e == ep[p]
           ccs == e.send_dummy_ccs
           b == IF ccs THEN e ELSE Built(e)
           rec == tls13_record_layer_seal_record(b, IF ccs THEN "ccs" ELSE "handshake",
                                                 IF ccs THEN None ELSE b.hs_msg)
           f == [b EXCEPT !.wrec = rec]
<1>1. Sending(p) /\ e.wrec = None /\ Succeeded(IF e.send_dummy_ccs THEN e ELSE Built(e)) /\ Update(p, f)
  BY Zenon DEF BlockWrite
<1>2. Typed(e) /\ Succeeded(e) /\ Living(e, ep[Other(p)]) /\ SendsNext(e)
  BY <1>1, AtWork DEF Sending
<1>3. Result(e, f, ep[Other(p)])
  <2> HIDE DEF e
  <2> QED BY <1>1, <1>2, BlockWriteResult, Zenon
<1> HIDE DEF f
<1> QED BY <1>1, <1>3, Updated

LEMMA ConnectionLostStep ==
    ASSUME Inv, NEW p \in Peer, ConnectionLost(p)
    PROVE  Inv' /\ SteadyStep
<1>1. Update(p, Abort(ep[p]))
  BY Zenon DEF ConnectionLost
<1>2. Typed(ep[p])
  BY AtWork
<1>3. Shape(ep[p]) /\ ep[p].hs \subseteq Flag
  BY <1>2 DEF Typed
<1>4. Dies(ep[p], Abort(ep[p]))
  BY <1>3, AbortDies
<1>5. Result(ep[p], Abort(ep[p]), ep[Other(p)])
  BY <1>2, <1>4, Dead
<1> QED BY <1>1, <1>5, Updated

LEMMA SendAlertStep ==
    ASSUME Inv, NEW p \in Peer, SendAlert(p)
    PROVE  Inv' /\ SteadyStep
<1> DEFINE rec == tls13_record_layer_seal_record(ep[p], "alert", ep[p].alert)
           F(taken) == Abort([ep[p] EXCEPT !.out = IF taken THEN Append(@, rec) ELSE @])
<1>1. PICK taken \in BOOLEAN : Update(p, F(taken))
  BY Zenon DEF SendAlert
<1>2. Typed(ep[p])
  BY AtWork
<1>3. Result(ep[p], F(taken), ep[Other(p)])
  BY <1>2, AlertResult, Zenon
<1> HIDE DEF F
<1> QED BY <1>1, <1>3, Updated

(* A record is read from the wire. *)
LEMMA RecvStep ==
    ASSUME Inv, NEW p \in Peer, Recv(p)
    PROVE  Inv' /\ SteadyStep
<1> DEFINE e == ep[p]
           o == ep[Other(p)]
           rec == Head(wire[p])
           f == tls13_record_layer_read_record(e, rec)
<1>1. /\ Receiving(p) /\ wire[p] # << >> /\ ep' = [ep EXCEPT ![p] = f]
      /\ wire' = [wire EXCEPT ![p] = Tail(@)] /\ UNCHANGED <<closed, damage>>
  BY DEF Recv
<1>2. /\ Typed(e) /\ e.mode = p /\ Typed(o) /\ o.mode = Other(p) /\ (Alive(o) => Living(o, e))
      /\ Succeeded(e) /\ Living(e, o) /\ state_machine[Active(e)].sender = Other(p)
      /\ Records(o, wire[p])
  BY <1>1, AtWork DEF Receiving
<1>3. Sound(o, rec)
  BY <1>1, <1>2, RecordsHead
<1>4. Result(e, f, o)
  <2> HIDE DEF e, o, rec
  <2> QED BY <1>2, <1>3, RecvResult
<1>5. DOMAIN wire' = Peer
  BY <1>1 DEF Inv
<1>6. ASSUME NEW q \in Peer, NEW x, Records(x, wire[q]) PROVE Records(x, wire'[q])
  <2>1. CASE q = p
    <3>1. wire'[q] = Tail(wire[q])
      BY <1>1, <2>1 DEF Inv
    <3> QED BY <1>1, <1>6, <2>1, <3>1, RecordsHead
  <2>2. CASE q # p
    <3>1. wire'[q] = wire[q]
      BY <1>1, <2>2 DEF Inv
    <3> QED BY <1>6, <3>1
  <2> QED BY <2>1, <2>2
<1> HIDE DEF f
<1> QED BY <1>1, <1>4, <1>5, <1>6, Stepped

(* What is in the BIO of an endpoint moves to the wire. *)
LEMMA DeliverStep ==
    ASSUME Inv, NEW p \in Peer, NEW f, Quiet(ep[p], f), Typed(f), f.out = << >>,
           ep' = [ep EXCEPT ![p] = f], Deliver(p)
    PROVE  Inv' /\ SteadyStep
<1> DEFINE e == ep[p]
           o == ep[Other(p)]
<1>1. /\ e.mode = p /\ Other(p) \in Peer /\ Records(e, e.out) /\ Records(e, wire[Other(p)])
      /\ Records(o, wire[p]) /\ (Alive(e) => Living(e, o))
  BY AtWork
<1>2. /\ DOMAIN wire' = Peer /\ wire'[Other(p)] = wire[Other(p)] \o e.out /\ wire'[p] = wire[p]
      /\ closed' = closed /\ damage' = damage
  BY <1>1, Others DEF Deliver, Inv
<1>3. Quiet(e, f)
  OBVIOUS
<1> HIDE DEF e, o
<1>4. Steady(e, f) /\ (Alive(f) <=> Alive(e))
  BY <1>3, QuietSteady
<1>5. Alive(f) => Living(f, o)
  BY <1>1, <1>3, <1>4, QuietLiving
<1>6. Records(f, f.out)
  BY RecordsFew
<1>7. Records(f, wire'[Other(p)])
  <2>1. Records(f, wire[Other(p)]) /\ Records(f, e.out)
    BY <1>1, <1>4, RecordsKept
  <2> QED BY <1>2, <2>1, RecordsJoined
<1>8. Records(o, wire'[p])
  BY <1>1, <1>2
<1>9. closed' \subseteq Peer /\ damage' \in 0 .. DamageBound
  BY <1>2 DEF Inv
<1> QED BY <1>2, <1>4, <1>5, <1>6, <1>7, <1>8, <1>9, Replaced DEF e, o

(* The empty BIO of a quiet endpoint. *)
LEMMA Emptied ==
    ASSUME NEW e, NEW f, Typed(e), Changes(e, f, {"out", "need_flush"}), f.out = << >>
    PROVE  Quiet(e, f) /\ Typed(f)
<1>1. Quiet(e, f)
  BY DEF Changes, Quiet, Matters
<1>2. /\ f.mode = e.mode /\ f.cfg = e.cfg /\ f.st = e.st /\ f.hs = e.hs /\ f.n = e.n
      /\ f.ccs_seen = e.ccs_seen /\ f.alert = e.alert /\ Shape(f)
  BY DEF Changes, Fields
<1>3. IsSeq(f.out)
  BY DEF IsSeq, ToSet
<1> QED BY <1>1, <1>2, <1>3 DEF Typed, Alive

(* Records reach the wire. *)
LEMMA FlushStep ==
    ASSUME Inv, NEW p \in Peer, Flush(p)
    PROVE  Inv' /\ SteadyStep
<1> DEFINE f == [ep[p] EXCEPT !.need_flush = FALSE, !.out = << >>]
<1>1. ep' = [ep EXCEPT ![p] = f] /\ Deliver(p)
  BY DEF Flush, Inv
<1>2. Typed(ep[p])
  BY AtWork
<1>3. Changes(ep[p], f, {"out", "need_flush"}) /\ f.out = << >>
  BY <1>2, ZenonT(40) DEF Typed, Shape, Fields, Changes
<1> HIDE DEF f
<1>4. Quiet(ep[p], f) /\ Typed(f)
  BY <1>2, <1>3, Emptied
<1> QED BY <1>1, <1>3, <1>4, DeliverStep

LEMMA DrainStep ==
    ASSUME Inv, NEW p \in Peer, Drain(p)
    PROVE  Inv' /\ SteadyStep
<1> DEFINE f == [ep[p] EXCEPT !.out = << >>]
<1>1. ep' = [ep EXCEPT ![p] = f] /\ Deliver(p)
  BY DEF Drain, Inv
<1>2. Typed(ep[p])
  BY AtWork
<1>3. Changes(ep[p], f, {"out", "need_flush"}) /\ f.out = << >>
  BY <1>2 DEF Typed, Shape, Fields, Changes
<1> HIDE DEF f
<1>4. Quiet(ep[p], f) /\ Typed(f)
  BY <1>2, <1>3, Emptied
<1> QED BY <1>1, <1>3, <1>4, DeliverStep

(* The endpoints stay as they are. *)
LEMMA Still ==
    ASSUME Inv, UNCHANGED ep, DOMAIN wire' = Peer,
           \A q \in Peer : Records(ep[Other(q)], wire[q]) => Records(ep[Other(q)], wire'[q]),
           closed' \subseteq Peer, damage' \in 0 .. DamageBound
    PROVE  Inv' /\ SteadyStep
<1>1. ASSUME NEW p \in Peer
      PROVE  /\ ep[p].mode = p /\ EndpointInv(ep[p], ep[Other(p)])
             /\ Records(ep[p], ep[p].out) /\ Records(ep[p], wire'[Other(p)])
  <2>1. Other(p) \in Peer /\ Other(Other(p)) = p
    BY Others
  <2>2. Records(ep[p], wire[Other(p)])
    BY DEF Inv
  <2>3. Records(ep[p], wire'[Other(p)])
    BY <2>1, <2>2
  <2> QED BY <2>3 DEF Inv
<1>2. Inv'
  BY <1>1 DEF Inv
<1>3. ASSUME NEW p \in Peer PROVE Steady(ep[p], ep'[p])
  <2>1. Quiet(ep[p], ep[p])
    BY DEF Quiet
  <2>2. Steady(ep[p], ep[p])
    BY <2>1, QuietSteady
  <2> QED BY <2>2
<1> QED BY <1>2, <1>3 DEF SteadyStep

(* Closing the connection, and damaging a hello on the wire. *)
LEMMA CloseStep ==
    ASSUME Inv, NEW p \in Peer, Close(p)
    PROVE  Inv' /\ SteadyStep
<1>1. UNCHANGED ep /\ UNCHANGED wire /\ closed' \subseteq Peer /\ damage' \in 0 .. DamageBound
  BY DEF Close, Inv
<1>2. DOMAIN wire' = Peer
  BY <1>1 DEF Inv
<1> QED BY <1>1, <1>2, Still

LEMMA DamageHelloStep ==
    ASSUME Inv, NEW p \in Peer, DamageHello(p)
    PROVE  Inv' /\ SteadyStep
<1> DEFINE o == ep[Other(p)]
           h == Head(wire[p])
           R(m) == [ct |-> "handshake", key |-> None, msg |-> m]
<1>1. /\ damage < DamageBound /\ wire[p] # << >> /\ h.ct = "handshake" /\ damage' = damage + 1
      /\ UNCHANGED <<ep, closed>>
  BY DEF DamageHello
<1>2. PICK m \in DamagedHellos(h.msg) : wire' = [wire EXCEPT ![p] = <<R(m)>> \o Tail(@)]
  BY Zenon DEF DamageHello
<1>3. Records(o, wire[p])
  BY AtWork
<1>4. Sound(o, h) /\ Records(o, Tail(wire[p]))
  BY <1>1, <1>3, RecordsHead
<1>5. Carries(o, m)
  <2>1. Carries(o, h.msg)
    BY <1>1, <1>4 DEF Sound
  <2> HIDE DEF o, h
  <2> QED BY <1>2, <2>1, Damaged
<1>6. Sound(o, R(m))
  BY <1>5 DEF Sound, Content
<1>7. Records(o, <<R(m)>> \o Tail(wire[p]))
  <2> HIDE DEF R, o
  <2>1. Records(o, <<R(m)>>)
    BY <1>6, RecordsFew
  <2> QED BY <1>4, <2>1, RecordsJoined
<1>8. /\ DOMAIN wire' = Peer /\ wire'[p] = <<R(m)>> \o Tail(wire[p])
      /\ \A q \in Peer \ {p} : wire'[q] = wire[q]
  <2> HIDE DEF R
  <2> QED BY <1>2 DEF Inv
<1>9. ASSUME NEW q \in Peer, Records(ep[Other(q)], wire[q]) PROVE Records(ep[Other(q)], wire'[q])
  <2>1. CASE q = p
    BY <1>7, <1>8, <2>1, Zenon
  <2>2. CASE q # p
    BY <1>8, <1>9, <2>2
  <2> QED BY <2>1, <2>2
<1>10. closed' \subseteq Peer /\ damage' \in 0 .. DamageBound
  BY <1>1, DamageAssumption DEF Inv
<1> QED BY <1>1, <1>8, <1>9, <1>10, Still

-----------------------------------------------------------------------------
(* The theorems. *)

(* The invariant holds at the start. *)
LEMMA Begins ==
    ASSUME Init
    PROVE  Inv
<1>1. PICK c \in Configs : ep = [p \in Peer |-> NewEndpoint(p, c[p])]
  BY DEF Init
<1>2. wire = [p \in Peer |-> << >>] /\ closed = {} /\ damage = 0
  BY DEF Init
<1>3. ASSUME NEW p \in Peer PROVE ep[p].mode = p /\ Records(ep[p], ep[p].out) /\ EndpointInv(ep[p], ep[Other(p)])
  <2> DEFINE e == ep[p]
             k == IF p = "client"
                  THEN tls_key_share_new(c[p].share, tls_key_share_generate(p, 1), None) ELSE None
             s == p = "client" /\ c[p].max13
  <2>1. PICK k1, s1 : k1 = k /\ s1 = s
    OBVIOUS
  <2>2. e = NewEndpoint(p, c[p])
    BY <1>1
  <2> HIDE DEF k, s, e
  <2>3. /\ Shape(e) /\ e.mode = p /\ e.cfg = c[p] /\ e.st = "run" /\ e.hs = {} /\ e.n = 0 /\ e.alert = None
        /\ e.hs_msg = None /\ ~e.send_dummy_ccs_after /\ e.ccs_seen = 0 /\ e.wrec = None /\ e.out = << >>
        /\ e.peer_cert = None
    BY <2>1, <2>2 DEF NewEndpoint, Shape, Fields, k, s
  <2>4. Active(e) = "CLIENT_HELLO"
    BY <2>3, InitialRow DEF At, Active
  <2>5. Records(e, e.out) /\ IsSeq(e.out)
    BY <2>3, RecordsFew DEF Records
  <2>6. Typed(e)
    BY <2>3, <2>5, ConfigAssumption DEF Typed, Status, TLS13_NUM_MESSAGE_TYPES
  <2>7. Placed(e)
    <3>1. "CLIENT_HELLO" \in MessageType
      BY Entries DEF Names
    <3> QED BY <2>3, <2>4, <3>1 DEF Placed, Rows, HelloSent
  <2>8. Pending(e)
    BY <2>3 DEF Pending
  <2>9. Engaged(e)
    BY <2>3, <2>4 DEF Engaged, HelloSent, Hellos
  <2>10. ServerSeen(e, ep[Other(p)]) /\ ServerAgreed(e, ep[Other(p)])
    BY <2>4 DEF ServerSeen, ServerAgreed, AfterServerCertificate, AfterServerVerify, AfterServerFinished
  <2>11. ClientSeen(e, ep[Other(p)]) /\ ClientAgreed(e, ep[Other(p)])
    BY <2>3, <2>4 DEF ClientSeen, ClientAgreed, Hellos, HelloSent, AfterServerFinished
  <2>12. EndpointInv(e, ep[Other(p)])
    BY <2>6, <2>7, <2>8, <2>9, <2>10, <2>11, Zenon DEF EndpointInv, Living
  <2> QED BY <2>3, <2>5, <2>12 DEF e
<1>4. ASSUME NEW p \in Peer PROVE Records(ep[p], wire[Other(p)])
  <2>1. wire[Other(p)] = << >>
    BY <1>2, Others
  <2> QED BY <2>1, RecordsFew
<1>5. DOMAIN ep = Peer /\ DOMAIN wire = Peer /\ closed \subseteq Peer /\ damage \in 0 .. DamageBound
  BY <1>1, <1>2, DamageAssumption
<1> QED BY <1>3, <1>4, <1>5 DEF Inv

(* Every step keeps Inv, and takes each endpoint at most one message on. *)
LEMMA Steps ==
    ASSUME Inv, [Next]_vars
    PROVE  Inv' /\ SteadyStep
<1>1. CASE UNCHANGED vars
  <2>1. UNCHANGED <<ep, wire, closed, damage>>
    BY <1>1 DEF vars
  <2>2. DOMAIN wire' = Peer /\ closed' \subseteq Peer /\ damage' \in 0 .. DamageBound
    BY <2>1 DEF Inv
  <2> QED BY <2>1, <2>2, Still
<1>2. ASSUME NEW p \in Peer, Perform(p) PROVE Inv' /\ SteadyStep
  BY <1>2, FlushStep, CompleteStep, SendDummyCcsStep, SendMessageStep, RecvStep, ConnectionLostStep,
     SendAlertStep DEF Perform
<1>3. ASSUME NEW p \in Peer, BlockWrite(p) \/ Drain(p) \/ Close(p) \/ DamageHello(p)
      PROVE  Inv' /\ SteadyStep
  BY <1>3, BlockWriteStep, DrainStep, CloseStep, DamageHelloStep
<1>4. CASE Terminated
  BY <1>1, <1>4 DEF Terminated
<1> QED BY <1>1, <1>2, <1>3, <1>4 DEF Next

(* Inv is an inductive invariant of the handshake. *)
THEOREM Invariance == Spec => []Inv
<1>1. Init => Inv
  BY Begins
<1>2. Inv /\ [Next]_vars => Inv'
  BY Steps
<1> QED BY <1>1, <1>2, PTL DEF Spec

(* TypeOK: the state keeps its ranges, and an endpoint at work is at an      *)
(* entry of the handshakes table that says what to do next.                  *)
THEOREM TypeCorrect == Spec => []TypeOK
<1>1. ASSUME Inv PROVE TypeOK
  <2>1. ASSUME NEW p \in Peer
        PROVE  /\ ep[p].st \in Status /\ ep[p].hs \subseteq Flag
               /\ ep[p].n \in 0 .. TLS13_NUM_MESSAGE_TYPES - 1 /\ ep[p].ccs_seen \in 0 .. 2
               /\ Succeeded(ep[p]) => Active(ep[p]) # "INVALID"
               /\ \A i \in DOMAIN ep[p].out : ep[p].out[i].ct \in Content
               /\ \A i \in DOMAIN wire[p] : wire[p][i].ct \in Content
    <3>1. /\ Typed(ep[p]) /\ Records(ep[p], ep[p].out) /\ Records(ep[Other(p)], wire[p])
          /\ Alive(ep[p]) => Living(ep[p], ep[Other(p)])
      BY <1>1, AtWork
    <3>2. Succeeded(ep[p]) => Active(ep[p]) # "INVALID"
      <4>1. Alive(ep[p]) => Active(ep[p]) \in Names
        BY <3>1, Entries, Zenon DEF Living, Placed
      <4>2. "INVALID" \notin Names
        BY DEF Names
      <4> QED BY <4>1, <4>2, AliveOrNot, Zenon
    <3>3. ASSUME NEW e, NEW q, Records(e, q) PROVE \A i \in DOMAIN q : q[i].ct \in Content
      <4>1. DOMAIN q = 1 .. Len(q)
        BY <3>3 DEF Records, IsSeq
      <4> QED BY <3>3, <4>1 DEF Records, Sound
    <3> QED BY <3>1, <3>2, <3>3 DEF Typed
  <2> QED BY <1>1, <2>1 DEF TypeOK, Inv, Content
<1> QED BY <1>1, Invariance, PTL

(* Agreement: when the client and the server both report success they hold   *)
(* the same transcript and cipher, and each reads with the key of application*)
(* data that the other writes with, whatever was blocked, delayed or damaged.*)
THEOREM EndpointsAgree == Spec => []Agreement
<1>1. ASSUME Inv, \A p \in Peer : Completed(p)
      PROVE  /\ ep["client"].handshake_hash = ep["server"].handshake_hash
             /\ ep["client"].cipher = ep["server"].cipher
             /\ \A p \in Peer : ep[p].read = ep[Other(p)].write /\ ep[p].read.level = "application"
  <2> DEFINE c == ep["client"]
             s == ep["server"]
  <2>1. "client" \in Peer /\ "server" \in Peer /\ Other("client") = "server" /\ Other("server") = "client"
    BY DEF Peer, Other
  <2>2. /\ c.mode = "client" /\ s.mode = "server" /\ EndpointInv(c, s) /\ EndpointInv(s, c)
        /\ c.st = "completed" /\ s.st = "completed"
    BY <1>1, <2>1 DEF Inv, Completed
  <2> HIDE DEF c, s
  <2>3. Alive(c) /\ Alive(s) /\ Living(c, s) /\ Living(s, c)
    BY <2>2 DEF EndpointInv, Typed
  <2>4. Active(c) = "APPLICATION_DATA" /\ Active(s) = "APPLICATION_DATA"
    BY <2>2, <2>3 DEF Living, Placed
  <2>5. /\ ServerDone(s) /\ c.application_traffic = s.application_traffic /\ c.cipher = s.cipher
        /\ c.read = c.application_traffic["server"] /\ c.write = c.application_traffic["client"]
    BY <2>2, <2>3, <2>4 DEF Living, ServerAgreed, AfterServerFinished
  <2>6. s.handshake_hash = c.handshake_hash /\ s.read = s.application_traffic["client"]
    BY <2>2, <2>3, <2>4 DEF Living, ClientAgreed
  <2>7. /\ s.write = s.application_traffic["server"]
        /\ \A p \in Peer : s.application_traffic[p].level = "application"
    BY <2>5, Zenon DEF ServerDone
  <2>8. /\ c.read = s.write /\ s.read = c.write
        /\ c.read.level = "application" /\ s.read.level = "application"
    BY <2>1, <2>5, <2>6, <2>7
  <2>9. ASSUME NEW p \in Peer PROVE ep[p].read = ep[Other(p)].write /\ ep[p].read.level = "application"
    <3>1. CASE p = "client"
      BY <2>1, <2>8, <3>1, Zenon DEF c, s
    <3>2. CASE p = "server"
      BY <2>1, <2>8, <3>2, Zenon DEF c, s
    <3> QED BY <3>1, <3>2 DEF Peer
  <2> QED BY <2>5, <2>6, <2>9, Zenon DEF c, s
<1>2. Inv => Agreement
  BY <1>1, Zenon DEF Agreement
<1> QED BY <1>2, Invariance, PTL

(* PeerAuthenticated: an endpoint that reports success has verified its peer *)
(* as it was told to, and the certificate it accepted is that of the peer,   *)
(* which has signed the transcript.                                          *)
THEOREM PeersAuthenticated == Spec => []PeerAuthenticated
<1>1. ASSUME Inv, NEW p \in Peer, Completed(p)
      PROVE  LET e == ep[p]
             IN  /\ e.peer_cert # None => e.peer_proved
                 /\ p = "client" => e.peer_cert # None
                 /\ p = "client" /\ e.cfg.verify # "none" => e.peer_cert = "good"
                 /\ p = "server" /\ e.cfg.verify = "require" => e.peer_cert = "good"
                 /\ p = "server" /\ e.cfg.verify = "none" => e.peer_cert = None
                 /\ e.peer_cert # None => e.peer_cert = ep[Other(p)].cfg.cert
  <2> DEFINE e == ep[p]
             o == ep[Other(p)]
  <2>1. e.mode = p /\ EndpointInv(e, o) /\ e.st = "completed"
    BY <1>1 DEF Inv, Completed
  <2> HIDE DEF e, o
  <2>2. Alive(e) /\ Living(e, o)
    BY <2>1 DEF EndpointInv, Typed
  <2>3. Active(e) = "APPLICATION_DATA"
    BY <2>1, <2>2 DEF Living, Placed
  <2>4. CASE p = "client"
    <3>1. /\ e.peer_cert = o.cfg.cert /\ e.peer_cert # None /\ e.peer_proved
          /\ e.cfg.verify # "none" => e.peer_cert = "good"
      BY <2>1, <2>2, <2>3, <2>4 DEF Living, ServerSeen, AfterServerCertificate, AfterServerVerify,
         AfterServerFinished
    <3> QED BY <2>4, <3>1, Zenon DEF e, o
  <2>5. CASE p = "server"
    <3>1. /\ e.peer_cert # None => /\ e.peer_cert = o.cfg.cert /\ e.peer_proved
                                   /\ e.cfg.verify # "none"
          /\ e.cfg.verify = "require" => e.peer_cert = "good"
      BY <2>1, <2>2, <2>3, <2>5 DEF Living, ClientSeen, AfterServerFinished
    <3> QED BY <2>5, <3>1, Zenon DEF e, o
  <2> QED BY <2>4, <2>5 DEF Peer
<1>2. Inv => PeerAuthenticated
  BY <1>1, Zenon DEF PeerAuthenticated
<1> QED BY <1>2, Invariance, PTL

(* Two sequences that agree up to n, cut at n and at n or n + 1. *)
LEMMA CutsAgree ==
    ASSUME NEW S \in Seq(Names), NEW T \in Seq(Names), NEW n \in Nat, NEW k \in {n, n + 1},
           n <= Len(S), k <= Len(T), \A i \in 1 .. n : S[i] = T[i],
           SubSeq(S, 1, n) # SubSeq(T, 1, k)
    PROVE  /\ Len(SubSeq(T, 1, k)) = Len(SubSeq(S, 1, n)) + 1
           /\ IsPrefix(SubSeq(S, 1, n), SubSeq(T, 1, k))
<1>1. PICK a, b : a = SubSeq(S, 1, n) /\ b = SubSeq(T, 1, k)
  OBVIOUS
<1>2. a \in Seq(Names) /\ Len(a) = n /\ \A i \in 1 .. n : a[i] = S[i]
  BY <1>1
<1>3. b \in Seq(Names) /\ Len(b) = k /\ \A i \in 1 .. k : b[i] = T[i]
  BY <1>1
<1>4. k = n + 1
  <2>1. CASE k = n
    <3>1. \A i \in 1 .. n : a[i] = b[i]
      BY <1>2, <1>3, <2>1
    <3>2. a = b
      BY <1>2, <1>3, <2>1, <3>1
    <3> QED BY <1>1, <3>2
  <2> QED BY <2>1
<1>5. SubSeq(a, 1, n) = SubSeq(b, 1, n)
  <2>1. PICK x, y : x = SubSeq(a, 1, n) /\ y = SubSeq(b, 1, n)
    OBVIOUS
  <2>2. x \in Seq(Names) /\ Len(x) = n /\ \A i \in 1 .. n : x[i] = a[i]
    BY <1>2, <2>1
  <2>3. y \in Seq(Names) /\ Len(y) = n /\ \A i \in 1 .. n : y[i] = b[i]
    BY <1>3, <1>4, <2>1
  <2>4. ASSUME NEW i \in 1 .. n PROVE x[i] = y[i]
    <3>1. i \in 1 .. k
      BY <1>4
    <3>2. x[i] = S[i] /\ y[i] = T[i]
      BY <1>2, <1>3, <2>2, <2>3, <3>1
    <3> QED BY <3>2
  <2> QED BY <2>1, <2>2, <2>3, <2>4
<1> QED BY <1>1, <1>2, <1>3, <1>4, <1>5 DEF IsPrefix

(* The place of an endpoint that is alive is within its row. *)
LEMMA WithinRow ==
    ASSUME NEW e, NEW o, Typed(e), Living(e, o)
    PROVE  e.n \in Nat /\ handshakes(e.hs) \in Seq(Names) /\ e.n < Len(handshakes(e.hs))
<1>1. e.n \in Nat /\ e.hs \in Rows /\ Active(e) \in Names
  BY PositionTyped, Entries DEF Living, Placed
<1>2. handshakes(e.hs) \in Seq(Names)
  BY <1>1, Follows
<1>3. "INVALID" \notin Names
  BY DEF Names
<1> QED BY <1>1, <1>2, <1>3 DEF Active, tls13_handshake_active_state

(* PastPreserved: when a handler sets flags of hs_type, and so moves to      *)
(* another row of the handshakes table, the messages before the position of  *)
(* the endpoint are those it has exchanged; a step adds at most one.         *)
THEOREM PastIsPreserved == Spec => PastPreserved
<1>1. ASSUME Inv, SteadyStep, Inv', NEW p \in Peer, Succeeded(ep'[p]),
             Path(ep[p].hs, ep[p].n) # Path(ep'[p].hs, ep'[p].n)
      PROVE  /\ Len(Path(ep'[p].hs, ep'[p].n)) = Len(Path(ep[p].hs, ep[p].n)) + 1
             /\ IsPrefix(Path(ep[p].hs, ep[p].n), Path(ep'[p].hs, ep'[p].n))
  <2> DEFINE e == ep[p]
             f == ep'[p]
             o == ep[Other(p)]
             r == ep'[Other(p)]
  <2>1. Steady(e, f) /\ EndpointInv(e, o) /\ EndpointInv(f, r) /\ Succeeded(f)
    BY <1>1 DEF Inv, SteadyStep
  <2>2. Path(e.hs, e.n) # Path(f.hs, f.n)
    BY <1>1
  <2> HIDE DEF e, f, o, r
  <2>3. Alive(f) /\ Alive(e) /\ Moves(e, f)
    BY <2>1, AliveOrNot DEF Steady
  <2>4. Typed(e) /\ Living(e, o) /\ Typed(f) /\ Living(f, r)
    BY <2>1, <2>3 DEF EndpointInv
  <2> DEFINE S == handshakes(e.hs)
             T == handshakes(f.hs)
  <2>5. /\ e.n \in Nat /\ S \in Seq(Names) /\ e.n < Len(S)
        /\ f.n \in Nat /\ T \in Seq(Names) /\ f.n < Len(T)
    BY <2>4, WithinRow
  <2>6. f.n \in {e.n, e.n + 1} /\ Agrees(e.hs, f.hs, e.n)
    BY <2>3, Zenon DEF Moves
  <2>7. e.n <= Len(S) /\ f.n <= Len(T) /\ e.n <= f.n /\ Len(S) \in Nat /\ Len(T) \in Nat
    BY <2>5, <2>6
  <2>8. ASSUME NEW i \in 1 .. e.n PROVE S[i] = T[i]
    <3>1. i - 1 \in 0 .. e.n - 1 /\ i - 1 < Len(S) /\ i - 1 < Len(T) /\ (i - 1) + 1 = i
      <4> HIDE DEF S, T
      <4> QED BY <2>5, <2>7
    <3>2. tls13_handshake_active_state(f.hs, i - 1) = tls13_handshake_active_state(e.hs, i - 1)
      BY <2>6, <3>1 DEF Agrees
    <3>3. tls13_handshake_active_state(e.hs, i - 1) = S[i]
      BY <3>1, Zenon DEF tls13_handshake_active_state
    <3>4. tls13_handshake_active_state(f.hs, i - 1) = T[i]
      BY <3>1, Zenon DEF tls13_handshake_active_state
    <3> QED BY <3>2, <3>3, <3>4, Zenon
  <2>9. SubSeq(S, 1, e.n) # SubSeq(T, 1, f.n)
    BY <2>2, Zenon DEF Path
  <2>10. /\ Len(SubSeq(T, 1, f.n)) = Len(SubSeq(S, 1, e.n)) + 1
         /\ IsPrefix(SubSeq(S, 1, e.n), SubSeq(T, 1, f.n))
    <3> HIDE DEF S, T
    <3> QED BY <2>5, <2>6, <2>7, <2>8, <2>9, CutsAgree
  <2> QED BY <2>10, Zenon DEF Path, e, f
<1> DEFINE A == \A p \in Peer : Succeeded(ep'[p]) =>
                   LET old == Path(ep[p].hs, ep[p].n)  new == Path(ep[p].hs, ep[p].n)'
                   IN  old # new => Len(new) = Len(old) + 1 /\ IsPrefix(old, new)
<1>2. Inv /\ [Next]_vars => [A]_vars
  <2> SUFFICES ASSUME Inv, [Next]_vars, NEW p \in Peer, Succeeded(ep'[p]),
                      Path(ep[p].hs, ep[p].n) # Path(ep'[p].hs, ep'[p].n)
               PROVE  /\ Len(Path(ep'[p].hs, ep'[p].n)) = Len(Path(ep[p].hs, ep[p].n)) + 1
                      /\ IsPrefix(Path(ep[p].hs, ep[p].n), Path(ep'[p].hs, ep'[p].n))
    BY Zenon
  <2>1. Inv' /\ SteadyStep
    BY Steps
  <2> QED BY <1>1, <2>1
<1>3. Spec => [][A]_vars
  BY <1>2, Invariance, PTL DEF Spec
<1> QED BY <1>3, Zenon DEF PastPreserved
=============================================================================
