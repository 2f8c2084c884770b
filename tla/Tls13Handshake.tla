--------------------------- MODULE Tls13Handshake ---------------------------
(***************************************************************************)
(* The TLS 1.3 handshake of libssl between a LibreSSL client and a         *)
(* LibreSSL server: tls13_handshake.c, tls13_client.c, tls13_server.c,     *)
(* ssl_transcript.c and the parts of tls13_lib.c, tls13_record_layer.c,    *)
(* tls13_legacy.c and ssl_tlsext.c that they call while the handshake      *)
(* runs.                                                                   *)
(*                                                                         *)
(* ep[p] is the struct tls13_ctx of endpoint p with what it reaches        *)
(* through ctx->hs, ctx->rl and ctx->ssl.  A handler of the code is an     *)
(* operator from an endpoint to an endpoint: it reports failure by         *)
(* st = "failed" (return 0 with ctx->alert == 0) or by a pending alert.    *)
(*                                                                         *)
(* Cryptography is symbolic.  A hash is the sequence of what was hashed, a *)
(* key is the record of everything it is derived from, a MAC or signature  *)
(* names its key and the hash it covers; two of them are equal exactly     *)
(* when they were computed from the same inputs.                           *)
(***************************************************************************)
EXTENDS Tls13Stages, FiniteSets, SequencesExt

CONSTANTS
    None,        \* a NULL pointer, no value
    Configs,     \* the pairs of configurations the two applications may use
    Exposed,     \* bound: the pairs one of whose hellos may be damaged
    DamageBound  \* bound: how many of their records are damaged

(* The alerts a handler may ask for. *)
Alert ==
    {"unexpected_message", "illegal_parameter", "decode_error", "decrypt_error", "internal_error",
     "handshake_failure", "bad_certificate", "certificate_required"}

ASSUME NoneAssumption == None \notin Alert
ASSUME ConfigAssumption == \A c \in Configs, p \in Peer : c[p].cert \in {None, "good", "bad"}
ASSUME DamageAssumption == DamageBound \in Nat

VARIABLES
    ep,      \* the two endpoints
    wire,    \* wire[p]: the records that have reached the host of p, unread
    closed,  \* the endpoints whose application has closed the connection
    damage   \* the number of records damaged so far

vars == <<ep, wire, closed, damage>>

-----------------------------------------------------------------------------
(* Endpoints and their failure paths. *)

Status == {"run", "completed", "legacy", "failed"}

Abort(e) == [e EXCEPT !.st = "failed"]

AbortWith(e, alert) == [e EXCEPT !.alert = alert]

Succeeded(e) == e.st = "run" /\ e.alert = None

tls_key_share_new(group, pub, peer) == [group |-> group, pub |-> pub, peer |-> peer]

(* A key pair is named by its owner and a number: every generation is fresh. *)
tls_key_share_generate(mode, nr) == <<mode, nr>>

(* tls13_ctx_new followed by tls13_client_init or tls13_server_init.  The   *)
(* application's settings are in cfg; cfg.share is the group of the first   *)
(* key share, for this client always the head of cfg.groups.                *)
(* middlebox_compat is 1 outside QUIC, so the client has a legacy session   *)
(* id exactly when it offers TLS 1.3.                                       *)
NewEndpoint(p, c) ==
    [mode |-> p, cfg |-> c, st |-> "run", hs |-> {}, n |-> 0, alert |-> None,
     hs_msg |-> None, need_flush |-> FALSE,
     send_dummy_ccs |-> FALSE, send_dummy_ccs_after |-> FALSE,
     ccs_allowed |-> FALSE, ccs_seen |-> 0, ccs_sent |-> FALSE,
     wrec |-> None, out |-> << >>, read |-> None, write |-> None,
     transcript |-> << >>, frozen |-> FALSE,
     handshake_hash |-> None, transcript_hash |-> None, clienthello_hash |-> None,
     hrr |-> FALSE, server_group |-> None, cipher |-> None,
     key_share |-> IF p = "client"
                   THEN tls_key_share_new(c.share, tls_key_share_generate(p, 1), None)
                   ELSE None,
     sid |-> p = "client" /\ c.max13,
     client_groups |-> << >>, shared |-> None,
     handshake_traffic |-> None, application_traffic |-> None,
     peer_cert |-> None, peer_proved |-> FALSE]

Active(e) == tls13_handshake_active_state(e.hs, e.n)

-----------------------------------------------------------------------------
(* The transcript (ssl_transcript.c).  The hash covers hello and            *)
(* certificate messages in full; of the others it needs only the type, as   *)
(* their content is a function of what precedes them.                       *)

Digest(m) ==
    IF m.type \in {"client_hello", "server_hello", "certificate", "message_hash"}
    THEN m ELSE [type |-> m.type]

(* Mutant: the ClientHello is not recorded. *)
TranscriptWithoutClientHello(e, m) ==
    IF m.type = "client_hello" THEN e
    ELSE [e EXCEPT !.handshake_hash = IF @ = None THEN None ELSE Append(@, Digest(m)),
                   !.transcript = IF @ = None \/ e.frozen THEN @ ELSE Append(@, Digest(m))]

tls1_transcript_record(e, m) ==
    [e EXCEPT !.handshake_hash = IF @ = None THEN None ELSE Append(@, Digest(m)),
              !.transcript = IF @ = None \/ e.frozen THEN @ ELSE Append(@, Digest(m))]

tls1_transcript_hash_init(e) == [e EXCEPT !.handshake_hash = e.transcript]

(* Mutant: the transcript stays frozen. *)
TranscriptResetFrozen(e) == [e EXCEPT !.transcript = << >>]

tls1_transcript_reset(e) == [e EXCEPT !.transcript = << >>, !.frozen = FALSE]

(* Copy the current hash to hs->tls13.transcript_hash; there may be none.   *)
tls1_transcript_hash_preserve(e) ==
    IF e.handshake_hash = None THEN Abort(e)
    ELSE [e EXCEPT !.transcript_hash = e.handshake_hash]

(* Replace the first ClientHello by a message_hash message (tls13_lib.c).   *)
tls13_synthetic_handshake_message(e) ==
    LET hashed == tls1_transcript_hash_init(e)
    IN  tls1_transcript_record(tls1_transcript_reset(hashed),
            [type |-> "message_hash", hash |-> hashed.handshake_hash])

-----------------------------------------------------------------------------
(* Keys.  tls13_client_engage_record_protection and its server twin differ  *)
(* in the direction of the keys and in the flags the server sets.           *)

TrafficKeys(e, level, context) ==
    [p \in Peer |-> [from |-> p, level |-> level, shared |-> e.shared,
                     cipher |-> e.cipher, context |-> context]]

tls_key_share_derive(e) ==
    LET own == e.key_share.pub  peer == e.key_share.peer
    IN  [group |-> e.key_share.group,
         publics |-> IF e.mode = "client" THEN <<own, peer>> ELSE <<peer, own>>]

EngageRecordProtection(e) ==
    LET hashed == [tls1_transcript_hash_init(e) EXCEPT
                        !.transcript = None, !.shared = tls_key_share_derive(e)]
        keys   == TrafficKeys(hashed, "handshake", hashed.handshake_hash)
    IN  [hashed EXCEPT !.handshake_traffic = keys,
                       !.read = keys[Other(e.mode)], !.write = keys[e.mode]]

(* Mutant: the handshake is taken to be one without a retry. *)
ClientEngageWithoutRetry(e) ==
    [EngageRecordProtection(e) EXCEPT !.hs = @ \cup {"WITHOUT_HRR"}]

tls13_client_engage_record_protection(e) == EngageRecordProtection(e)

tls13_server_engage_record_protection(e) ==
    [EngageRecordProtection(e) EXCEPT
        !.hs = @ \cup {"NEGOTIATED"}
                 \cup IF e.cfg.verify = "none" THEN {"WITHOUT_CR"} ELSE {}]

tls13_derive_application_secrets(e, context) ==
    [e EXCEPT !.application_traffic = TrafficKeys(e, "application", context)]

Finished(e, sender, hash) ==
    [type |-> "finished", mac |-> [key |-> e.handshake_traffic[sender], over |-> hash]]

CertificateVerify(signer, hash) ==
    [type |-> "certificate_verify", sig |-> [by |-> signer, over |-> hash]]

-----------------------------------------------------------------------------
(* Client to server: building and receiving the ClientHello. *)

(* sid stands for a 32 byte legacy session id.                              *)
tls13_client_hello_build(e) ==
    [type |-> "client_hello", v13 |-> e.cfg.max13, sid |-> e.sid,
     groups |-> e.cfg.groups, suites |-> e.cfg.suites,
     share |-> IF e.cfg.max13 THEN e.key_share.group ELSE None,
     pub |-> IF e.cfg.max13 THEN e.key_share.pub ELSE None]

tls13_client_hello_send(e) == [e EXCEPT !.hs_msg = tls13_client_hello_build(e)]

tls13_client_hello_sent(e) ==
    [e EXCEPT !.frozen = TRUE, !.ccs_allowed = TRUE, !.send_dummy_ccs = TRUE]

(* The first element of preferences that the other list has, or None. *)
FirstCommon(preferences, others) ==
    LET common == SelectSeq(preferences, LAMBDA x : x \in ToSet(others))
    IN  IF common = << >> THEN None ELSE Head(common)

(* Both follow SSL_OP_CIPHER_SERVER_PREFERENCE, cfg.server_pref here. *)
ssl3_choose_cipher(e, suites) ==
    IF e.cfg.server_pref THEN FirstCommon(e.cfg.suites, suites)
                         ELSE FirstCommon(suites, e.cfg.suites)

tls1_get_supported_group(e) ==
    IF e.cfg.server_pref THEN FirstCommon(e.cfg.groups, e.client_groups)
                         ELSE FirstCommon(e.client_groups, e.cfg.groups)

(* After a HelloRetryRequest the share must be for the group asked for.     *)
(* Otherwise the share is used if it is for the group the client prefers,   *)
(* whatever SSL_OP_CIPHER_SERVER_PREFERENCE says.                           *)
tlsext_keyshare_server_process(e, m) ==
    LET chosen == [e EXCEPT !.key_share = tls_key_share_new(m.share, None, m.pub)]
    IN  CASE e.hrr /\ m.share # e.server_group -> AbortWith(e, "illegal_parameter")
          [] e.hrr /\ m.share = e.server_group /\ e.key_share # None ->
                AbortWith(e, "internal_error")
          [] e.hrr /\ m.share = e.server_group /\ e.key_share = None -> chosen
          [] ~e.hrr /\ m.share \notin ToSet(m.groups) -> AbortWith(e, "illegal_parameter")
          [] ~e.hrr /\ m.share \in ToSet(m.groups) ->
                IF m.share = FirstCommon(m.groups, e.cfg.groups) THEN chosen ELSE e

(* What tls13_clienthello_hash_* digest: everything but the key share.      *)
HelloHash(m) == [sid |-> m.sid, groups |-> m.groups, suites |-> m.suites]

(* The server random of a downgraded legacy ServerHello carries the magic   *)
(* of RFC 8446 section 4.1.3 when we could have done TLS 1.3 (ssl_srvr.c).  *)
LegacyServerHello(e) ==
    [type |-> "server_hello", v13 |-> FALSE,
     rand |-> IF e.cfg.max13 THEN "downgrade" ELSE "fresh",
     sid |-> FALSE, cipher |-> "legacy", group |-> None, pub |-> None]

(* The legacy stack takes the connection over and answers the ClientHello.  *)
tls13_use_legacy_server(e) ==
    [e EXCEPT !.st = "legacy", !.need_flush = TRUE,
              !.out = Append(@, [ct |-> "handshake", key |-> None, msg |-> LegacyServerHello(e)])]

tls13_use_legacy_client(e) == [e EXCEPT !.st = "legacy"]

tls13_client_hello_process(e, m) ==
    LET groups == IF e.hrr THEN e.client_groups ELSE m.groups
        parsed == tlsext_keyshare_server_process([e EXCEPT !.client_groups = groups], m)
        cipher == ssl3_choose_cipher(e, m.suites)
    IN  IF ~m.v13 \/ ~e.cfg.max13 THEN tls13_use_legacy_server(e)
        ELSE CASE ~Succeeded(parsed) -> parsed
               [] Succeeded(parsed) /\ e.hrr /\ HelloHash(m) # e.clienthello_hash ->
                    AbortWith(parsed, "illegal_parameter")
               [] Succeeded(parsed) /\ (e.hrr => HelloHash(m) = e.clienthello_hash) ->
                    IF cipher = None THEN AbortWith(parsed, "handshake_failure")
                    ELSE [parsed EXCEPT !.cipher = cipher, !.sid = m.sid,
                              !.clienthello_hash = IF e.hrr THEN None ELSE HelloHash(m)]

(* Mutant: the flag NEGOTIATED is forgotten. *)
ClientHelloRecvNotNegotiated(e, m) ==
    LET done == tls13_client_hello_process(e, m)
    IN  IF ~Succeeded(done) THEN done
        ELSE [done EXCEPT !.ccs_allowed = TRUE,
                  !.hs = @ \cup IF done.key_share # None THEN {"WITHOUT_HRR"} ELSE {}]

tls13_client_hello_recv(e, m) ==
    LET done == tls13_client_hello_process(e, m)
    IN  IF ~Succeeded(done) THEN done
        ELSE [done EXCEPT !.ccs_allowed = TRUE,
                  !.hs = @ \cup IF done.key_share # None
                                THEN {"NEGOTIATED", "WITHOUT_HRR"} ELSE {}]

(* A second ClientHello that falls back to the legacy stack is an error;    *)
(* the legacy stack itself never runs.                                      *)
tls13_client_hello_retry_recv(e, m) ==
    LET done == tls13_client_hello_process(e, m)
    IN  IF done.st = "legacy" THEN Abort(e)
        ELSE IF ~Succeeded(done) THEN done ELSE [done EXCEPT !.hrr = FALSE]

-----------------------------------------------------------------------------
(* Server to client: HelloRetryRequest and ServerHello. *)

tls13_server_hello_build(e, rand, group, pub) ==
    [type |-> "server_hello", v13 |-> TRUE, rand |-> rand, sid |-> e.sid,
     cipher |-> e.cipher, group |-> group, pub |-> pub]

tls13_server_hello_retry_request_send(e) ==
    LET synthetic == tls13_synthetic_handshake_message([e EXCEPT !.hrr = TRUE])
        group     == tls1_get_supported_group(e)
    IN  IF e.key_share # None \/ group = None THEN Abort(synthetic)
        ELSE [synthetic EXCEPT !.server_group = group,
                  !.hs_msg = tls13_server_hello_build(e, "hrr", group, None)]

tls13_server_hello_retry_request_sent(e) == [e EXCEPT !.send_dummy_ccs_after = e.sid]

tls13_server_hello_send(e) ==
    LET pub == tls_key_share_generate("server", 1)
    IN  IF e.key_share = None THEN Abort(e)
        ELSE [e EXCEPT !.key_share.pub = pub, !.server_group = None,
                  !.hs_msg = tls13_server_hello_build(e, "fresh", e.key_share.group, pub)]

(* Mutant: a ChangeCipherSpec also when there was one after the retry. *)
ServerHelloSentSecondCcs(e) ==
    tls13_server_engage_record_protection([e EXCEPT !.send_dummy_ccs_after = e.sid])

tls13_server_hello_sent(e) ==
    tls13_server_engage_record_protection(
        [e EXCEPT !.send_dummy_ccs_after = "WITHOUT_HRR" \in e.hs /\ e.sid])

tls13_server_hello_is_retry(m) == m.rand = "hrr"

tlsext_keyshare_client_process(e, m) ==
    CASE m.pub = None -> IF tls13_server_hello_is_retry(m)
                         THEN [e EXCEPT !.server_group = m.group]
                         ELSE AbortWith(e, "decode_error")
      [] m.pub # None -> IF e.key_share.group = m.group
                         THEN [e EXCEPT !.key_share.peer = m.pub]
                         ELSE AbortWith(e, "internal_error")

tls13_server_hello_process(e, m) ==
    LET retry  == tls13_server_hello_is_retry(m)
        parsed == tlsext_keyshare_client_process([e EXCEPT !.hrr = @ \/ retry], m)
    IN  IF ~m.v13
        THEN IF e.cfg.max13 /\ m.rand = "downgrade"
             THEN AbortWith(e, "illegal_parameter")
             ELSE [e EXCEPT !.st = "legacy"]
        ELSE IF ~Succeeded(parsed) THEN parsed
        ELSE IF \/ m.sid # e.sid
                \/ m.cipher \notin ToSet(e.cfg.suites)
                \/ "WITHOUT_HRR" \notin e.hs /\ ~parsed.hrr /\ e.cipher # m.cipher
             THEN AbortWith(parsed, "illegal_parameter")
             ELSE [parsed EXCEPT !.cipher = m.cipher]

tls13_server_hello_recv(e, m) ==
    LET done     == tls13_server_hello_process(e, m)
        recorded == IF "WITHOUT_HRR" \in e.hs
                    THEN tls1_transcript_record([done EXCEPT !.frozen = FALSE], m)
                    ELSE done
    IN  CASE done.alert # None -> done
          [] done.alert = None /\ done.st = "legacy" ->
                IF "WITHOUT_HRR" \in e.hs THEN tls13_use_legacy_client(recorded)
                                          ELSE Abort(recorded)
          [] Succeeded(done) /\ done.hrr -> AbortWith(recorded, "illegal_parameter")
          [] Succeeded(done) /\ ~done.hrr ->
                [tls13_client_engage_record_protection(recorded) EXCEPT
                    !.hs = @ \cup {"NEGOTIATED"}]

tls13_server_hello_retry_request_recv(e, m) ==
    LET done == tls13_server_hello_process(e, m)
    IN  IF ~tls13_server_hello_is_retry(m)
        THEN tls13_server_hello_recv([e EXCEPT !.hs = @ \cup {"WITHOUT_HRR"}], m)
        ELSE CASE done.alert # None -> done
               [] done.alert = None /\ done.st = "legacy" -> tls13_use_legacy_client(done)
               [] Succeeded(done) ->
                    [tls1_transcript_record(tls13_synthetic_handshake_message(done), m)
                        EXCEPT !.hrr = FALSE]

tls13_client_hello_retry_send(e) ==
    LET switched == [e EXCEPT !.key_share =
            tls_key_share_new(e.server_group, tls_key_share_generate("client", 2), None)]
    IN  IF e.server_group \notin ToSet(e.cfg.groups) \/ e.server_group = e.key_share.group
        THEN Abort(e)
        ELSE [switched EXCEPT !.hs_msg = tls13_client_hello_build(switched)]
-----------------------------------------------------------------------------
(* Authentication: certificates, CertificateVerify and Finished. *)

(* A configured certificate either passes the peer's chain verification     *)
(* ("good") or does not ("bad"); "empty" is an empty certificate list.      *)
Certificate(c) == [type |-> "certificate", cert |-> c]

tls13_server_encrypted_extensions_send(e) ==
    [e EXCEPT !.hs_msg = [type |-> "encrypted_extensions"]]

tls13_server_certificate_request_send(e) ==
    [e EXCEPT !.hs_msg = [type |-> "certificate_request"]]

tls13_server_certificate_send(e) ==
    IF e.cfg.cert = None THEN AbortWith(e, "handshake_failure")
    ELSE [e EXCEPT !.hs_msg = Certificate(e.cfg.cert)]

tls13_server_certificate_verify_send(e) ==
    [e EXCEPT !.hs_msg = CertificateVerify("server", e.transcript_hash)]

tls13_server_finished_send(e) ==
    [e EXCEPT !.hs_msg = Finished(e, "server", e.handshake_hash)]

(* transcript_hash now covers our Finished message: it was preserved after  *)
(* the message was recorded.                                                *)
tls13_server_finished_sent(e) ==
    LET derived == tls13_derive_application_secrets(e, e.transcript_hash)
    IN  [derived EXCEPT !.write = derived.application_traffic["server"]]

tls13_server_certificate_recv(e, m) ==
    IF m.cert = "bad" /\ e.cfg.verify # "none" THEN AbortWith(e, "bad_certificate")
    ELSE [e EXCEPT !.peer_cert = m.cert]

(* The server may leave the CertificateRequest out, in which case we hold   *)
(* its Certificate already and switch to the handshake without a request.   *)
tls13_server_certificate_request_recv(e, m) ==
    IF m.type = "certificate"
    THEN tls13_server_certificate_recv([e EXCEPT !.hs = @ \cup {"WITHOUT_CR"}], m)
    ELSE e

(* Both directions: a signature over the preserved hash by the peer's key.  *)
CertificateVerifyRecv(e, m) ==
    CASE e.peer_cert = None -> AbortWith(e, "decode_error")
      [] e.peer_cert # None ->
            IF m = CertificateVerify(Other(e.mode), e.transcript_hash)
            THEN [e EXCEPT !.peer_proved = TRUE]
            ELSE AbortWith(e, "decrypt_error")

tls13_server_certificate_verify_recv(e, m) == CertificateVerifyRecv(e, m)

(* Mutant: the application secrets do not cover the server's Finished. *)
ServerFinishedRecvOldHash(e, m) ==
    LET derived == tls13_derive_application_secrets(e, e.transcript_hash)
    IN  IF m # Finished(e, "server", e.transcript_hash) THEN AbortWith(e, "decrypt_error")
        ELSE [derived EXCEPT !.read = derived.application_traffic["server"],
                             !.ccs_allowed = FALSE]

tls13_server_finished_recv(e, m) ==
    LET derived == tls13_derive_application_secrets(e, e.handshake_hash)
    IN  IF m # Finished(e, "server", e.transcript_hash) THEN AbortWith(e, "decrypt_error")
        ELSE [derived EXCEPT !.read = derived.application_traffic["server"],
                             !.ccs_allowed = FALSE]

tls13_client_certificate_send(e) ==
    IF e.cfg.cert = None THEN [e EXCEPT !.hs_msg = Certificate("empty")]
    ELSE [e EXCEPT !.hs_msg = Certificate(e.cfg.cert), !.hs = @ \cup {"WITH_CCV"}]

tls13_client_certificate_verify_send(e) ==
    [e EXCEPT !.hs_msg = CertificateVerify("client", e.transcript_hash)]

tls13_client_finished_send(e) ==
    [e EXCEPT !.hs_msg = Finished(e, "client", e.handshake_hash)]

tls13_client_finished_sent(e) == [e EXCEPT !.write = e.application_traffic["client"]]

(* Mutant: SSL_VERIFY_FAIL_IF_NO_PEER_CERT is ignored. *)
ClientCertificateRecvOptional(e, m) ==
    CASE m.cert = "empty" -> e
      [] m.cert = "bad"   -> AbortWith(e, "bad_certificate")
      [] m.cert = "good"  -> [e EXCEPT !.peer_cert = m.cert, !.hs = @ \cup {"WITH_CCV"}]

tls13_client_certificate_recv(e, m) ==
    CASE m.cert = "empty" -> IF e.cfg.verify = "require"
                             THEN AbortWith(e, "certificate_required") ELSE e
      [] m.cert = "bad"   -> AbortWith(e, "bad_certificate")
      [] m.cert = "good"  -> [e EXCEPT !.peer_cert = m.cert, !.hs = @ \cup {"WITH_CCV"}]

tls13_client_certificate_verify_recv(e, m) == CertificateVerifyRecv(e, m)

tls13_client_finished_recv(e, m) ==
    IF m # Finished(e, "client", e.transcript_hash) THEN AbortWith(e, "decrypt_error")
    ELSE [e EXCEPT !.read = e.application_traffic["client"], !.ccs_allowed = FALSE]

-----------------------------------------------------------------------------
(* The state machine's calls of the handlers (tls13_handshake.c). *)

SendHandler(e, mt) ==
    CASE mt = "CLIENT_HELLO"                -> tls13_client_hello_send(e)
      [] mt = "CLIENT_HELLO_RETRY"          -> tls13_client_hello_retry_send(e)
      [] mt = "CLIENT_CERTIFICATE"          -> tls13_client_certificate_send(e)
      [] mt = "CLIENT_CERTIFICATE_VERIFY"   -> tls13_client_certificate_verify_send(e)
      [] mt = "CLIENT_FINISHED"             -> tls13_client_finished_send(e)
      [] mt = "SERVER_HELLO"                -> tls13_server_hello_send(e)
      [] mt = "SERVER_HELLO_RETRY_REQUEST"  -> tls13_server_hello_retry_request_send(e)
      [] mt = "SERVER_ENCRYPTED_EXTENSIONS" -> tls13_server_encrypted_extensions_send(e)
      [] mt = "SERVER_CERTIFICATE"          -> tls13_server_certificate_send(e)
      [] mt = "SERVER_CERTIFICATE_REQUEST"  -> tls13_server_certificate_request_send(e)
      [] mt = "SERVER_CERTIFICATE_VERIFY"   -> tls13_server_certificate_verify_send(e)
      [] mt = "SERVER_FINISHED"             -> tls13_server_finished_send(e)

SentHandler(e, mt) ==
    CASE mt = "CLIENT_HELLO"               -> tls13_client_hello_sent(e)
      [] mt = "CLIENT_FINISHED"            -> tls13_client_finished_sent(e)
      [] mt = "SERVER_HELLO"               -> tls13_server_hello_sent(e)
      [] mt = "SERVER_HELLO_RETRY_REQUEST" -> tls13_server_hello_retry_request_sent(e)
      [] mt = "SERVER_FINISHED"            -> tls13_server_finished_sent(e)
      [] OTHER -> e

RecvHandler(e, mt, m) ==
    CASE mt = "CLIENT_HELLO"                -> tls13_client_hello_recv(e, m)
      [] mt = "CLIENT_HELLO_RETRY"          -> tls13_client_hello_retry_recv(e, m)
      [] mt = "CLIENT_CERTIFICATE"          -> tls13_client_certificate_recv(e, m)
      [] mt = "CLIENT_CERTIFICATE_VERIFY"   -> tls13_client_certificate_verify_recv(e, m)
      [] mt = "CLIENT_FINISHED"             -> tls13_client_finished_recv(e, m)
      [] mt = "SERVER_HELLO"                -> tls13_server_hello_recv(e, m)
      [] mt = "SERVER_HELLO_RETRY_REQUEST"  -> tls13_server_hello_retry_request_recv(e, m)
      [] mt = "SERVER_ENCRYPTED_EXTENSIONS" -> e
      [] mt = "SERVER_CERTIFICATE"          -> tls13_server_certificate_recv(e, m)
      [] mt = "SERVER_CERTIFICATE_REQUEST"  -> tls13_server_certificate_request_recv(e, m)
      [] mt = "SERVER_CERTIFICATE_VERIFY"   -> tls13_server_certificate_verify_recv(e, m)
      [] mt = "SERVER_FINISHED"             -> tls13_server_finished_recv(e, m)

tls13_handshake_advance_state_machine(e) ==
    IF e.n + 1 >= TLS13_NUM_MESSAGE_TYPES THEN Abort(e) ELSE [e EXCEPT !.n = @ + 1]

(* Mutant: the end of a flight goes unnoticed. *)
EndOfFlightNever(e) == FALSE

(* Whether the message after the one just sent is not ours to send. *)
tls13_handshake_end_of_flight(e) ==
    \/ Active(e) = "INVALID"
    \/ state_machine[Active(e)].sender # e.mode

(* What tls13_handshake_perform does when a send action has succeeded. *)
AfterSend(e) ==
    LET advanced == tls13_handshake_advance_state_machine(e)
    IN  [advanced EXCEPT !.need_flush = tls13_handshake_end_of_flight(advanced)]

-----------------------------------------------------------------------------
(* The record layer, as far as the handshake sees it.  A message fits one   *)
(* record.  A record that the BIO did not take stays in wrec and is written *)
(* by the next call; the rest of e.out is in a buffering BIO.               *)

tls13_record_layer_seal_record(e, ct, m) ==
    [ct |-> ct, key |-> IF ct = "ccs" THEN None ELSE e.write, msg |-> m]

tls13_record_layer_write_record(e, ct, m) ==
    LET rec == IF e.wrec = None THEN tls13_record_layer_seal_record(e, ct, m) ELSE e.wrec
    IN  IF rec.ct # ct THEN Abort(e)
        ELSE [e EXCEPT !.out = Append(@, rec), !.wrec = None]

(* Two dummy ChangeCipherSpec records in one direction are an error. *)
tls13_send_dummy_ccs(e) ==
    IF e.ccs_sent THEN Abort(e)
    ELSE [tls13_record_layer_write_record(e, "ccs", None) EXCEPT !.ccs_sent = TRUE]

(* If the handshake message does not exist yet, build it. *)
Built(e) == IF e.hs_msg = None THEN SendHandler(e, Active(e)) ELSE e

(* The rest of tls13_handshake_send_action once the message is written: it  *)
(* ends with a dummy ChangeCipherSpec if the sent handler asks for one.     *)
MessageWritten(e, mt) ==
    LET recorded  == tls1_transcript_record(e, e.hs_msg)
        preserved == IF state_machine[mt].send_hash
                     THEN tls1_transcript_hash_preserve(recorded) ELSE recorded
        sent      == SentHandler([preserved EXCEPT !.hs_msg = None], mt)
    IN  IF ~Succeeded(preserved) THEN preserved
        ELSE IF sent.send_dummy_ccs_after THEN [sent EXCEPT !.send_dummy_ccs = TRUE]
        ELSE AfterSend(sent)

tls13_handshake_recv_action(e, m) ==
    LET mt        == Active(e)
        preserved == IF state_machine[mt].recv_hash
                     THEN tls1_transcript_hash_preserve(e) ELSE e
        recorded  == tls1_transcript_record(preserved, m)
        handled   == RecvHandler(recorded, mt, m)
        expected  == \/ m.type = state_machine[mt].type
                     \/ m.type = "certificate" /\ mt = "SERVER_CERTIFICATE_REQUEST"
    IN  CASE ~Succeeded(preserved) -> preserved
          [] Succeeded(preserved) /\ ~expected -> AbortWith(recorded, "unexpected_message")
          [] Succeeded(preserved) /\ expected ->
                IF Succeeded(handled) THEN tls13_handshake_advance_state_machine(handled)
                ELSE handled

(* A record that does not decrypt ends the handshake without an alert. *)
tls13_record_layer_read_record(e, rec) ==
    CASE rec.ct = "ccs" ->
            IF ~e.ccs_allowed \/ e.ccs_seen >= 2 THEN AbortWith(e, "unexpected_message")
            ELSE [e EXCEPT !.ccs_seen = @ + 1]
      [] rec.ct # "ccs" /\ (rec.key = None) # (e.read = None) ->
            AbortWith(e, "unexpected_message")
      [] rec.ct # "ccs" /\ (rec.key = None) = (e.read = None) /\ rec.key # e.read -> Abort(e)
      [] rec.ct = "alert" /\ rec.key = e.read -> Abort(e)
      [] rec.ct = "handshake" /\ rec.key = e.read -> tls13_handshake_recv_action(e, rec.msg)

-----------------------------------------------------------------------------
(* The steps of tls13_handshake_perform, called again by the application    *)
(* whenever it returned for want of input or output.                        *)

Init ==
    /\ \E c \in Configs : ep = [p \in Peer |-> NewEndpoint(p, c[p])]
    /\ wire = [p \in Peer |-> << >>]
    /\ closed = {}
    /\ damage = 0

Running(p) == ep[p].st = "run" /\ ep[p].alert = None /\ ~ep[p].need_flush

Sender(p) ==
    IF Active(ep[p]) = "INVALID" THEN "invalid" ELSE state_machine[Active(ep[p])].sender

Sending(p) == Running(p) /\ Sender(p) = p

Receiving(p) == Running(p) /\ Sender(p) = Other(p)

(* What is in the BIO of p reaches the other host. *)
Deliver(p) ==
    /\ wire' = [wire EXCEPT ![Other(p)] = @ \o ep[p].out]
    /\ UNCHANGED <<closed, damage>>

(* The flush at the end of a flight. *)
Flush(p) ==
    /\ ep[p].need_flush
    /\ ep' = [ep EXCEPT ![p].need_flush = FALSE, ![p].out = << >>]
    /\ Deliver(p)

(* A BIO may pass on what it holds before it is told to. *)
Drain(p) ==
    /\ ep[p].out # << >>
    /\ ~ep[p].need_flush
    /\ p \notin closed
    /\ ep' = [ep EXCEPT ![p].out = << >>]
    /\ Deliver(p)

Update(p, e) ==
    /\ ep' = [ep EXCEPT ![p] = e]
    /\ UNCHANGED <<wire, closed, damage>>

(* handshake_complete is set in the entry of APPLICATION_DATA only. *)
Complete(p) ==
    /\ Running(p)
    /\ Active(ep[p]) = "APPLICATION_DATA"
    /\ Update(p, [ep[p] EXCEPT !.st = "completed"])

(* The dummy ChangeCipherSpec before a message, or the one after a message, *)
(* which also ends the send action.                                         *)
SendDummyCcs(p) ==
    LET done == tls13_send_dummy_ccs(ep[p])
    IN  /\ Sending(p)
        /\ ep[p].send_dummy_ccs
        /\ Update(p, IF ~Succeeded(done) THEN done
                     ELSE IF done.send_dummy_ccs_after
                     THEN AfterSend([done EXCEPT !.send_dummy_ccs = FALSE,
                                                 !.send_dummy_ccs_after = FALSE])
                     ELSE [done EXCEPT !.send_dummy_ccs = FALSE])

SendMessage(p) ==
    LET built   == Built(ep[p])
        written == tls13_record_layer_write_record(built, "handshake", built.hs_msg)
    IN  /\ Sending(p)
        /\ ~ep[p].send_dummy_ccs
        /\ Update(p, IF ~Succeeded(built) THEN built
                     ELSE IF ~Succeeded(written) THEN written
                     ELSE MessageWritten(written, Active(ep[p])))

(* The BIO does not take the record: TLS13_IO_WANT_POLLOUT.  The record and *)
(* the message are kept for the next call.                                  *)
BlockWrite(p) ==
    LET ccs   == ep[p].send_dummy_ccs
        built == IF ccs THEN ep[p] ELSE Built(ep[p])
        rec   == tls13_record_layer_seal_record(built, IF ccs THEN "ccs" ELSE "handshake",
                                                IF ccs THEN None ELSE built.hs_msg)
    IN  /\ Sending(p)
        /\ ep[p].wrec = None
        /\ Succeeded(built)
        /\ Update(p, [built EXCEPT !.wrec = rec])

Recv(p) ==
    /\ Receiving(p)
    /\ wire[p] # << >>
    /\ ep' = [ep EXCEPT ![p] = tls13_record_layer_read_record(@, Head(wire[p]))]
    /\ wire' = [wire EXCEPT ![p] = Tail(@)]
    /\ UNCHANGED <<closed, damage>>

(* A read returns TLS13_IO_EOF, or a write fails, on a closed connection.   *)
ConnectionLost(p) ==
    /\ Other(p) \in closed
    /\ (Receiving(p) /\ wire[p] = << >>) \/ Sending(p)
    /\ Update(p, Abort(ep[p]))

(* tls13_send_alert ends the handshake.  If the BIO does not take the alert *)
(* the application calls again and tls13_record_layer_enqueue_alert fails,  *)
(* as an alert is already pending; this one is then not sent.               *)
SendAlert(p) ==
    LET rec == tls13_record_layer_seal_record(ep[p], "alert", ep[p].alert)
    IN  /\ ep[p].st = "run"
        /\ ep[p].alert # None
        /\ \E taken \in BOOLEAN :
              Update(p, Abort([ep[p] EXCEPT !.out = IF taken THEN Append(@, rec) ELSE @]))

(* The application closes its end when the handshake is over. *)
Close(p) ==
    /\ ep[p].st # "run"
    /\ ~ep[p].need_flush
    /\ p \notin closed
    /\ closed' = closed \cup {p}
    /\ UNCHANGED <<ep, wire, damage>>

Suites == ToSet(ep["client"].cfg.suites) \cup ToSet(ep["server"].cfg.suites)

Noise == <<"noise", 0>>

DamagedHellos(m) ==
    LET common == {[m EXCEPT !.v13 = FALSE], [m EXCEPT !.sid = ~@]}
                    \cup IF m.pub = None THEN {} ELSE {[m EXCEPT !.pub = Noise]}
    IN  common \cup IF m.type = "client_hello"
                    THEN {[m EXCEPT !.suites = Reverse(@)], [m EXCEPT !.groups = Reverse(@)]}
                    ELSE {[m EXCEPT !.cipher = c] : c \in Suites}

(* A bit error in an unprotected hello that the transport did not notice.   *)
DamageHello(p) ==
    /\ damage < DamageBound /\ [q \in Peer |-> ep[q].cfg] \in Exposed
    /\ wire[p] # << >>
    /\ Head(wire[p]).ct = "handshake"
    /\ Head(wire[p]).key = None
    /\ \E m \in DamagedHellos(Head(wire[p]).msg) \ {Head(wire[p]).msg} :
          wire' = [wire EXCEPT ![p] = <<[ct |-> "handshake", key |-> None, msg |-> m]>> \o Tail(@)]
    /\ damage' = damage + 1
    /\ UNCHANGED <<ep, closed>>

Terminated ==
    /\ \A p \in Peer : ep[p].st # "run"
    /\ UNCHANGED vars

Perform(p) ==
    \/ Flush(p) \/ Complete(p) \/ SendDummyCcs(p) \/ SendMessage(p)
    \/ Recv(p) \/ ConnectionLost(p) \/ SendAlert(p)

Next ==
    \/ \E p \in Peer : Perform(p) \/ BlockWrite(p) \/ Drain(p) \/ Close(p) \/ DamageHello(p)
    \/ Terminated

(* The condition under which Perform(p) is enabled, and that under which    *)
(* the application of p has given up on the connection and may close it.    *)
CanPerform(p) ==
    \/ ep[p].need_flush
    \/ ep[p].st = "run" /\ ep[p].alert # None
    \/ Running(p) /\ Active(ep[p]) = "APPLICATION_DATA"
    \/ Sending(p)
    \/ Receiving(p) /\ (wire[p] # << >> \/ Other(p) \in closed)

GivenUp(p) == ep[p].st \in {"failed", "legacy"} /\ ~ep[p].need_flush /\ p \notin closed

(* Weak fairness of Perform(p) and of the Close(p) of an endpoint that has  *)
(* given up, with the enabling conditions written out: the application      *)
(* polls and calls again until the handshake is over, and closes a          *)
(* connection whose handshake failed or went to the legacy stack.           *)
Fairness ==
    \A p \in Peer : /\ []<>~CanPerform(p) \/ []<><<Perform(p)>>_vars
                    /\ []<>~GivenUp(p) \/ []<><<Close(p)>>_vars

Spec == Init /\ [][Next]_vars

FairSpec == Spec /\ Fairness

-----------------------------------------------------------------------------
(* Properties. *)

(* The state keeps its ranges, and tls13_handshake_perform never finds the  *)
(* INVALID entry of the table.                                              *)
TypeOK ==
    /\ \A p \in Peer :
          /\ ep[p].st \in Status
          /\ ep[p].hs \subseteq Flag
          /\ ep[p].n \in 0 .. TLS13_NUM_MESSAGE_TYPES - 1
          /\ ep[p].ccs_seen \in 0 .. 2
          /\ Succeeded(ep[p]) => Active(ep[p]) # "INVALID"
          /\ \A i \in DOMAIN ep[p].out : ep[p].out[i].ct \in {"ccs", "alert", "handshake"}
          /\ \A i \in DOMAIN wire[p] : wire[p][i].ct \in {"ccs", "alert", "handshake"}
    /\ closed \subseteq Peer
    /\ damage \in 0 .. DamageBound

Completed(p) == ep[p].st = "completed"

(* When both endpoints report success they hold the same transcript and     *)
(* the same cipher suite, and each reads with the key the other writes with.*)
Agreement ==
    (\A p \in Peer : Completed(p)) =>
        /\ ep["client"].handshake_hash = ep["server"].handshake_hash
        /\ ep["client"].cipher = ep["server"].cipher
        /\ \A p \in Peer : ep[p].read = ep[Other(p)].write /\ ep[p].read.level = "application"

(* A running endpoint always has the key of the next record it reads, as    *)
(* long as no record was damaged: the order of the engagements of record    *)
(* protection on the two sides matches the order of the records.            *)
KeysInSync ==
    damage = 0 =>
        \A p \in Peer :
            Receiving(p) /\ wire[p] # << >> /\ Head(wire[p]).ct # "ccs"
                => Head(wire[p]).key = ep[p].read

Authenticates(c, verifies) ==
    CASE verifies = "none"    -> TRUE
      [] verifies = "peer"    -> c \in {None, "good"}
      [] verifies = "require" -> c = "good"

(* The two configurations have a TLS 1.3 handshake in common. *)
Compatible ==
    LET c == ep["client"].cfg  s == ep["server"].cfg
    IN  /\ c.max13 /\ s.max13
        /\ ToSet(c.groups) \cap ToSet(s.groups) # {}
        /\ ToSet(c.suites) \cap ToSet(s.suites) # {}
        /\ s.cert # None /\ (c.verify # "none" => s.cert = "good")
        /\ Authenticates(c.cert, s.verify)

(* Compatible endpoints on an undamaged connection never fail, however      *)
(* their writes block and their records are delayed.                        *)
NoSpuriousFailure ==
    Compatible /\ damage = 0 => \A p \in Peer : ep[p].st # "failed" /\ ep[p].alert = None

(* An endpoint that completes has verified its peer as it was told to: the  *)
(* certificate passed and its key signed the transcript.                    *)
PeerAuthenticated ==
    \A p \in Peer : Completed(p) =>
        LET e == ep[p]
        IN  /\ e.peer_cert # None => e.peer_proved
            /\ p = "client" => e.peer_cert # None
            /\ p = "client" /\ e.cfg.verify # "none" => e.peer_cert = "good"
            /\ p = "server" /\ e.cfg.verify = "require" => e.peer_cert = "good"
            /\ p = "server" /\ e.cfg.verify = "none" => e.peer_cert = None
            /\ e.peer_cert # None => e.peer_cert = ep[Other(p)].cfg.cert

(* No endpoint completes a handshake one of whose hellos was damaged, and   *)
(* two endpoints that support TLS 1.3 never both end in the legacy stack.   *)
DamageDetected ==
    /\ damage > 0 => \A p \in Peer : ~Completed(p)
    /\ (\A p \in Peer : ep[p].cfg.max13) => \E p \in Peer : ep[p].st # "legacy"

(* Changing hs_type switches to another row of the handshakes table and     *)
(* never rewrites what has been exchanged: a step of an endpoint leaves the *)
(* messages before its position as they were, or adds the one exchanged.    *)
PastPreserved ==
    [][\A p \in Peer : Succeeded(ep'[p]) =>
          LET old == Path(ep[p].hs, ep[p].n)  new == Path(ep[p].hs, ep[p].n)'
          IN  old # new => Len(new) = Len(old) + 1 /\ IsPrefix(old, new)]_vars

(* Every handshake ends, that of compatible endpoints on an undamaged       *)
(* connection with success on both sides.                                   *)
Termination ==
    <>(\A p \in Peer : ep[p].st # "run" /\ (Compatible /\ damage = 0 => Completed(p)))
=============================================================================
