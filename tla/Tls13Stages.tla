---------------------------- MODULE Tls13Stages ----------------------------
(***************************************************************************)
(* The tables of the TLS 1.3 handshake state machine: the attributes of    *)
(* each handshake message (state_machine in tls13_handshake.c), the order  *)
(* in which a handshake of each type exchanges them (handshakes in the     *)
(* same file) and the position kept in a struct tls13_handshake_stage:     *)
(* hs_type, here the set of the flag bits that are set, and                *)
(* message_number, which counts from 0 as in the code.                     *)
(***************************************************************************)
EXTENDS Naturals, Sequences

Peer == {"client", "server"}

Other(p) == IF p = "client" THEN "server" ELSE "client"

(* The flag bits of hs_type; INITIAL is the empty set. *)
Flag == {"NEGOTIATED", "WITHOUT_HRR", "WITHOUT_CR", "WITH_PSK", "WITH_CCV"}

(* The attributes of one entry of state_machine[].  send_hash and recv_hash *)
(* are send_preserve_transcript_hash and recv_preserve_transcript_hash.     *)
Attributes(type, sender, send_hash, recv_hash) ==
    [type |-> type, sender |-> sender,
     send_hash |-> send_hash, recv_hash |-> recv_hash]

(* CLIENT_END_OF_EARLY_DATA occurs in no handshake and is left out.  The    *)
(* entry of APPLICATION_DATA sets handshake_complete and no sender.         *)
state_machine ==
    [CLIENT_HELLO                |-> Attributes("client_hello", "client", FALSE, FALSE),
     CLIENT_HELLO_RETRY          |-> Attributes("client_hello", "client", FALSE, FALSE),
     CLIENT_CERTIFICATE          |-> Attributes("certificate", "client", TRUE, FALSE),
     CLIENT_CERTIFICATE_VERIFY   |-> Attributes("certificate_verify", "client", FALSE, TRUE),
     CLIENT_FINISHED             |-> Attributes("finished", "client", FALSE, TRUE),
     SERVER_HELLO                |-> Attributes("server_hello", "server", FALSE, FALSE),
     SERVER_HELLO_RETRY_REQUEST  |-> Attributes("server_hello", "server", FALSE, FALSE),
     SERVER_ENCRYPTED_EXTENSIONS |-> Attributes("encrypted_extensions", "server", FALSE, FALSE),
     SERVER_CERTIFICATE          |-> Attributes("certificate", "server", TRUE, FALSE),
     SERVER_CERTIFICATE_REQUEST  |-> Attributes("certificate_request", "server", FALSE, FALSE),
     SERVER_CERTIFICATE_VERIFY   |-> Attributes("certificate_verify", "server", FALSE, TRUE),
     SERVER_FINISHED             |-> Attributes("finished", "server", TRUE, TRUE),
     APPLICATION_DATA            |-> Attributes("application_data", "none", FALSE, FALSE)]

MessageType == DOMAIN state_machine

(* One more than the largest message type. *)
TLS13_NUM_MESSAGE_TYPES == 15

HelloWithRetry ==
    <<"CLIENT_HELLO", "SERVER_HELLO_RETRY_REQUEST", "CLIENT_HELLO_RETRY", "SERVER_HELLO">>

HelloWithoutRetry == <<"CLIENT_HELLO", "SERVER_HELLO">>

ServerFlightWithRequest ==
    <<"SERVER_ENCRYPTED_EXTENSIONS", "SERVER_CERTIFICATE_REQUEST", "SERVER_CERTIFICATE",
      "SERVER_CERTIFICATE_VERIFY", "SERVER_FINISHED">>

ServerFlightWithoutRequest ==
    <<"SERVER_ENCRYPTED_EXTENSIONS", "SERVER_CERTIFICATE",
      "SERVER_CERTIFICATE_VERIFY", "SERVER_FINISHED">>

ServerFlightPsk == <<"SERVER_ENCRYPTED_EXTENSIONS", "SERVER_FINISHED">>

Finish == <<"CLIENT_FINISHED", "APPLICATION_DATA">>

(* handshakes[hs_type]: the nine rows the table initialises.  A row it does *)
(* not initialise holds zeroes, which is INVALID at every position.         *)
handshakes(hs) ==
    LET hello == IF "WITHOUT_HRR" \in hs THEN HelloWithoutRetry ELSE HelloWithRetry
        rest  == hs \ {"WITHOUT_HRR"}
    IN  CASE hs = {} -> HelloWithRetry
          [] rest = {"NEGOTIATED"} ->
                hello \o ServerFlightWithRequest \o <<"CLIENT_CERTIFICATE">> \o Finish
          [] rest = {"NEGOTIATED", "WITHOUT_CR"} ->
                hello \o ServerFlightWithoutRequest \o Finish
          [] rest = {"NEGOTIATED", "WITH_PSK"} -> hello \o ServerFlightPsk \o Finish
          [] rest = {"NEGOTIATED", "WITH_CCV"} ->
                hello \o ServerFlightWithRequest
                      \o <<"CLIENT_CERTIFICATE", "CLIENT_CERTIFICATE_VERIFY">> \o Finish
          [] OTHER -> << >>

(* tls13_handshake_active_state: the message at position n, counted from 0. *)
tls13_handshake_active_state(hs, n) ==
    IF n < Len(handshakes(hs)) THEN handshakes(hs)[n + 1] ELSE "INVALID"

(* The messages that a stage says have been exchanged. *)
Path(hs, n) == SubSeq(handshakes(hs), 1, n)
=============================================================================
