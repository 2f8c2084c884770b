-------------------------- MODULE MCTls12Handshake --------------------------
(* Instances of Tls12Handshake for TLC: configurations that vary how the     *)
(* peers authenticate, those that vary what is resumed, DTLS, and those that *)
(* vary the calls.                                                           *)
EXTENDS Tls12Handshake

Base == [dtls |-> FALSE, cookies |-> FALSE, sigalgs |-> TRUE, kex |-> "ECDHE", verify |-> {}, clientCert |-> FALSE,
         status |-> FALSE, tickets |-> FALSE, offer |-> "none", known |-> FALSE, renew |-> FALSE, noResume |-> FALSE,
         calls |-> {"SSL_read"}]

(* An application that drives its renegotiations with any call. *)
ByAnyCall == {[Base EXCEPT !.calls = {"SSL_read", "SSL_write"}, !.kex = "RSA"]}

(* What SSL_CTX_set_verify of the server says, and the client's certificate. *)
Verify == {{}, {"peer"}, {"peer", "fail"}, {"peer", "once"}}
Authenticate(base) ==
    {base} \union {[base EXCEPT !.verify = v, !.clientCert = c] : v \in Verify \ {{}}, c \in BOOLEAN}

ByAuthentication ==
    UNION {Authenticate([Base EXCEPT !.kex = kex, !.status = kex # "RSA"]) : kex \in {"RSA", "ECDHE", "anon"}}
    \union Authenticate([Base EXCEPT !.sigalgs = FALSE])

(* What the client offers, and whether the server still knows it. *)
Resume(base) ==
    {[base EXCEPT !.offer = "id", !.known = known, !.tickets = tickets] : known \in BOOLEAN, tickets \in BOOLEAN}
    \union
    {[base EXCEPT !.offer = "ticket", !.known = known, !.tickets = TRUE, !.renew = renew] :
        known \in BOOLEAN, renew \in BOOLEAN}
    \union {[base EXCEPT !.tickets = TRUE]}

ByResumption ==
    UNION {Resume([Base EXCEPT !.noResume = noResume, !.verify = {"peer", "fail"}, !.clientCert = TRUE,
                               !.kex = "RSA"]) : noResume \in BOOLEAN}

OverDtls ==
    UNION {Authenticate([Base EXCEPT !.dtls = TRUE, !.cookies = cookies, !.sigalgs = sigalgs, !.tickets = cookies]) :
            cookies \in BOOLEAN, sigalgs \in BOOLEAN}

(* A DTLS client that offers a session, which the server knows or not. *)
OverDtlsResumed ==
    {[Base EXCEPT !.dtls = TRUE, !.cookies = cookies, !.offer = "id", !.known = known] :
        cookies \in BOOLEAN, known \in BOOLEAN}

MCConfigs ==
    ByAuthentication \union ByResumption \union OverDtls \union OverDtlsResumed \union ByAnyCall
=============================================================================
