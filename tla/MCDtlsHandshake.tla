--------------------------- MODULE MCDtlsHandshake ---------------------------
(* The handshakes that are checked.  The server's Certificate does not fit   *)
(* into what the ServerHello leaves of a datagram, but into one of its own;  *)
(* a ticket is always sent in fragments.                                     *)
EXTENDS DtlsHandshake

Types == {"CH", "HVR", "SH", "CERT", "SKE", "CREQ", "SHD", "CKE", "CV", "FIN", "TICKET"}

LongMessages == [t \in Types |-> IF t = "CERT" THEN 3 ELSE IF t = "TICKET" THEN 4 ELSE 1]

Handshake(auth, ticket, cookie, losses, expiries) ==
    [auth |-> auth, ticket |-> ticket, cookie |-> cookie, losses |-> losses, early |-> expiries]

Handshakes ==
    {Handshake(FALSE, FALSE, "listen", 2, 0), Handshake(FALSE, FALSE, "accept", 1, 0),
     Handshake(FALSE, TRUE, "none", 2, 0), Handshake(FALSE, TRUE, "none", 0, 1),
     Handshake(TRUE, FALSE, "none", 1, 0)}
=============================================================================
