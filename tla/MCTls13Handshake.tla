-------------------------- MODULE MCTls13Handshake --------------------------
(* Instances of Tls13Handshake for TLC. *)
EXTENDS Tls13Handshake

ClientConfig == [max13 : BOOLEAN, groups : {<<"x25519", "p256">>, <<"x25519">>},
                 share : {"x25519"}, suites : {<<"aes128", "aes256">>},
                 verify : {"peer", "none"}, cert : {None, "good", "bad"},
                 server_pref : {FALSE}]

ServerConfig == [max13 : BOOLEAN, groups : {<<"p256", "x25519">>, <<"p256">>},
                 share : {None}, suites : {<<"aes256", "aes128">>},
                 verify : {"none", "peer", "require"}, cert : {None, "good", "bad"},
                 server_pref : BOOLEAN]

(* Every combination of settings. *)
AllConfigs == [client : ClientConfig, server : ServerConfig]

(* Two endpoints that differ in the groups only, for damaged hellos. *)
DamageConfigs ==
    {c \in AllConfigs :
        /\ c.client.verify = "peer" /\ c.client.cert = "good"
        /\ c.server.verify \in {"none", "require"} /\ c.server.cert = "good"
        /\ c.client.max13 \/ c.server.max13}
=============================================================================
