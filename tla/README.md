# Verification of libssl (LibreSSL)

TLA+ models of LibreSSL's TLS and DTLS stacks, model-checked with TLC and, where the
properties matter for every size of the system, proved with TLAPS. All paths are
relative to `src/src/lib/libssl/` unless they say otherwise.

Contents: 1 inventory, 2 plan, 3 the modules, 4 the runs, 5 the proofs, 6 what
disagrees with the source's own comments, 7 what is not modelled.

## 1. Inventory

| Component | Source | State | Operations |
|---|---|---|---|
| TLS 1.3 handshake state machine | `tls13_handshake.c`, `.h`, `tls13_handshake_msg.c` | `handshake_stage` (`hs_type`, `message_number`), `hs_msg`, `need_flush`, `send_dummy_ccs`, `send_dummy_ccs_after`, `alert` | `tls13_handshake_perform`: flush, complete, send action, receive action, alert, advance |
| TLS 1.3 handlers | `tls13_client.c`, `tls13_server.c` | `ctx->hs`: key share, cipher, traffic secrets, saved transcript hash, hello hash, peer certificate | one `_send`, `_sent`, `_recv` handler per message |
| Transcript | `ssl_transcript.c` | transcript buffer, rolling hash, freeze flag | record, freeze, reset, hash init, hash value |
| Key shares, groups, ciphers | `tls_key_share.c`, `t1_lib.c`, `ssl_tlsext.c`, `s3_lib.c` | own and peer public key | generate, derive, choose group, choose cipher |
| TLS 1.3 record layer | `tls13_record_layer.c`, `tls13_record.c`, `tls_content.c` | keys and sequence numbers of both directions, `wrec`, `wrec_appdata_len`, `alert_data`, `phh_data`, `rcontent`, `read_closed`, `write_closed`, `ccs_allowed`, `ccs_seen` | read, peek, write, flush, enqueue and process alerts, post-handshake messages, set traffic key |
| Post-handshake messages | `tls13_lib.c` | `phh_count`, `phh_last_seen`, `key_update_request` | KeyUpdate, NewSessionTicket, limit check |
| Calls of the application | `tls13_legacy.c`, `ssl_lib.c` | `ssl->shutdown`, `s3->wnum` | connect, accept, read, peek, write, shutdown, hand-over to the legacy stack |
| DTLS record layer | `d1_pkt.c`, `pqueue.c` | replay bitmaps of two epochs, `unprocessed_rcds`, `buffered_app_data`, `rcontent` | check and mark records, queue those of the next epoch, hold back data, read |
| DTLS handshake | `d1_both.c`, `d1_lib.c` | message numbers, `sent_messages` with their epochs, `buffered_messages`, timer, `num_alerts`, `mtu`, `listen` | fragment, reassemble, buffer, retransmit, time out, listen |
| TLS 1.2 and earlier handshakes | `ssl_clnt.c`, `ssl_srvr.c`, `ssl_both.c`, `t1_enc.c`, `tls12_lib.c` | `hs.state`, transcript, session, `reuse_message`, expected extensions, verify data, buffering BIO | the state loops of connect and accept, renegotiation, resumption |
| TLS 1.2 record layer | `ssl_pkt.c`, `tls12_record_layer.c` | keys of both directions, `change_cipher_spec`, CCS permission | read each type of record, alerts, ChangeCipherSpec |
| Session cache | `ssl_sess.c` | hash table, LRU list, reference counts, lock | add, look up, remove, evict, flush, callbacks |
| Hash table | `../libcrypto/lhash/lhash.c` | buckets, `p`, `pmax`, `num_nodes`, `num_items` | insert, delete, retrieve, grow, shrink, walk |
| libtls | `../libtls/` | wrapper state of a connection | handshake, read, write, close |
| libcrypto | `../libcrypto/` | | ciphers, ASN.1, X.509 verification, BIOs, containers |
| nc, openssl, ocspcheck, libc parts | `../../usr.bin`, `../../usr.sbin`, `../libc` | | command line programs, string functions |

How they interact. The application calls `SSL_*`; for TLS 1.3 these reach
`tls13_legacy.c`, which runs the handshake machine or the record layer. The record
layer calls back: down to the BIOs (`wire_read`, `wire_write`, `wire_flush`) and up
to `tls13_lib.c` (alerts, post-handshake messages, "reply sent"). Everything is
non-blocking: any write may return `TLS13_IO_WANT_POLLOUT` in the middle of an
operation, and the application repeats the call. The state that survives such a
return (`wrec`, `hs_msg`, `alert_data`, `phh_data`, `wnum`, `wrec_appdata_len`, the
dummy CCS flags) is where the code is hard. For earlier versions and DTLS the state
loops `ssl3_connect` and `ssl3_accept` drive the connection; over DTLS they read
through `dtls1_get_message`, which reassembles what `dtls1_get_record` lets through.
One `SSL` belongs to one thread, so concurrency is the interleaving of the two
endpoints, the network, the BIO's readiness, timers and the order of the
application's calls. The session cache of an `SSL_CTX` is the exception: the
connections of many threads share it, under one lock that is released around the
callbacks.

What is hard, and the property that makes the component correct:

* the row of the `handshakes` table changes during the handshake while the index
  stays (`PastPreserved`, and `TypeOK`: the index never points at `INVALID`);
* the two endpoints change the keys of each direction at different handlers, and
  hash the transcript at different moments (`KeysInSync`, `Agreement`);
* writes block anywhere, dummy ChangeCipherSpec records included
  (`NoSpuriousFailure`, `Termination`);
* records wait in the BIO until a flight ends; both endpoints could wait for each
  other (`Termination`);
* hellos are unprotected (`DamageDetected`, downgrades included) and
  authentication depends on many settings (`PeerAuthenticated`);
* application data, alerts and KeyUpdate replies share one partly written record
  (`WireInOrder`, `DataExactlyOnce`, `RequestsAnswered`, `ReplySent`);
* the read key changes in mid-stream, and one record may hold several messages
  (`StreamInOrder`, `NoSpuriousFailure`, `NothingMoreToDo`);
* sequence numbers must not wrap (`TypeOK`) and a closed channel stays closed
  (`ClosedIsFinal`);
* datagrams are lost, repeated and reordered: a record counts once
  (`CheckIsExact`, `AtMostOnce`, `DeliveredOnce`), data waits for the Finished that
  confirms its keys and is not lost meanwhile (`FinishedFirst`, `AcceptedNotLost`,
  `HeldIsDelivered`), and what may fail for a loss or a copy is known
  (`LossIsTolerated`);
* handshake messages are fragmented anew at each retransmission, flights span two
  epochs, timers race answers (`TranscriptsAgree`, `KeptUntilReceived`,
  `Completion`);
* in TLS 1.2 both sides may renegotiate at once with data in flight, and optional
  messages are recognised by peeking (`NoSpuriousFailure`, `Agreement`,
  `OmissionDetected`, `Termination`);
* threads add, look up, evict and flush the same sessions (`RefsExact`,
  `ListMatchesTable`, `CacheBounded`, `LockReleased`), in a hash table that changes
  its size under a walk (`IsDictionary`, `WalkVisitsAll`, `WalkStaysInTable`,
  `CountsAreExact`).

`PROJECT.json` lists every hazard at its line.

## 2. Plan

Done:

1. `Tls13Stages`, `Tls13Handshake`: the handshake between two endpoints.
2. `Tls13RecordLayer`: the connection after the handshake.
3. `Tls13RecordLayerProofs`: type, wire order, exactly-once data, closed channels.

4. `DtlsBitmap`, `DtlsReplay`, `Satsub64be`, `DtlsOnce`, `DtlsReplayProofs`: the
   replay window, its byte arithmetic, its abstract specification, and the proofs.
5. `DtlsRecord`: the read path with its queues and epochs.
6. `Lhash`, `Dictionary`: the hash table and what it promises.
7. `SessionCache`: threads, reference counts, list, lock, callbacks.
8. `Tls12Handshake`: the state loops of TLS 1.2 and earlier with their records.
9. `DtlsHandshake`: fragments, flights and timers over a network that loses.

10. `SessionCacheProofs`: reference counts, list and table, the size of the cache.
11. `DtlsBitmapProofs`, `DtlsRecordProofs`: the read path of DTLS.
12. `Tls13HandshakeProofs`: the position in the table, authentication, agreement.
13. `Tls13RecordLayerProofs`, second half: the read side of TLS 1.3: requests answered, failures with
    reasons, data in order.
14. `Tls12HandshakeProofs`, `Tls12AgreementProofs`: authentication and agreement in the
    handshakes of TLS 1.2 and DTLS.

Next, in this order:

15. Proofs: `OmissionDetected` of `Tls12Handshake`, on top of `AgreeInv`; `DamageDetected` of one bit error,
    `KeysInSync` and `NoSpuriousFailure` of the TLS 1.3 handshake, on top of `Inv`;
    `KeptUntilReceived` of `DtlsHandshake`.
16. The pending writes of `ssl_pkt.c` with `SSL_MODE_ENABLE_PARTIAL_WRITE`, and an
    abstract specification of a connection as two streams with half-close that both
    record layers implement.

## 3. The modules

**`Tls13Stages`** holds the tables `state_machine` and `handshakes` and
`tls13_handshake_active_state`. `hs_type` is the set of its flag bits.

**`Tls13Handshake`** runs two endpoints. `ep[p]` is the `struct tls13_ctx` of
endpoint `p` with what it reaches through `hs`, `rl` and `ssl`; `wire[p]` holds the
records that reached `p`; `closed` the endpoints whose application closed the
connection; `damage` counts damaged hellos. Each handler of `tls13_client.c` and
`tls13_server.c` is an operator of the same name from an endpoint to an endpoint.
The actions are the iterations of `tls13_handshake_perform`: `Flush`, `Complete`,
`SendDummyCcs`, `SendMessage`, `BlockWrite` (the BIO refuses the record), `Recv`,
`SendAlert`, `ConnectionLost`; and the environment: `Drain` (a BIO passes on what it
holds before it is flushed), `Close`, `DamageHello`. Cryptography is symbolic: a
hash is the sequence of what was hashed, a key the record of its inputs, a signature
names signer and hash.

**`Tls13RecordLayer`** is one endpoint after the handshake, with a peer that sends
any sequence of records from `Traffic`, malformed ones included, and an application
that reads, peeks, writes and shuts down. `rl` is the write side and the result of
the last call, `rd` the read side, `app` the application, `peer` what the peer has
sent. Each function of `tls13_record_layer.c` is an operator of the same name; a call
is one action, and one more (`Continue`) for each further iteration of its loop. The
BIO takes `room` records during a step, chosen anew each time, so a write may block
at every record. `gen` numbers the traffic keys of a direction; a record opens under
exactly the pair of key and sequence number it was sealed with. `Kinds` is what a peer
may put into one record: application data, alerts, one post-handshake message, a
fragment of one, two tickets, or a ticket and a KeyUpdate. The message behind a ticket
is cleared with the content (`tls13_record_layer.c:940`); `rd.lost_update` and
`rd.lost_requests` are the history of the KeyUpdates cleared so.

**`DtlsBitmap`** is the replay bitmap of an epoch: the largest number and the set of
its bits. **`DtlsReplay`** lets records arrive in any order and number and counts how
often each is accepted; **`DtlsOnce`** is what that promises, and `DtlsReplay`
implements it (`AtMostOnce`). **`Satsub64be`** is the subtraction of sequence numbers
byte by byte, with its borrows and its saturation, which `DtlsBitmap` takes for a
subtraction of numbers.

**`DtlsRecord`** is an endpoint that ends its handshake and reads. `net` holds every
datagram sent, and any of them may arrive at any time. `s` is its `SSL`:
`unprocessed`, `buffered_app_data`, both bitmaps, `rcontent`, the state of the
handshake and the history `log` of what was handed out. A call of `SSL_read` or of
the handshake takes several steps (`Call`, `ReadStart`, `ReadWire`, `ReadRecord`), as
many as `dtls1_read_bytes` has iterations. `num_alerts` counts the Finished messages that
came again (`dtls1_check_timeout_num`): beyond `AlertCount` a call fails. `queued` is the
history of the records that waited for their epoch.

**`DtlsHandshake`** is a handshake of two endpoints, from the first ClientHello to
`SSL_ST_OK` on both sides. `ep[e]` is the `SSL` with its `s->d1`, `net[e]` the bag of
datagrams on their way to `e`. A datagram is the sequence of records that
`BIO_flush` found in the buffering BIO. `Transmission` is the table of what each
state of `ssl3_connect` and `ssl3_accept` writes, `ClientGets` and `ServerGets` what
each does with a message; the functions of `d1_both.c` and `d1_lib.c` are operators
of the same name. `Size` gives the length of a message in units: a Certificate of
three units is sent in fragments of two and one after a ServerHello, whole when it is
sent again alone, and in other fragments once the MTU is reduced; a ticket of four units
is always in fragments. The actions:
`Send`, `Retrieve` (a buffered message is next), `Read` (the next record), `Receive`,
`Lose`, `Timeout`.

**`Tls12Handshake`** runs `ssl3_connect` against `ssl3_accept`, one action for each
state of a loop, with renegotiations, application data and a network that may remove
a plaintext record. `ssl[e]` holds the fields of the `SSL` that outlive a step. A
Finished is the sequence of messages it is computed from, and `Digest` keeps the
Finished messages of earlier handshakes out of that sequence except through the
renegotiation extension; a premaster secret is the number of the client's handshake.
Records travel in order; both endpoints have the same setting for tickets. `cfg.calls`
says with which calls the applications go on during a renegotiation: only `SSL_read` sets
`in_read_app_data`, and without it data that is still on its way is refused
(`MayReadData`).

**`Lhash`** is linear hashing with the walk of `doall_util_fn`, one bucket at a time,
during which items are deleted, and with allocations that fail; `walk.beyond` records
that the index of the walk is no longer one of the array, where the model ends the walk.
**`Dictionary`** is the map the table implements. **`SessionCache`** has one action per stretch of code between
two points where another thread can run: the lock of the context is taken and given
back, reference counts change atomically (`CRYPTO_add`), and the callbacks run
without the lock. Its table is the set of pairs of an ID and a session, as `lh_insert`
keeps them. `RenewalSpec` adds tickets that change the ID of a cached session.

**`MC...`** modules define the configurations of the runs;
**`Tls13HandshakeProofs`**, **`Tls13RecordLayerProofs`**, **`DtlsReplayProofs`**,
**`DtlsRecordProofs`**, **`SessionCacheProofs`** and **`Tls12HandshakeProofs`** hold the
proofs of the module each is named after, **`DtlsBitmapProofs`** the lemmas on the bitmap that both DTLS modules need.
**`Tls12AgreementProofs`** extends `Tls12HandshakeProofs`, which is about authentication,
with the proof of agreement.

Operators whose comment begins with "Mutant" are faulty variants of the operator
after them. They are not part of a specification; substituting one must violate the
property that `PROJECT.json` pairs it with, which shows that the property can fail.

## 4. The runs

`tlc -config X.cfg M` with the module and configuration named in `PROJECT.json`.

| Run | Shows | Distinct states |
|---|---|---|
| `Handshake` | every pairing of 24 client and 72 server configurations (TLS 1.3 on or off, group lists with and without overlap, preference order, certificates that are missing, good or rejected, verification modes), writes that block anywhere, early closes, and one damaged hello where both sides authenticate | 118,416 |
| `RecordLayer` | up to three records from the peer of all kinds, a ticket and a KeyUpdate in one record among them, one buffer of two records to write, `SSL_MODE_AUTO_RETRY`; replies are eventually sent | 386,212 |
| `DtlsReplay` | the replay window against any arrivals; its arithmetic over all pairs of numbers of three 3-bit bytes; at-most-once as a refinement | 2,048 |
| `DtlsRecord` | the end of a server's handshake and what follows, the client's flight twice, datagrams lost, reordered and repeated | 965,687 |
| `DtlsHandshake` | whole DTLS handshakes: with a ticket and with `DTLSv1_listen` and two losses, with cookies and `SSL_accept` and one loss, with a ticket and a timer that expires early, with a client certificate and one loss | 571,401 |
| `Tls12Handshake` | TLS 1.2, TLS 1.0 and DTLS with each kind of key exchange, verification and resumption, one renegotiation by either side or both, by `SSL_read` or other calls, data in flight, one record removed | 322,788 |
| `Lhash` | items with equal keys and equal hashes in a table between its smallest size and four times that, walks that delete, failing allocations; refinement of `Dictionary` | 353,347 |
| `SessionCache` | two threads, two IDs, three sessions, a cache of one | 697,953 |
| `CoalescedUpdate`, `LhashWalk`, `DtlsInvalid`, `SessionRenewal` | disagreements with comments and manual pages, section 6 | |

In `DtlsRecord`, `DtlsHandshake`, `Tls12Handshake`, `Lhash` and `SessionCache` the type
invariant `TypeOK` is a conjunct of the first safety invariant; that of `DtlsReplay` is
proved.

Bounds. Handshakes need none: they end. `DamageBound` 1 suffices because a single
changed hello already makes the transcripts differ. In `RecordLayer` three records
are enough for a fragmented KeyUpdate followed by data, for a KeyUpdate, a reply that
blocks and another update, or for a message, a message over the limit and data.
`MaxSeq` is 2, so the sequence numbers run out within the run; `RoomBound` is 3, the
most records one step can write; `PhhLimit` is 1 so that it is exceeded. The proofs
remove all these bounds for the safety properties. `Window` 3 and `Saturation` 4 keep the
relation of 64 and 128 that matters (the window ends below the saturation); numbers
of three bytes have a byte in the middle that borrows and lends; the proofs remove
the bounds of the window. In `DtlsRecord` two flights and one later record fill a
queue of two, and `AlertCount` 1 (12 in the source) is exceeded by the second copy of a
Finished. In `DtlsHandshake` two losses hit a flight and its retransmission;
`AlertCount` 5 is more than two losses can use up, so that a
time-out is a fault of the code, and more than the two that reduce the MTU;
`Ahead` 2 (10) is exceeded by a server's flight. `Tls12Handshake` has one
renegotiation per endpoint in flight with one record of data from each: both may
start at once. In `Lhash` eight items suffice to fill a table of eight buckets: with
`LH_LOAD_MULT` 2 (256) the deletions of the items of one top bucket shrink it past the
point where half of the array is given back. The
relation that matters is kept: a walk sets `down_load` to 0, and the table shrinks
under it when `num_items * LH_LOAD_MULT < num_nodes`. A cache of one session evicts with every second addition; three
sessions under two IDs give two objects with the same ID.

Fairness. In the handshake an application polls and calls again until the handshake
is over, so each endpoint's `Perform` is weakly fair, and it closes a connection that
failed or went to the legacy stack. Nothing is assumed of `BlockWrite` or `Drain`: a
BIO may refuse a record once per record and never has to pass records on before a
flush. In `RecordLayer` a call in progress runs to its end and, while a reply or
an alert is waiting, the application reads again and the BIO eventually takes
records: what an application does that polls as `SSL_get_error` tells it to. The
enabling conditions are written out instead of `WF`, which TLC would have to evaluate
over very large actions; they are equivalent. In `Tls12Handshake` each endpoint's
next step is weakly fair; nothing makes an application renegotiate or write. In
`DtlsRecord` a call runs on and is repeated; nothing is assumed of the network. In
`SessionCache` a thread inside a call runs on, so nobody is assumed to begin one. In
`DtlsHandshake` the endpoints' steps are fair, what is not lost is delivered, and a
timer expires when nothing else can happen. One assumption concerns time: timers
double when they expire (`dtls1_double_timeout`), so neither endpoint expires twice
more often than the other while both wait (`InTurn`); without it one could use up its
time-outs before the other's first.

Deadlock is checked except in `Tls12Handshake` and `DtlsHandshake`: there the endpoints stop when the handshake is over, and the
liveness properties say that nothing else stops them. `Terminated` and `Stopped` are
the states in which both handshakes are over or the application stopped after a
fatal error.

## 5. The proofs

`tlapm Tls13RecordLayerProofs.tla` proves, for all values of the constants with
`MaxSeq` a natural number, `WriteLen` a positive one and `RoomBound` a natural number,
and for any traffic and any bounds:

* `Invariance`: `Spec => []Inv`
* `TypeCorrect`: `Spec => []TypeOK`
* `WireIsInOrder`: `Spec => []WireInOrder`
* `DataIsWrittenOnce`: `Spec => []DataExactlyOnce`
* `NothingAfterClose`: `Spec => ClosedIsFinal`

The argument. `WireInOrder` and `DataExactlyOnce` speak of records already written,
and say nothing of the record in `wrec` or of the next one, so they are not inductive.
`Good` adds how the sealed record continues the wire (`WrecNext`: its key and sequence
number come next, it is the latest sealed, if it is data it is the next chunk, if it
is a KeyUpdate the reply is still pending). `Placed` says the same of the record that
would be sealed next, when none is. One path loses `Placed`: a KeyUpdate reply pushed
out by a write of another type returns `FAILURE` with the alert still pending and the
write key unchanged (section 6). `Kept` allows exactly that, and since the application
stops after a fatal error nothing is sealed afterwards. `Inv` adds what the loops need: a call
in progress has not failed, a `close_notify` sent means the channel is closed or an
alert is pending, and a shutdown that reads has a closed write channel.

The lemmas follow the call graph: sequences of records (`AppendInOrder`,
`AppendChunk`), the write functions from `tls13_record_send` up to
`tls13_record_layer_write` (`WriteRecord` and the `...Keeps` lemmas), then the read
functions, each shown to be a `ReadStep` (the write path stays in order, what was
closed stays closed, the application's count is untouched), then one lemma per action.

The second half of `Tls13RecordLayerProofs` proves, on top of that `Inv` and for the same
constants with `PhhLimit` a natural number, `PhhRetry` Boolean and `Traffic` any subset
of the records the peer knows (`Kinds`):

* `ReadInvariance`: `Spec => []ReadInv`
* `UpdatesAreAnswered`: `Spec => []RequestsAnswered`
* `ConformingInvariance`: `Spec => []Conforming`
* `FailuresHaveReasons`: `Spec => []NoSpuriousFailure`
* `StreamStaysInOrder`: `Spec => []StreamInOrder`

`ReadInv` gives the records on their way their shape and has `Answered`: the requests
of the peer are the updates of the write key done, the reply that is pending, the
requests still unread, and those that were cleared behind a ticket. Inside a call the record that was opened counts too until it has
been handled; an error alert that is pending, or a closed write channel, excuses a reply
that will never come.

`Conforming` speaks of a peer that keeps to the protocol. A read fails if the key or the
sequence number of a record is not the expected one, so the records on their way have
to continue one another up to where the peer is (`Chained`), starting where the endpoint
is (`Synced`). If a KeyUpdate was cleared, they start one key further: then no later
record opens, which is the failure that `NoSpuriousFailure` excepts. An alert that is pending has a `Reason`, and `Left` says what a call that
blocked or failed may leave for the next one: an alert half written, nothing sealed at
the last sequence number, a reply that its alert overtook. `Stream` says that the unread
units, in the content and in the records, are those after the last one consumed up to
the last one sent, in order and without gaps. `Tidy` (no content while a message is
incomplete) is needed because the record of a fragment would otherwise replace unread
data, and `Explained` ties what the call returned to its cause.

The lemmas again follow the call graph, from the alert and the post-handshake
messages up to `tls13_legacy_shutdown`, with three kinds of lemma: what a write function
leaves pending and sealed (`...Settles`), that a read function loses no request
(`...Rests`), and that it keeps `Conforming` (`...Conforms`). One lemma per action of
`Next` concludes each invariant.

`tlapm DtlsReplayProofs.tla` proves, for every `Window` and `Saturation` with
`0 < Window <= Saturation` and every set of sequence numbers:

* `Invariance`: the bits of the window are exactly the accepted records, none is
  beyond the largest, and all counts are 0 or 1;
* `ExactlyTheNew`: `Spec => []CheckIsExact`, a record passes exactly if it is new and
  not older than the window;
* `ImplementsOnce`: `Spec => AtMostOnce`, the refinement of `DtlsOnce`.

`CheckIsExact` alone is not inductive: after a shift the bits must still stand for the
records they stood for. The invariant states that for every position of the window;
the shift is where `Window <= Saturation` is needed, since a jump of `Saturation` or
more has to clear all bits.

`tlapm Tls13HandshakeProofs.tla` proves, for every set of pairs of configurations
(with a certificate that is missing, good or bad), every bound on damage, every
blocking and every delay:

* `Invariance`: `Spec => []Inv`
* `TypeCorrect`: `Spec => []TypeOK`, which includes that no endpoint at work finds
  `INVALID` in the table
* `EndpointsAgree`: `Spec => []Agreement`
* `PeersAuthenticated`: `Spec => []PeerAuthenticated`
* `PastIsPreserved`: `Spec => PastPreserved`

The argument. Each property speaks of endpoints that have completed, so by itself it
says nothing about the steps before. `Living` says what an endpoint that is alive knows
at its place: which rows of the table it can be in there (`Placed`), that what is built
or sealed and not yet written is the message of that place (`Pending`), that its
handshake keys belong to its shared secret (`Engaged`), what it has checked of its peer
(`ServerSeen`, `ClientSeen`) and, after a Finished was accepted, that the peer, if it is
alive, holds the same keys and hash (`ServerAgreed`, `ClientAgreed`). These last two are
inductive only because of what is on its way: `Sound` says that a Finished in the BIO or
on the wire is the one computed from keys and hash that its sender, if alive, still
holds. Damage cannot break it, since a damaged hello is still a hello (`Damaged`); and a
Finished that is accepted equals the one the receiver computes itself, so the two ends
have hashed the same. A step of one end must leave the other end's knowledge true:
`Steady` says that it moves by at most one message, keeps the past, and no longer
changes what its own Finished covered.

The lemmas go bottom up: the rows of the table and which row may follow which
(`Follows`, `Switch...`); each handler of `tls13_client.c` and `tls13_server.c`, which
either gives up (`Dies`) or changes a named set of fields (`Works`); for each message
the endpoint after it (`Recv...`, `...Advances`); then `Result` for a whole receive or
send action, blocked writes and both dummy ChangeCipherSpecs included; then one lemma
per action of `Next`.

`tlapm DtlsRecordProofs.tla` proves, for every window, every limit of the queues, of the
records of a call and of the peer's flights:

* `Invariance`: `Spec => []Inv`
* `NoRecordTwice`: `Spec => []DeliveredOnce`
* `NothingBeforeFinished`: `Spec => []FinishedFirst`
* `NothingLost`: `Spec => []AcceptedNotLost`, if no record is damaged and the queue
  holds as many records as the peer sends after its flight. A longer burst is dropped
  by `dtls1_buffer_record` after it was marked, so the hypothesis is needed;
* `ServerTolerates`: `Spec => []LossIsTolerated` for a server on a network without
  damage: a call fails only after more repeated Finished messages than
  `dtls1_check_timeout_num` allows, or once a record was queued for the next epoch, of
  which `pqueue_insert` refuses a copy. A client that is done refuses a repeated
  Finished (section 6).

`DeliveredOnce` is about the log alone. An accepted record is in `rcontent`, in
`buffered_app_data` or in the log, and `OnePlace` says that one that was not queued for
its epoch is in at most one of them, once; `Marked` says that it does not pass the bitmap
again. `Staged` ties the epoch and ChangeCipherSpec to the state of the handshake, and
`Confirmed` says that a handshake in its final state has logged Finished: together they
give `FinishedFirst`. `NotLost` is the converse of `OnePlace`: accepted data is in one of
the three places. Its step for a record that has to be held back needs a queue that is
not full, which follows from counting the records that can be in it (`Room`).

`tlapm SessionCacheProofs.tla` proves, for any threads, sessions, IDs and any limit:

* `Invariance`: `Spec => []Inv`
* `ReferencesExact`: `Spec => []RefsExact`
* `ListIsTable`: `Spec => []ListMatchesTable`
* `CacheKeepsItsSize`: `Spec => []CacheBounded`

`Spec` has no renewal of the ticket of a cached session; that is in `RenewalSpec` only, for
which `CacheBounded` is false (section 6).

The three properties need each other and more: between two locked sections a thread
keeps sessions in local variables, and `Locals` says which it has at each place of its
code. `Counted` says that the count of a session is the number of its holders
(connections, the cache, threads in the middle of a call) and that it lives exactly while
it has one; it changes by one holder at a time. `Locked` says who holds the lock and that
the walk of a flush only has entries of the table left, `Table` that a cached session is
found under its own ID and no ID has two, `Listed` that the list has no duplicates and
the sessions of the table, `Bounded` that only a thread that is evicting is above the
limit.

`tlapm Tls12HandshakeProofs.tla` proves, for every set of configurations that
`ConfigAssumption` admits, any number of renegotiations, of data records and of records
removed:

* `SpecPeerAuthenticated`: `Spec => []PeerAuthenticated`

`ConfigAssumption` says that `SSL_VERIFY_FAIL_IF_NO_PEER_CERT` is set together with
`SSL_VERIFY_PEER`, without which `ssl3_accept` asks for no certificate, and that a session
a server with these flags still knows is of a client it has authenticated. Without the
second part the theorem would be false: `ssl_get_prev_session` checks the session ID
context, not whether the session has a certificate.

`PeerAuthenticated` is about sessions at the end of a handshake, and a session comes from
the cache, from a ticket that may be in the client's session, in a ClientHello on its way
or in a message kept for the next state, or it is built up message by message. `AuthInv`
says of all these places that a session in them is authenticated, and of each endpoint
what it has checked of the peer at its state; the state that a `FLUSH` leads to counts as
its state. A server between the client's Certificate and CertificateVerify has a peer that
has not proved anything yet, and cannot leave through `SR_FINISHED` without it. A DTLS
client that gets a HelloVerifyRequest goes back to `CW_CLNT_HELLO` with a session it has
already emptied or still offers, so the invariant also says when such a request can be on
its way (`Cookies`).

`tlapm Tls12AgreementProofs.tla` proves, under the same assumptions:

* `SpecAgreement`: `Spec => []Agreement`, with `TypeOK` a conjunct of it

`Agreement` is about two endpoints that have both completed, and holds because the
server's Finished covers everything before it. `AgreeInv` has, beside `AuthInv` and the
types (`TypeInv`), two parts. `ClientState` and `ServerState` say of each endpoint, state
by state, what it has hashed and which keys it has: both hellos of the present handshake
(`Hellos`), then what the server's Finished is computed from, with or without a ticket
(`Before`, `Ready`), then all of it (`Complete`). The moments differ between the two: the
hash is taken when ChangeCipherSpec is read (`CcsRead`), and a message that was read to
see whether it is there is already hashed but is kept for the next state (`HashIs`). The
other part, `LinkC` and `LinkS`, is the link: a client counts its handshakes, the number
is in its ClientHello and so in everything hashed after it, and a Finished of the server
with the server's present number, on its way, kept or accepted, is the one the server
remembers (`Genuine`). A Finished that a client accepts is the one it computes itself from
what it has hashed, so two endpoints in the same handshake have hashed the same, and hence
have the same master secret, keys and client Finished (`CompleteSame`). Renegotiation needs
the numbers: with data in flight a client may have started the next handshake while the
server is still in the last one. The keys of the records say which is which (`FromServer`,
`FromClient`), also for a ChangeCipherSpec in the wrong place, after which a client in a
renegotiation has new read keys and can never read the server's hello (`ClientHoping`).

The lemmas of both modules are in three layers: what each handler does to each field, that a
handler keeps what the endpoint knows (`ClientGoes`, `ServerGoes` and the `Agree...`
lemmas), and the steps of `Next` with the queues.

Only model-checked, with the reason:

* `OmissionDetected` and `NoSpuriousFailure` of the TLS 1.2 handshake, and
  `KeysInSync`, `NoSpuriousFailure` and `DamageDetected` of the TLS 1.3 handshake. They
  relate both endpoints and the records between them in every state, so the invariant
  has to give, for every pair of states, the sequence of records on their way, where
  `Agreement` only needs to know the Finished messages among them; `OmissionDetected`
  also counts the messages of a transcript.
  `DamageDetected` is moreover true only for `DamageBound = 1`, the value of its run: with
  two bit errors the second can undo the first, and TLC then finds a handshake that
  completes with `damage = 2`, rightly so.
* `DtlsHandshake`: messages are reassembled from fragments and datagrams are built with
  folds over sequences.
* `satsub64be`, whose borrow is a recursion over the bytes: over all pairs of small
  numbers.
* The hash table with its refinement: `expand` splits a chain and a lookup searches one
  with `SelectSeq`, a recursive definition of which the provers know nothing and which
  only induction over sequences could characterise.

All liveness (`Termination`,
`ReplySent`, `HeldIsDelivered`, `LockReleased`, `Completion`) is beyond this prover.

## 6. Disagreements with comments, assertions and manual pages

With a run that shows it:

* `DtlsInvalid`: "DTLS should silently discard invalid records, including those with a
  bad MAC" (`d1_pkt.c:372`). Such a record counts as processed, and the call acts on
  the content that was there before.
* `SessionRenewal`: "If adding the session makes the cache exceed its size, then unused
  sessions are dropped from the end" (`SSL_CTX_sess_set_cache_size.3:82`). A renewed
  ticket changes the ID of a cached session; at the end of the list it stops all
  evictions.
* `CoalescedUpdate`: "got the whole handshake, nothing more to do"
  (`tls13_record_layer.c:934`). Only the first message of the record was handled; the
  rest is cleared (`:940`). When that is a KeyUpdate behind a NewSessionTicket, a request
  is not answered and the peer's next record cannot be opened.
* `LhashWalk`: "Disable contraction of the hash while walking" (`lhash.c:354`). With
  `down_load` 0 a table still contracts once its load is rounded to 0; when a callback
  deletes the items of a top bucket the array of buckets can be halved below the index
  of the walk.

Exceptions of a property of a passing run. TLC finds a counterexample when the exception
is taken out:

* "insert should not fail, since duplicates are dropped" (`d1_pkt.c:236`). A record queued
  for the next epoch is not marked under its number, because `dtls1_buffer_record` clears
  it first ("Mark receipt of record", `d1_pkt.c:528`): a copy passes the replay check,
  `pqueue_insert` refuses it and the call fails (`LossIsTolerated` of `DtlsRecord`), or it
  is delivered again (`DeliveredOnce`).
* "If a new handshake is started, it is handled transparently during any I/O function"
  (`SSL_renegotiate.3:131`). Data that the peer wrote before it saw the new handshake is
  let through only if `SSL_read` drives it (`ssl_pkt.c:1185`); `SSL_write` and
  `SSL_do_handshake` end the connection with unexpected_message (`NoSpuriousFailure` of
  `Tls12Handshake`).
* `ssl3_connect` asserts that the transcript was released at `SSL_ST_OK`
  (`ssl_clnt.c:580`). A DTLS client that resumes a session keeps it (`ssl_clnt.c:319`) and
  fails (`ResumedDtls` in `NoSpuriousFailure`).
* "We can't process a CCS now, because previous handshake messages are still missing, so
  just drop it" (`ssl_pkt.c:803`). A server that waits for CertificateVerify already
  permits ChangeCipherSpec (`ssl_srvr.c:597`): one that overtakes it is processed and
  CertificateVerify can no longer be read (`Overtaken` in `Completion`).
* "check whether the desired fragment is available" (`d1_both.c:487`). Only the head of
  `buffered_messages` is looked at, and not passed while it is being reassembled (`:503`).
  The rest of a message that was then read whole from another copy stays there, and a
  later message that is complete behind it is not found (`Obstructed` in `Completion`).
* With cookies and `SSL_accept` a lost HelloVerifyRequest is not sent again, since the
  client's repeated ClientHello has an old number; with `DTLSv1_listen` it is
  (`CookieLost` in `Completion`).
* A DTLS client that is done refuses a Finished that its server sends again
  (`dtls1_read_handshake_unexpected`; `LossIsTolerated` of `DtlsHandshake`).

Seen while modelling, each allowed for in the model:

* "The only partial record type should be application data" (`tls13_record_layer.c:1075`).
  A KeyUpdate reply that blocks is a partial handshake record; `SSL_shutdown` then
  fails on it. The proof's `Kept` is about this path.
* "in the case of a close notify only one channel is closed" (`tls13_record_layer.c:74`).
  After `SSL_shutdown` a requested KeyUpdate makes all later reads report the end.
* "limit of 100 post handshake handshake messages in an hour" (`tls13_lib.c:299`). The
  count is reset only by an hour without messages.
* A key share for a less preferred group is ignored to request "the more preferred
  group" (`ssl_tlsext.c:1602`); with server preference that can be the same group. The
  client of this repository never meets this.
* "Do not ask for a client certificate again in case of a renegotiation"
  (`SSL_CTX_set_verify.3:195`). The certificate is looked for in a session that a full
  renegotiation has just replaced (`ssl_srvr.c:478`).

## 7. Not modelled

* Cryptography, encodings and buffer layouts; extensions other than versions, groups
  and key shares; SNI, ALPN, OCSP stapling; certificate chains (a certificate is
  good, rejected or missing).
* Pre-shared keys, resumption and early data: the code has table rows for PSK but no
  path that sets the flag.
* In the record layer: a read BIO that reports the end of the connection, quiet
  shutdown, records split by the BIO in the middle (a record is taken or not), and an
  application that goes on after a fatal error. A KeyUpdate reply and an alert fit in
  one record. Of the records with two messages, a ticket followed by the beginning of
  another message is left out; a message behind a KeyUpdate is forbidden by RFC 8446
  (section 5.1).
* A server sends no tickets in this code; the endpoint of `Tls13RecordLayer` is a
  client, which differs from a server in accepting tickets only.
* TLS 1.2: pending and partial writes, session secret callbacks, certificate callbacks
  that suspend the handshake, versions. An error without an alert leaves the peer
  waiting, since no action closes the transport.
* DTLS: renegotiation; resumption in `DtlsHandshake`, which this client cannot complete;
  repeated datagrams in `DtlsHandshake` (`DtlsReplay` and `DtlsRecord` have them);
  malformed fragments; allocation failures; writes of application data (one record per
  call); SRTP.
* Session cache: the encoding of sessions, and a lock that covers less than the code
  of one action (`CRYPTO_add` is atomic).
* QUIC (its calls leave the repository), the tables of versions, ciphers, signature
  algorithms and security levels, libtls, libcrypto apart from `lhash.c`, and the
  programs: sequential code over data, wrappers, or plain I/O.
