---------------------------- MODULE SessionCache ----------------------------
(* The session cache of an SSL_CTX (ssl_sess.c), shared by the connections   *)
(* of several threads: sessions with reference counts, the hash table and    *)
(* the list of the cache under CRYPTO_LOCK_SSL_CTX, and callbacks to an      *)
(* application that keeps sessions of its own.  A reference count has a lock *)
(* of its own (CRYPTO_add) and changes in one step; between two of the steps *)
(* below any other thread may run.                                           *)
EXTENDS Integers, FiniteSets, SequencesExt

CONSTANTS
    Thread,         \* each with one connection at a time
    Session,        \* the SSL_SESSION objects there is memory for
    Id,             \* session IDs
    None,           \* NULL
    CacheSize       \* SSL_CTX_sess_get_cache_size

ASSUME CacheAssumption ==
    /\ IsFiniteSet(Thread) /\ IsFiniteSet(Session)
    /\ None \notin Session \cup Thread \cup Id
    /\ CacheSize \in Nat \ {0}

VARIABLES
    heap,           \* the objects
    sessions,       \* ctx->sessions: the pairs of an ID and the object under it
    list,           \* ctx->session_cache_head to ctx->session_cache_tail
    lock,           \* who holds CRYPTO_LOCK_SSL_CTX
    th,             \* what each thread is doing
    ext             \* the sessions the application holds references to

vars == <<heap, sessions, list, lock, th, ext>>

Unused == [live |-> FALSE, refs |-> 0, id |-> None]

(* sess is ssl->session, tmp the session a lookup has found, c the argument  *)
(* of a call to add or remove a session, r a session just taken out of the   *)
(* cache, todo what a flush has left and next where the call returns to.     *)
Waiting ==
    [pc |-> "idle", sess |-> None, tmp |-> None, c |-> None, r |-> None,
     todo |-> {}, next |-> "idle"]

Init ==
    /\ heap = [c \in Session |-> Unused]
    /\ sessions = {} /\ list = << >> /\ lock = None
    /\ th = [t \in Thread |-> Waiting]
    /\ ext = {}

-----------------------------------------------------------------------------
(* SSL_SESSION_new, SSL_SESSION_up_ref, SSL_SESSION_free. *)
SSL_SESSION_new(c, id) ==
    [heap EXCEPT ![c] = [live |-> TRUE, refs |-> 1, id |-> id]]

SSL_SESSION_up_ref(h, c) == [h EXCEPT ![c].refs = @ + 1]

SSL_SESSION_free(h, c) ==
    IF c = None THEN h
    ELSE IF h[c].refs > 1 THEN [h EXCEPT ![c].refs = @ - 1]
    ELSE [h EXCEPT ![c] = [Unused EXCEPT !.refs = h[c].refs - 1]]

(* The hash table: the object inserted under an ID is found by it as long as *)
(* the object still has it (Lhash, ssl_session_cmp).                         *)
Retrieved(id) == {c \in Session : <<id, c>> \in sessions /\ heap[c].id = id}

lh_retrieve(id) == IF Retrieved(id) = {} THEN None ELSE CHOOSE c \in Retrieved(id) : TRUE

IsCached(c) == lh_retrieve(heap[c].id) = c

Goto(t, pc) == th' = [th EXCEPT ![t].pc = pc]

(* Calls of SSL_CTX_add_session and SSL_CTX_remove_session with session c. *)
Call(t, pc, c, next) == th' = [th EXCEPT ![t].pc = pc, ![t].c = c, ![t].next = next]

Returned(t) == [th[t] EXCEPT !.pc = th[t].next, !.c = None, !.r = None, !.next = "idle"]

Return(t) == th' = [th EXCEPT ![t] = Returned(t)]

Free(t) == lock = None /\ th[t].pc = "idle"

(* A new connection; a renegotiation would begin with a session. *)
Fresh(t) == Free(t) /\ th[t].sess = None

-----------------------------------------------------------------------------
(* ssl_get_new_session: an ID that is not in the cache when it is chosen.    *)
(* Two threads may choose the same one.                                      *)
ssl_get_new_session(t, c, id) ==
    /\ Fresh(t) /\ ~heap[c].live
    /\ lh_retrieve(id) = None
    /\ heap' = SSL_SESSION_free(SSL_SESSION_new(c, id), th[t].sess)
    /\ th' = [th EXCEPT ![t].sess = c, ![t].pc = "handshake"]
    /\ UNCHANGED <<sessions, list, lock, ext>>

(* ssl_update_cache when the handshake is done: the new session is added to  *)
(* the cache and offered to the application.  A handshake that fails frees   *)
(* the session with the connection, after an alert that removes it.          *)
Handshake(t) ==
    /\ th[t].pc = "handshake"
    /\ \/ Call(t, "add", th[t].sess, "new_cb")
       \/ Call(t, "remove", th[t].sess, "close")
       \/ Goto(t, "close")
    /\ UNCHANGED <<heap, sessions, list, lock, ext>>

(* new_session_cb: the application keeps the session, or returns 0. *)
NewSessionCb(t) ==
    /\ th[t].pc = "new_cb"
    /\ Goto(t, "idle")
    /\ \/ th[t].sess \notin ext
          /\ heap' = SSL_SESSION_up_ref(heap, th[t].sess) /\ ext' = ext \cup {th[t].sess}
       \/ UNCHANGED <<heap, ext>>
    /\ UNCHANGED <<sessions, list, lock>>

-----------------------------------------------------------------------------
(* ssl_get_prev_session: in the cache, or from get_session_cb, and then the  *)
(* checks.  The thread owns one reference to tmp.                            *)
ssl_session_from_cache(t, id) ==
    /\ Fresh(t)
    /\ lh_retrieve(id) # None
    /\ heap' = SSL_SESSION_up_ref(heap, lh_retrieve(id))
    /\ th' = [th EXCEPT ![t].tmp = lh_retrieve(id), ![t].pc = "check"]
    /\ UNCHANGED <<sessions, list, lock, ext>>

(* After a miss: a session the application shares (copy = 1), or for which   *)
(* it hands over its reference (copy = 0).  It is added to the cache.        *)
ssl_session_from_callback(t, c) ==
    /\ Fresh(t)
    /\ c \in ext /\ lh_retrieve(heap[c].id) = None
    /\ \/ heap' = SSL_SESSION_up_ref(heap, c) /\ UNCHANGED ext
       \/ ext' = ext \ {c} /\ UNCHANGED heap
    /\ th' = [th EXCEPT ![t].tmp = c, ![t].c = c, ![t].pc = "add", ![t].next = "check"]
    /\ UNCHANGED <<sessions, list, lock>>

(* A session of another context is left alone, one that has timed out is     *)
(* removed, any other is used.  What time it is, is a choice.                *)
Check(t) ==
    /\ th[t].pc = "check"
    /\ \/ Goto(t, "discard") /\ UNCHANGED heap
       \/ Call(t, "remove", th[t].tmp, "discard") /\ UNCHANGED heap
       \/ /\ th' = [th EXCEPT ![t].pc = "idle", ![t].sess = th[t].tmp, ![t].tmp = None]
          /\ heap' = SSL_SESSION_free(heap, th[t].sess)
    /\ UNCHANGED <<sessions, list, lock, ext>>

Discard(t) ==
    /\ th[t].pc = "discard"
    /\ heap' = SSL_SESSION_free(heap, th[t].tmp)
    /\ th' = [th EXCEPT ![t].pc = "idle", ![t].tmp = None]
    /\ UNCHANGED <<sessions, list, lock, ext>>

(* SSL_set_session: a client's application hands over a session it holds. *)
SSL_set_session(t, c) ==
    /\ th[t].pc = "idle" /\ c \in ext
    /\ heap' = SSL_SESSION_free(SSL_SESSION_up_ref(heap, c), th[t].sess)
    /\ th' = [th EXCEPT ![t].sess = c]
    /\ UNCHANGED <<sessions, list, lock, ext>>

(* SSL_get1_session: the application takes a reference to the session. *)
SSL_get1_session(t) ==
    /\ th[t].pc = "idle" /\ th[t].sess # None /\ th[t].sess \notin ext
    /\ heap' = SSL_SESSION_up_ref(heap, th[t].sess)
    /\ ext' = ext \cup {th[t].sess}
    /\ UNCHANGED <<sessions, list, lock, th>>

(* ssl3_get_new_session_ticket, in a handshake that resumes the session:     *)
(* its ID is changed where it is.                                            *)
ssl3_get_new_session_ticket(t, id) ==
    /\ th[t].pc = "idle" /\ th[t].sess # None
    /\ heap' = [heap EXCEPT ![th[t].sess].id = id]
    /\ UNCHANGED <<sessions, list, lock, th, ext>>

-----------------------------------------------------------------------------
(* SSL_CTX_add_session. *)

(* Mutant: the cache does not count as a user of the session. *)
AddReferenceNone(t) ==
    /\ th[t].pc = "add"
    /\ Goto(t, "insert")
    /\ UNCHANGED <<heap, sessions, list, lock, ext>>

AddReference(t) ==
    /\ th[t].pc = "add"
    /\ heap' = SSL_SESSION_up_ref(heap, th[t].c)
    /\ Goto(t, "insert")
    /\ UNCHANGED <<sessions, list, lock, ext>>

(* The session is unlinked from the list, if it is in it. *)
SSL_SESSION_list_remove(l, c) ==
    IF c \in ToSet(l) THEN RemoveAt(l, CHOOSE i \in DOMAIN l : l[i] = c) ELSE l

SSL_SESSION_list_add(l, c) == <<c>> \o SSL_SESSION_list_remove(l, c)

(* Mutant: the session that is replaced stays in the list. *)
InsertReplaceUnlisted(c, old) ==
    /\ heap' = SSL_SESSION_free(heap, old)
    /\ sessions' = (sessions \ {<<heap[c].id, old>>}) \cup {<<heap[c].id, c>>}
    /\ list' = SSL_SESSION_list_add(list, c)

(* Another object with the ID is replaced, the same one only found again. *)
InsertReplace(c, old) ==
    /\ heap' = SSL_SESSION_free(heap, old)
    /\ sessions' = (sessions \ {<<heap[c].id, old>>}) \cup {<<heap[c].id, c>>}
    /\ list' = SSL_SESSION_list_add(SSL_SESSION_list_remove(list, old), c)

InsertAgain(t) ==
    /\ heap' = SSL_SESSION_free(heap, th[t].c)
    /\ Return(t)
    /\ UNCHANGED <<sessions, list, lock>>

InsertNew(t) ==
    /\ InsertReplace(th[t].c, lh_retrieve(heap[th[t].c].id))
    /\ lock' = t
    /\ Goto(t, "evict")

InsertSession(t) ==
    /\ th[t].pc = "insert" /\ lock = None
    /\ IF IsCached(th[t].c) THEN InsertAgain(t) ELSE InsertNew(t)
    /\ UNCHANGED ext

(* remove_session_lock, without the lock that is held already, of the tail.  *)
(* A tail that is not found under its ID ends the eviction.                  *)

(* Mutant: success is reported without removing the session. *)
EvictTailNot(t) == UNCHANGED <<sessions, list, th, lock>>

EvictTail(t) ==
    /\ sessions' = sessions \ {<<heap[Last(list)].id, Last(list)>>}
    /\ list' = Front(list)
    /\ th' = [th EXCEPT ![t].r = Last(list), ![t].pc = "evict_cb"]
    /\ UNCHANGED lock

Unlock(t) ==
    /\ lock' = None /\ Return(t)
    /\ UNCHANGED <<sessions, list>>

(* Mutant: one session too many is left. *)
TooManyByOne == Cardinality(sessions) > CacheSize + 1

TooMany == Cardinality(sessions) > CacheSize

Evict(t) ==
    /\ th[t].pc = "evict"
    /\ IF TooMany /\ IsCached(Last(list))
       THEN EvictTail(t)
       ELSE Unlock(t)
    /\ UNCHANGED <<heap, ext>>

-----------------------------------------------------------------------------
(* SSL_CTX_remove_session. *)

RemoveSession(t) ==
    /\ th[t].pc = "remove" /\ lock = None
    /\ IF IsCached(th[t].c)
       THEN /\ sessions' = sessions \ {<<heap[th[t].c].id, th[t].c>>}
            /\ list' = SSL_SESSION_list_remove(list, th[t].c)
            /\ th' = [th EXCEPT ![t].pc = "remove_cb", ![t].r = th[t].c]
       ELSE /\ Return(t)
            /\ UNCHANGED <<sessions, list>>
    /\ UNCHANGED <<heap, lock, ext>>

(* remove_session_cb is called, with the lock held in  *)
(* an eviction and in a flush: the application may give its own reference    *)
(* back.                                                                     *)
RemoveSessionCb(t, then) ==
    /\ \/ UNCHANGED <<heap, ext>>
       \/ /\ th[t].r \in ext
          /\ heap' = SSL_SESSION_free(heap, th[t].r) /\ ext' = ext \ {th[t].r}
    /\ Goto(t, then)
    /\ UNCHANGED <<sessions, list, lock>>

FreeRemoved(t, after) ==
    /\ heap' = SSL_SESSION_free(heap, th[t].r)
    /\ th' = [th EXCEPT ![t] = after]
    /\ UNCHANGED <<sessions, list, lock, ext>>

Removed(t) ==
    \/ th[t].pc = "evict_cb"    /\ RemoveSessionCb(t, "evict_free")
    \/ th[t].pc = "evict_free"  /\ FreeRemoved(t, [th[t] EXCEPT !.r = None, !.pc = "evict"])
    \/ th[t].pc = "remove_cb"   /\ RemoveSessionCb(t, "remove_free")
    \/ th[t].pc = "remove_free" /\ FreeRemoved(t, Returned(t))
    \/ th[t].pc = "flush_cb"    /\ RemoveSessionCb(t, "flush_free")
    \/ th[t].pc = "flush_free"  /\ FreeRemoved(t, [th[t] EXCEPT !.r = None, !.pc = "flush"])

-----------------------------------------------------------------------------
(* SSL_CTX_flush_sessions: the lock is held for the whole walk over     *)
(* the sessions, of which those that are old go.                             *)
SSL_CTX_flush_sessions(t, old) ==
    /\ Free(t)
    /\ lock' = t
    /\ th' = [th EXCEPT ![t].pc = "flush", ![t].todo = old]
    /\ UNCHANGED <<heap, sessions, list, ext>>

timeout_doall_arg(t) ==
    /\ th[t].pc = "flush"
    /\ \/ th[t].todo = {} /\ Unlock(t)
       \/ \E e \in th[t].todo :
              /\ sessions' = sessions \ {<<heap[e[2]].id, e[2]>>}
              /\ list' = SSL_SESSION_list_remove(list, e[2])
              /\ th' = [th EXCEPT ![t].todo = @ \ {e}, ![t].r = e[2], ![t].pc = "flush_cb"]
              /\ UNCHANGED lock
    /\ UNCHANGED <<heap, ext>>

-----------------------------------------------------------------------------
(* A fatal alert, sent or received, takes the session out of the cache, and  *)
(* so does SSL_free of a connection that was not shut down                   *)
(* (ssl_clear_bad_session).                                                  *)
SSL_free(t) ==
    /\ th[t].pc = "idle" /\ th[t].sess # None
    /\ \/ \E next \in {"idle", "close"} : Call(t, "remove", th[t].sess, next)
       \/ Goto(t, "close")
    /\ UNCHANGED <<heap, sessions, list, lock, ext>>

Close(t) ==
    /\ th[t].pc = "close"
    /\ heap' = SSL_SESSION_free(heap, th[t].sess)
    /\ th' = [th EXCEPT ![t].pc = "idle", ![t].sess = None]
    /\ UNCHANGED <<sessions, list, lock, ext>>

(* The application reads a session from where it keeps it (d2i_SSL_SESSION), *)
(* or gives a reference back.                                                *)
d2i_SSL_SESSION(c, id) ==
    /\ ~heap[c].live
    /\ heap' = SSL_SESSION_new(c, id) /\ ext' = ext \cup {c}
    /\ UNCHANGED <<sessions, list, lock, th>>

Release(c) ==
    /\ c \in ext
    /\ heap' = SSL_SESSION_free(heap, c) /\ ext' = ext \ {c}
    /\ UNCHANGED <<sessions, list, lock, th>>

Begin(t) ==
    \/ \E c \in Session, id \in Id : ssl_get_new_session(t, c, id)
    \/ \E id \in Id : ssl_session_from_cache(t, id)
    \/ \E c \in Session : ssl_session_from_callback(t, c)
    \/ \E c \in Session : SSL_set_session(t, c)
    \/ SSL_get1_session(t)
    \/ \E old \in SUBSET sessions : SSL_CTX_flush_sessions(t, old)
    \/ SSL_free(t)

Continue(t) ==
    \/ Handshake(t) \/ NewSessionCb(t) \/ Check(t) \/ Discard(t)
    \/ AddReference(t) \/ InsertSession(t) \/ Evict(t) \/ RemoveSession(t) \/ Removed(t)
    \/ timeout_doall_arg(t) \/ Close(t)

Next ==
    \/ \E t \in Thread : Begin(t) \/ Continue(t)
    \/ \E c \in Session, id \in Id : d2i_SSL_SESSION(c, id)
    \/ \E c \in Session : Release(c)

Spec == Init /\ [][Next]_vars

(* The same with servers that renew the tickets of resumed sessions. *)
RenewalSpec ==
    Init /\ [][Next \/ \E t \in Thread, id \in Id : ssl3_get_new_session_ticket(t, id)]_vars

(* A thread that is inside a call of the library runs on. *)
FairSpec == Spec /\ \A t \in Thread : WF_vars(Continue(t))

-----------------------------------------------------------------------------
(* Part of RefsExact. *)
TypeOK ==
    /\ heap \in [Session -> [live : BOOLEAN, refs : Nat, id : Id \cup {None}]]
    /\ sessions \subseteq Id \X Session
    /\ list \in Seq(Session)
    /\ lock \in Thread \cup {None} /\ ext \subseteq Session
    /\ \A t \in Thread : {th[t].sess, th[t].tmp, th[t].c, th[t].r} \subseteq Session \cup {None}

(* Who holds a reference to a session: a connection, a lookup, an insertion  *)
(* under way, a removal under way, the cache and the application.            *)
Holders(c) ==
    {<<"connection", t>> : t \in {u \in Thread : th[u].sess = c}}
    \cup {<<"lookup", t>> : t \in {u \in Thread : th[u].tmp = c}}
    \cup {<<"insertion", t>> : t \in {u \in Thread : th[u].c = c /\ th[u].pc = "insert"}}
    \cup {<<"removal", t>> : t \in {u \in Thread : th[u].r = c}}
    \cup {<<"cache", e>> : e \in {f \in sessions : f[2] = c}}
    \cup {<<"application", d>> : d \in ext \cap {c}}

(* A session has exactly as many references as users, whatever threads add,  *)
(* look up, replace, evict, remove and flush it at the same time: it is not  *)
(* freed while it is used, nor kept when nobody uses it.                     *)
RefsExact ==
    /\ TypeOK
    /\ \A c \in Session :
        /\ heap[c].refs = Cardinality(Holders(c))
        /\ heap[c].live <=> Holders(c) # {}

(* The list and the hash table hold the same sessions, each once, one for    *)
(* each ID.                                                                  *)
ListMatchesTable ==
    /\ ToSet(list) = {e[2] : e \in sessions}
    /\ Len(list) = Cardinality(sessions)
    /\ \A e, f \in sessions : e[1] = f[1] => e = f

(* "If adding the session makes the cache exceed its size, then unused       *)
(* sessions are dropped from the end of the cache" (SSL_CTX_sess_set_cache_  *)
(* size.3): when no thread is at it, the cache has its size.                 *)
CacheBounded == lock = None => Cardinality(sessions) <= CacheSize

(* Every call that takes the lock gives it back, callbacks included. *)
LockReleased == lock # None ~> lock = None
=============================================================================
