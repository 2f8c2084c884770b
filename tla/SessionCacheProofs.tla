------------------------- MODULE SessionCacheProofs -------------------------
(* The session cache counts its references exactly, keeps its list and its   *)
(* table in step and stays within its size, for any number of threads,       *)
(* sessions and IDs.                                                         *)
(*                                                                           *)
(* None of the three is inductive: a step may take a session out of the      *)
(* table only if it is there, free a reference only if the thread holds it,  *)
(* and return to a place only with the session that place needs.  Inv adds   *)
(* what the local variables of a thread mean at each point of the code.      *)
EXTENDS SessionCache, FiniteSetTheorems, SequenceTheorems, TLAPS

USE CacheAssumption

MaySession == Session \cup {None}

(* Where the thread goes on after adding or removing a session. *)
After == {"idle", "new_cb", "close", "check", "discard"}

Holding == {"evict", "evict_cb", "evict_free", "flush", "flush_cb", "flush_free"}
Removing == {"evict_cb", "evict_free", "remove_cb", "remove_free", "flush_cb", "flush_free"}
Inside == {"add", "insert", "remove", "remove_cb", "remove_free", "evict", "evict_cb", "evict_free"}

PC == After \cup {"handshake"} \cup Holding \cup Removing \cup Inside

Object == [live : BOOLEAN, refs : Nat, id : Id \cup {None}]

State == [pc : PC, sess : MaySession, tmp : MaySession, c : MaySession, r : MaySession,
          todo : SUBSET (Id \X Session), next : After]

Types ==
    /\ heap \in [Session -> Object]
    /\ sessions \in SUBSET (Id \X Session)
    /\ list \in Seq(Session)
    /\ lock \in Thread \cup {None} /\ ext \in SUBSET Session
    /\ th \in [Thread -> State]

(* The place a thread is at, or will return to. *)
Place(x) == IF x.pc \in Inside THEN x.next ELSE x.pc

(* What a thread has at the places of its code. *)
Local(x) ==
    /\ x.pc \in {"add", "insert", "remove"} => x.c # None /\ x.c \in {x.sess, x.tmp}
    /\ x.pc \in Removing <=> x.r # None
    /\ Place(x) \in {"handshake", "new_cb", "close"} => x.sess # None
    /\ Place(x) \in {"check", "discard"} <=> x.tmp # None
    /\ x.tmp # None => x.sess = None
    /\ x.pc \notin Inside => x.next = "idle"
    /\ x.pc \in {"flush", "flush_cb", "flush_free"} \/ x.todo = {}

Locals == \A t \in Thread : Local(th[t])

(* The lock, and that the walk of a flush sees the table as it is. *)
Locked ==
    /\ \A t \in Thread : th[t].pc \in Holding <=> lock = t
    /\ \A t \in Thread : th[t].todo \subseteq sessions

Exact(h, H) ==
    /\ IsFiniteSet(H)
    /\ h.refs = Cardinality(H)
    /\ h.live <=> H # {}

Counted == \A c \in Session : Exact(heap[c], Holders(c))

(* A cached session is found under its ID, and there is one for each ID. *)
Table ==
    /\ IsFiniteSet(sessions)
    /\ \A e \in sessions : heap[e[2]].id = e[1]
    /\ \A e, f \in sessions : e[1] = f[1] => e = f
    /\ \A c \in Session : heap[c].live => heap[c].id \in Id

Distinct(l) == \A i, j \in 1 .. Len(l) : l[i] = l[j] => i = j

Listed ==
    /\ Distinct(list)
    /\ ToSet(list) = {e[2] : e \in sessions}
    /\ Len(list) = Cardinality(sessions)

Evicting(x) == x.pc \in {"evict", "evict_cb", "evict_free"}

Bounded == (\A t \in Thread : ~Evicting(th[t])) => Cardinality(sessions) <= CacheSize

Inv == Types /\ Locals /\ Locked /\ Counted /\ Table /\ Listed /\ Bounded

-----------------------------------------------------------------------------
(* The list of the cache. *)

(* What is in a sequence. *)
LEMMA Members ==
    ASSUME NEW l \in Seq(Session)
    PROVE  /\ Len(l) \in Nat
           /\ \A d : d \in ToSet(l) <=> \E i \in 1 .. Len(l) : d = l[i]
           /\ \A i \in 1 .. Len(l) : l[i] \in ToSet(l) /\ l[i] \in Session
<1>1. DOMAIN l = 1 .. Len(l) /\ Len(l) \in Nat
  OBVIOUS
<1> QED BY <1>1 DEF ToSet

(* Unlinking leaves the other sessions, each once. *)
LEMMA ListRemove ==
    ASSUME NEW l \in Seq(Session), NEW c, Distinct(l)
    PROVE  LET m == SSL_SESSION_list_remove(l, c)
           IN  /\ m \in Seq(Session) /\ Distinct(m)
               /\ ToSet(m) = ToSet(l) \ {c}
               /\ Len(m) = IF c \in ToSet(l) THEN Len(l) - 1 ELSE Len(l)
<1> DEFINE m == SSL_SESSION_list_remove(l, c)
<1>1. CASE c \notin ToSet(l)
  BY <1>1 DEF SSL_SESSION_list_remove
<1>2. CASE c \in ToSet(l)
  <2> DEFINE k == CHOOSE i \in DOMAIN l : l[i] = c
  <2>1. k \in 1 .. Len(l) /\ l[k] = c
    BY <1>2 DEF ToSet
  <2>2. m = SubSeq(l, 1, k - 1) \o SubSeq(l, k + 1, Len(l))
    BY <1>2 DEF SSL_SESSION_list_remove, RemoveAt
  <2> HIDE DEF k
  <2>3. /\ m \in Seq(Session) /\ Len(m) = Len(l) - 1
        /\ \A i \in 1 .. Len(m) : m[i] = IF i < k THEN l[i] ELSE l[i + 1]
    <3> DEFINE a == SubSeq(l, 1, k - 1)
               b == SubSeq(l, k + 1, Len(l))
    <3>1. a \in Seq(Session) /\ Len(a) = k - 1 /\ \A i \in 1 .. k - 1 : a[i] = l[i]
      BY <2>1
    <3>2. /\ b \in Seq(Session) /\ Len(b) = Len(l) - k
          /\ \A i \in 1 .. Len(l) - k : b[i] = l[i + k]
      BY <2>1
    <3>3. m = a \o b
      BY <2>2
    <3> HIDE DEF a, b, m
    <3>4. m \in Seq(Session) /\ Len(m) = Len(l) - 1
      <4>1. m \in Seq(Session) /\ Len(m) = Len(a) + Len(b)
        BY <3>1, <3>2, <3>3, ConcatProperties
      <4>2. k \in Int /\ Len(l) \in Int
        BY <2>1, Members
      <4> QED BY <3>1, <3>2, <4>1, <4>2
    <3>5. ASSUME NEW i \in 1 .. Len(m)
          PROVE  m[i] = IF i < k THEN l[i] ELSE l[i + 1]
      <4>1. CASE i < k
        BY <2>1, <3>1, <3>2, <3>3, <3>4, <4>1
      <4>2. CASE i >= k
        <5>1. i - (k - 1) \in 1 .. Len(l) - k /\ m[i] = b[i - (k - 1)]
          BY <2>1, <3>1, <3>2, <3>3, <3>4, <4>2
        <5>2. b[i - (k - 1)] = l[i - (k - 1) + k]
          BY <3>2, <5>1
        <5> QED BY <2>1, <3>4, <4>2, <5>1, <5>2
      <4> QED BY <2>1, <3>4, <4>1, <4>2
    <3> QED BY <3>4, <3>5
  <2> HIDE DEF m
  <2>4. Distinct(m)
    BY <2>1, <2>3 DEF Distinct
  <2>5. ASSUME NEW i \in 1 .. Len(m) PROVE m[i] \in ToSet(l) \ {c}
    <3>1. CASE i < k
      BY <2>1, <2>3, <3>1 DEF ToSet, Distinct
    <3>2. CASE i >= k
      <4>1. i + 1 \in 1 .. Len(l) /\ i + 1 # k
        BY <2>1, <2>3, <3>2
      <4>2. m[i] = l[i + 1]
        BY <2>1, <2>3, <3>2
      <4> QED BY <2>1, <4>1, <4>2 DEF ToSet, Distinct
    <3> QED BY <2>1, <2>3, <3>1, <3>2
  <2>6. ASSUME NEW d \in ToSet(l) \ {c} PROVE d \in ToSet(m)
    <3>1. PICK i \in 1 .. Len(l) : l[i] = d
      BY DEF ToSet
    <3>2. i # k
      BY <2>1, <3>1
    <3>3. CASE i < k
      BY <2>1, <2>3, <3>1, <3>3 DEF ToSet
    <3>4. CASE i > k
      <4>1. i - 1 \in 1 .. Len(m) /\ m[i - 1] = l[i]
        BY <2>1, <2>3, <3>4
      <4> QED BY <2>3, <3>1, <4>1 DEF ToSet
    <3> QED BY <2>1, <3>2, <3>3, <3>4
  <2>7. ToSet(m) \subseteq ToSet(l) \ {c}
    BY <2>3, <2>5 DEF ToSet
  <2> QED BY <1>2, <2>3, <2>4, <2>6, <2>7 DEF m
<1> QED BY <1>1, <1>2

(* A session is put first, from wherever it was. *)
LEMMA ListAdd ==
    ASSUME NEW l \in Seq(Session), NEW c \in Session, Distinct(l)
    PROVE  LET m == SSL_SESSION_list_add(l, c)
           IN  /\ m \in Seq(Session) /\ Distinct(m)
               /\ ToSet(m) = ToSet(l) \cup {c}
               /\ Len(m) = IF c \in ToSet(l) THEN Len(l) ELSE Len(l) + 1
<1> DEFINE r == SSL_SESSION_list_remove(l, c)
           m == <<c>> \o r
<1>1. /\ r \in Seq(Session) /\ Distinct(r)
      /\ ToSet(r) = ToSet(l) \ {c}
      /\ Len(r) = IF c \in ToSet(l) THEN Len(l) - 1 ELSE Len(l)
  BY ListRemove
<1> HIDE DEF r
<1>2. /\ m \in Seq(Session) /\ Len(m) = Len(r) + 1
      /\ m[1] = c
      /\ \A i \in 1 .. Len(r) : m[i + 1] = r[i]
  BY <1>1
<1> HIDE DEF m
<1>3. \A i \in 1 .. Len(m) : i = 1 \/ (i - 1 \in 1 .. Len(r) /\ m[i] = r[i - 1])
  BY <1>1, <1>2
<1>4. \A i \in 1 .. Len(r) : r[i] # c /\ r[i] \in ToSet(r)
  BY <1>1, Members
<1>5. Distinct(m)
  <2> SUFFICES ASSUME NEW i \in 1 .. Len(m), NEW j \in 1 .. Len(m), m[i] = m[j]
               PROVE  i = j
    BY DEF Distinct
  <2>1. CASE i = 1 \/ j = 1
    BY <1>2, <1>3, <1>4, <2>1
  <2>2. CASE i # 1 /\ j # 1
    <3>1. i - 1 \in 1 .. Len(r) /\ j - 1 \in 1 .. Len(r) /\ r[i - 1] = r[j - 1]
      BY <1>3, <2>2
    <3>2. i - 1 = j - 1
      BY <1>1, <3>1 DEF Distinct
    <3> QED BY <3>2
  <2> QED BY <2>1, <2>2
<1>6. ToSet(m) = ToSet(r) \cup {c}
  <2>1. ASSUME NEW d \in ToSet(m) PROVE d \in ToSet(r) \cup {c}
    <3>1. PICK i \in 1 .. Len(m) : d = m[i]
      BY <1>2, Members
    <3> QED BY <3>1, <1>2, <1>3, <1>4
  <2>2. ASSUME NEW d \in ToSet(r) \cup {c} PROVE d \in ToSet(m)
    <3>1. CASE d = c
      <4>1. 1 \in 1 .. Len(m)
        BY <1>1, <1>2, Members
      <4> QED BY <1>2, <3>1, <4>1, Members
    <3>2. CASE d # c
      <4>1. PICK i \in 1 .. Len(r) : d = r[i]
        BY <1>1, <3>2, Members
      <4>2. i + 1 \in 1 .. Len(m) /\ m[i + 1] = d
        BY <1>1, <1>2, <4>1
      <4> QED BY <1>2, <4>2, Members
    <3> QED BY <3>1, <3>2
  <2> QED BY <2>1, <2>2
<1> QED BY <1>1, <1>2, <1>5, <1>6 DEF SSL_SESSION_list_add, r, m

(* The tail is in the list, and nowhere in what is left without it. *)
LEMMA ListTail ==
    ASSUME NEW l \in Seq(Session), Distinct(l), Len(l) > 0
    PROVE  /\ Last(l) \in ToSet(l) /\ Last(l) \in Session
           /\ Front(l) \in Seq(Session) /\ Distinct(Front(l))
           /\ ToSet(Front(l)) = ToSet(l) \ {Last(l)}
           /\ Len(Front(l)) = Len(l) - 1
<1> DEFINE n == Len(l)
           m == SubSeq(l, 1, n - 1)
<1>0. n \in Nat /\ n > 0 /\ Front(l) = m /\ Last(l) = l[n]
  BY DEF Front, Last
<1> HIDE DEF n
<1>1. m \in Seq(Session) /\ Len(m) = n - 1 /\ \A i \in 1 .. n - 1 : m[i] = l[i]
  <2>1. \A i \in 1 .. n - 1 : l[i] \in Session
    BY <1>0, Members DEF n
  <2> QED BY <1>0, <2>1, SubSeqProperties
<1> HIDE DEF m
<1>2. n \in 1 .. n /\ l[n] \in ToSet(l) /\ l[n] \in Session
  BY <1>0, Members DEF n
<1>3. Distinct(m)
  BY <1>0, <1>1 DEF Distinct, n
<1>4. ASSUME NEW d PROVE d \in ToSet(m) <=> d \in ToSet(l) /\ d # l[n]
  <2>1. d \in ToSet(m) <=> \E i \in 1 .. n - 1 : d = l[i]
    <3>1. d \in ToSet(m) <=> \E i \in 1 .. Len(m) : d = m[i]
      BY <1>1, Members
    <3> QED BY <1>1, <3>1
  <2>2. d \in ToSet(l) <=> \E i \in 1 .. n : d = l[i]
    BY Members DEF n
  <2>3. \A i \in 1 .. n : l[i] = l[n] => i = n
    BY <1>0, <1>2 DEF Distinct, n
  <2> QED BY <1>0, <2>1, <2>2, <2>3
<1> QED BY <1>0, <1>1, <1>2, <1>3, <1>4 DEF n

-----------------------------------------------------------------------------
(* Reference counts. *)

(* The objects g are the objects h but for the count of c. *)
Changes(h, g, c) ==
    /\ g \in [Session -> Object]
    /\ \A d \in Session : d # c => g[d] = h[d]
    /\ \A d \in Session : g[d].live => h[d].live /\ g[d].id = h[d].id

(* A user more: SSL_SESSION_up_ref of a session that has users. *)
LEMMA UpRef ==
    ASSUME NEW h \in [Session -> Object], NEW c \in Session, NEW H, NEW x, NEW g,
           Exact(h[c], H), H # {}, x \notin H, g = SSL_SESSION_up_ref(h, c)
    PROVE  Changes(h, g, c) /\ Exact(g[c], H \cup {x})
<1>1. IsFiniteSet(H \cup {x}) /\ Cardinality(H \cup {x}) = Cardinality(H) + 1
  BY FS_AddElement DEF Exact
<1>2. Cardinality(H) \in Nat
  BY FS_CardinalityType DEF Exact
<1> QED BY <1>1, <1>2 DEF Changes, Exact, SSL_SESSION_up_ref, Object

(* A user less: SSL_SESSION_free of a session that has users. *)
LEMMA FreeRef ==
    ASSUME NEW h \in [Session -> Object], NEW c \in Session, NEW H, NEW x, NEW g,
           Exact(h[c], H), x \in H, g = SSL_SESSION_free(h, c)
    PROVE  Changes(h, g, c) /\ Exact(g[c], H \ {x})
<1>1. IsFiniteSet(H \ {x}) /\ Cardinality(H \ {x}) = Cardinality(H) - 1
  BY FS_RemoveElement DEF Exact
<1>2. Cardinality(H) \in Nat /\ Cardinality(H \ {x}) \in Nat
  BY <1>1, FS_CardinalityType DEF Exact
<1>3. Cardinality(H \ {x}) = 0 <=> H \ {x} = {}
  BY <1>1, FS_EmptySet
<1>4. c # None
  OBVIOUS
<1>5. CASE h[c].refs > 1
  BY <1>1, <1>2, <1>3, <1>4, <1>5 DEF Changes, Exact, SSL_SESSION_free, Object
<1>6. CASE ~(h[c].refs > 1)
  <2>1. h[c].refs = 1
    BY <1>1, <1>2, <1>6 DEF Exact
  <2> DEFINE u == [Unused EXCEPT !.refs = h[c].refs - 1]
  <2>2. u \in Object /\ ~u.live /\ u.refs = 0
    <3>1. PICK n \in Nat : n = h[c].refs - 1 /\ n = 0
      BY <2>1
    <3> QED BY <3>1 DEF Unused, Object
  <2>3. SSL_SESSION_free(h, c) = [h EXCEPT ![c] = u]
    BY <1>4, <1>6 DEF SSL_SESSION_free
  <2>4. H \ {x} = {} /\ Cardinality(H \ {x}) = 0
    BY <1>1, <1>2, <1>3, <2>1 DEF Exact
  <2> HIDE DEF u
  <2> QED BY <1>1, <2>2, <2>3, <2>4 DEF Changes, Exact
<1> QED BY <1>5, <1>6

(* A user hands its reference over to another. *)
LEMMA HandOver ==
    ASSUME NEW o, NEW H, NEW x, NEW y, Exact(o, H), x \in H, y \notin H
    PROVE  Exact(o, (H \ {x}) \cup {y})
<1>1. IsFiniteSet(H \ {x}) /\ Cardinality(H \ {x}) = Cardinality(H) - 1
  BY FS_RemoveElement DEF Exact
<1>2. Cardinality(H) \in Nat
  BY FS_CardinalityType DEF Exact
<1>3. /\ IsFiniteSet((H \ {x}) \cup {y})
      /\ Cardinality((H \ {x}) \cup {y}) = Cardinality(H \ {x}) + 1
  BY <1>1, FS_AddElement
<1> QED BY <1>1, <1>2, <1>3 DEF Exact

(* A session in use is alive, and what is in the cache is in use. *)
LEMMA InUse ==
    ASSUME Counted, NEW c \in Session
    PROVE  heap[c].live <=> Holders(c) # {}
  BY DEF Counted, Exact

LEMMA CachedAlive ==
    ASSUME Counted, sessions \in SUBSET (Id \X Session), NEW e \in sessions
    PROVE  heap[e[2]].live
<1>1. <<"cache", e>> \in Holders(e[2])
  BY DEF Holders
<1>2. e[2] \in Session
  OBVIOUS
<1> QED BY <1>1, <1>2, InUse

(* The same for the whole state: one session has a user more, or one less. *)
LEMMA Gains ==
    ASSUME Types, Counted, NEW c \in Session, NEW x,
           heap' = SSL_SESSION_up_ref(heap, c), Holders(c) # {}, x \notin Holders(c),
           Holders(c)' = Holders(c) \cup {x},
           \A d \in Session : d # c => Holders(d)' = Holders(d)
    PROVE  Changes(heap, heap', c) /\ Counted'
<1>1. Exact(heap[c], Holders(c)) /\ heap \in [Session -> Object]
  BY DEF Types, Counted
<1>2. Changes(heap, heap', c) /\ Exact(heap'[c], Holders(c) \cup {x})
  BY <1>1, UpRef
<1> QED BY <1>2 DEF Counted, Changes

LEMMA Loses ==
    ASSUME Types, Counted, NEW c \in Session, NEW x \in Holders(c),
           heap' = SSL_SESSION_free(heap, c),
           Holders(c)' = Holders(c) \ {x},
           \A d \in Session : d # c => Holders(d)' = Holders(d)
    PROVE  Changes(heap, heap', c) /\ Counted'
<1>1. Exact(heap[c], Holders(c)) /\ heap \in [Session -> Object]
  BY DEF Types, Counted
<1>2. Changes(heap, heap', c) /\ Exact(heap'[c], Holders(c) \ {x})
  BY <1>1, FreeRef
<1> QED BY <1>2 DEF Counted, Changes

LEMMA Swaps ==
    ASSUME Types, Counted, NEW c \in Session, NEW x \in Holders(c), NEW y,
           heap' = heap, y \notin Holders(c),
           Holders(c)' = (Holders(c) \ {x}) \cup {y},
           \A d \in Session : d # c => Holders(d)' = Holders(d)
    PROVE  Counted'
<1>1. Exact(heap[c], Holders(c))
  BY DEF Counted
<1>2. Exact(heap[c], (Holders(c) \ {x}) \cup {y})
  BY <1>1, HandOver
<1> QED BY <1>2 DEF Counted

(* Only a session that was not in use gets another ID. *)
NamesKept ==
    \A d \in Session : heap'[d].live =>
        IF heap[d].live THEN heap'[d].id = heap[d].id ELSE heap'[d].id \in Id

LEMMA Creates ==
    ASSUME Types, Counted, NEW c \in Session, NEW id \in Id, NEW x,
           heap' = SSL_SESSION_new(c, id), ~heap[c].live,
           Holders(c)' = Holders(c) \cup {x},
           \A d \in Session : d # c => Holders(d)' = Holders(d)
    PROVE  /\ heap' \in [Session -> Object] /\ Counted'
           /\ NamesKept
<1>1. Holders(c) = {}
  BY InUse
<1>2. /\ heap' \in [Session -> Object] /\ heap'[c].live /\ heap'[c].refs = 1
      /\ \A d \in Session : d # c => heap'[d] = heap[d]
  BY DEF Types, SSL_SESSION_new, Object
<1>3. Exact(heap'[c], {x})
  BY <1>2, FS_Singleton DEF Exact
<1>4. heap'[c].id \in Id
  BY DEF Types, SSL_SESSION_new
<1> QED BY <1>1, <1>2, <1>3, <1>4 DEF Counted, NamesKept

(* Only thread t moves, to the state y. *)
Moves(t, y) ==
    /\ th' \in [Thread -> State]
    /\ th'[t] = y
    /\ \A u \in Thread : u # t => th'[u] = th[u]

(* The users of a session that are not threads, and one thread as a user. *)
Store(c) == {<<"cache", e>> : e \in {f \in sessions : f[2] = c}}
            \cup {<<"application", d>> : d \in ext \cap {c}}

Own(x, t, c) ==
    {k \in {<<"connection", t>>, <<"lookup", t>>, <<"insertion", t>>, <<"removal", t>>} :
        \/ k = <<"connection", t>> /\ x.sess = c
        \/ k = <<"lookup", t>> /\ x.tmp = c
        \/ k = <<"insertion", t>> /\ x.c = c /\ x.pc = "insert"
        \/ k = <<"removal", t>> /\ x.r = c}

(* Only what the thread or the store does changes the users. *)
LEMMA HoldersMove ==
    ASSUME NEW t \in Thread, NEW y, Moves(t, y), NEW c
    PROVE  /\ Own(th[t], t, c) \subseteq Holders(c) /\ Store(c) \subseteq Holders(c)
           /\ Holders(c)' = (Holders(c) \ (Own(th[t], t, c) \cup Store(c)))
                                \cup Own(y, t, c) \cup Store(c)'
<1>1. ASSUME NEW u \in Thread
      PROVE  /\ <<"connection", u>> \in Holders(c) <=> th[u].sess = c
             /\ <<"lookup", u>> \in Holders(c) <=> th[u].tmp = c
             /\ <<"insertion", u>> \in Holders(c) <=> th[u].c = c /\ th[u].pc = "insert"
             /\ <<"removal", u>> \in Holders(c) <=> th[u].r = c
             /\ <<"connection", u>> \in Holders(c)' <=> th'[u].sess = c
             /\ <<"lookup", u>> \in Holders(c)' <=> th'[u].tmp = c
             /\ <<"insertion", u>> \in Holders(c)' <=> th'[u].c = c /\ th'[u].pc = "insert"
             /\ <<"removal", u>> \in Holders(c)' <=> th'[u].r = c
  BY DEF Holders
<1>2. ASSUME NEW k
      PROVE  (k \in Holders(c) \/ k \in Holders(c)') =>
                 \/ k \in Store(c) \/ k \in Store(c)'
                 \/ \E u \in Thread : k \in {<<"connection", u>>, <<"lookup", u>>,
                                               <<"insertion", u>>, <<"removal", u>>}
  BY DEF Holders, Store
<1>3. Store(c) \subseteq Holders(c) /\ Store(c)' \subseteq Holders(c)'
  BY DEF Store, Holders
<1>4. ASSUME NEW u \in Thread,
             NEW k \in {<<"connection", u>>, <<"lookup", u>>, <<"insertion", u>>, <<"removal", u>>}
      PROVE  k \notin Store(c) /\ k \notin Store(c)'
  BY DEF Store
<1>5. ASSUME NEW k, k \in Store(c) \/ k \in Store(c)'
      PROVE  k \in Holders(c) <=> k \in Store(c)
  BY <1>5 DEF Store, Holders
<1>6. ASSUME NEW k, k \in Store(c) \/ k \in Store(c)'
      PROVE  k \in Holders(c)' <=> k \in Store(c)'
  BY <1>6 DEF Store, Holders
<1>7. Own(th[t], t, c) \subseteq Holders(c)
  BY <1>1 DEF Own
<1>8. ASSUME NEW k
      PROVE  k \in Holders(c)' <=> \/ k \in Holders(c) /\ k \notin Own(th[t], t, c) /\ k \notin Store(c)
                                   \/ k \in Own(y, t, c) \/ k \in Store(c)'
  <2>1. CASE k \in Store(c) \/ k \in Store(c)'
    <3>1. k \notin Own(y, t, c)
      BY <1>4, <2>1 DEF Own
    <3> QED BY <1>5, <1>6, <2>1, <3>1
  <2>2. ASSUME k \notin Store(c), k \notin Store(c)', NEW u \in Thread,
               k \in {<<"connection", u>>, <<"lookup", u>>, <<"insertion", u>>, <<"removal", u>>}
        PROVE  k \in Holders(c)' <=> \/ k \in Holders(c) /\ k \notin Own(th[t], t, c)
                                     \/ k \in Own(y, t, c)
    <3>1. CASE u = t
      BY <1>1, <2>2, <3>1 DEF Own, Moves
    <3>2. CASE u # t
      BY <1>1, <2>2, <3>2, ZenonT(40) DEF Own, Moves
    <3> QED BY <3>1, <3>2
  <2>3. CASE k \notin Holders(c) /\ k \notin Holders(c)'
    <3>1. CASE k \in Own(y, t, c)
      <4>1. k \in {<<"connection", t>>, <<"lookup", t>>, <<"insertion", t>>, <<"removal", t>>}
        BY <3>1 DEF Own
      <4> QED BY <1>1, <2>3, <3>1, <4>1 DEF Own, Moves
    <3> QED BY <1>3, <2>3, <3>1
  <2> QED BY <1>2, <2>1, <2>2, <2>3
<1> QED BY <1>3, <1>7, <1>8

(* A step of a thread that leaves the table, the list and the lock alone. *)
LEMMA ThreadStep ==
    ASSUME Inv, Types', Counted', UNCHANGED <<sessions, list, lock>>,
           NEW t \in Thread, NEW y, Moves(t, y), Local(y),
           y.pc \in Holding <=> th[t].pc \in Holding,
           Evicting(y) <=> Evicting(th[t]), y.todo = th[t].todo,
           NamesKept
    PROVE  Inv'
<1> USE DEF Inv
<1>t. th'[t] = y /\ \A u \in Thread : u # t => th'[u] = th[u]
  BY DEF Moves
<1>1. Locals'
  BY <1>t DEF Locals
<1>2. Locked'
  BY <1>t DEF Locked
<1>3. Table'
  <2>1. ASSUME NEW e \in sessions PROVE heap'[e[2]].id = e[1]
    <3>1. heap[e[2]].live
      BY CachedAlive DEF Types
    <3>2. <<"cache", e>> \in Holders(e[2])' /\ e[2] \in Session
      BY DEF Holders, Types
    <3>3. heap'[e[2]].live
      BY <3>2 DEF Counted, Exact
    <3> QED BY <3>1, <3>2, <3>3 DEF Table, NamesKept
  <2>2. \A c \in Session : heap'[c].live => heap'[c].id \in Id
    BY DEF Table, NamesKept
  <2> QED BY <2>1, <2>2 DEF Table
<1>4. Listed'
  BY DEF Listed
<1>5. Bounded'
  BY <1>t DEF Bounded
<1> QED BY <1>1, <1>2, <1>3, <1>4, <1>5

(* Thread t moves to y and leaves the table, the list and the lock alone. *)
Steady(t, y) ==
    /\ Moves(t, y) /\ Local(y) /\ y.todo = th[t].todo
    /\ y.pc \in Holding <=> th[t].pc \in Holding
    /\ Evicting(y) <=> Evicting(th[t])
    /\ UNCHANGED <<sessions, list, lock>>
    /\ ext' \in SUBSET Session

(* The users of c a step of thread t can change. *)
Users(t, c) == Own(th[t], t, c) \cup Store(c)

LEMMA UsersMove ==
    ASSUME NEW t \in Thread, NEW y, Moves(t, y), NEW c
    PROVE  /\ Users(t, c) \subseteq Holders(c)
           /\ Holders(c)' = (Holders(c) \ Users(t, c)) \cup Users(t, c)'
<1>1. Own(th'[t], t, c) = Own(y, t, c)
  BY DEF Moves
<1> QED BY <1>1, HoldersMove DEF Users

LEMMA StayStep ==
    ASSUME Inv, NEW t \in Thread, NEW y, Steady(t, y), heap' = heap,
           \A d \in Session : Users(t, d)' = Users(t, d)
    PROVE  Inv'
<1>0. Moves(t, y)
  BY DEF Steady
<1>1. ASSUME NEW d \in Session PROVE Holders(d)' = Holders(d)
  <2>1. /\ Users(t, d) \subseteq Holders(d)
        /\ Holders(d)' = (Holders(d) \ Users(t, d)) \cup Users(t, d)'
    BY <1>0, UsersMove
  <2>2. Users(t, d)' = Users(t, d)
    OBVIOUS
  <2> QED BY <2>1, <2>2
<1>2. Types' /\ Counted'
  BY <1>1 DEF Inv, Types, Counted, Steady, Moves
<1> QED BY <1>2, ThreadStep DEF Steady, NamesKept, Inv, Table

LEMMA GainStep ==
    ASSUME Inv, NEW t \in Thread, NEW y, Steady(t, y),
           NEW c \in Session, NEW k, k \notin Holders(c), Holders(c) # {},
           heap' = SSL_SESSION_up_ref(heap, c),
           Users(t, c)' = Users(t, c) \cup {k},
           \A d \in Session : d # c => Users(t, d)' = Users(t, d)
    PROVE  Inv'
<1>0. Moves(t, y)
  BY DEF Steady
<1>1. ASSUME NEW d \in Session, d # c PROVE Holders(d)' = Holders(d)
  <2>1. /\ Users(t, d) \subseteq Holders(d)
        /\ Holders(d)' = (Holders(d) \ Users(t, d)) \cup Users(t, d)'
    BY <1>0, UsersMove
  <2>2. Users(t, d)' = Users(t, d)
    BY <1>1
  <2> QED BY <2>1, <2>2
<1>2. Holders(c)' = Holders(c) \cup {k}
  BY UsersMove DEF Steady
<1>3. Changes(heap, heap', c) /\ Counted'
  BY <1>1, <1>2, Gains DEF Inv
<1>4. Types'
  BY <1>3 DEF Inv, Types, Steady, Moves, Changes
<1> QED BY <1>3, <1>4, ThreadStep DEF Steady, Changes, NamesKept

LEMMA LoseStep ==
    ASSUME Inv, NEW t \in Thread, NEW y, Steady(t, y),
           NEW c \in Session, NEW k \in Users(t, c),
           heap' = SSL_SESSION_free(heap, c),
           Users(t, c)' = Users(t, c) \ {k},
           \A d \in Session : d # c => Users(t, d)' = Users(t, d)
    PROVE  Inv'
<1>0. Moves(t, y)
  BY DEF Steady
<1>1. ASSUME NEW d \in Session, d # c PROVE Holders(d)' = Holders(d)
  <2>1. /\ Users(t, d) \subseteq Holders(d)
        /\ Holders(d)' = (Holders(d) \ Users(t, d)) \cup Users(t, d)'
    BY <1>0, UsersMove
  <2>2. Users(t, d)' = Users(t, d)
    BY <1>1
  <2> QED BY <2>1, <2>2
<1>2. Holders(c)' = Holders(c) \ {k} /\ k \in Holders(c)
  BY UsersMove DEF Steady
<1>3. Changes(heap, heap', c) /\ Counted'
  BY <1>1, <1>2, Loses DEF Inv
<1>4. Types'
  BY <1>3 DEF Inv, Types, Steady, Moves, Changes
<1> QED BY <1>3, <1>4, ThreadStep DEF Steady, Changes, NamesKept

LEMMA SwapStep ==
    ASSUME Inv, NEW t \in Thread, NEW y, Steady(t, y), heap' = heap,
           NEW c \in Session, NEW k \in Users(t, c), NEW n, n \notin Holders(c),
           Users(t, c)' = (Users(t, c) \ {k}) \cup {n},
           \A d \in Session : d # c => Users(t, d)' = Users(t, d)
    PROVE  Inv'
<1>0. Moves(t, y)
  BY DEF Steady
<1>1. ASSUME NEW d \in Session, d # c PROVE Holders(d)' = Holders(d)
  <2>1. /\ Users(t, d) \subseteq Holders(d)
        /\ Holders(d)' = (Holders(d) \ Users(t, d)) \cup Users(t, d)'
    BY <1>0, UsersMove
  <2>2. Users(t, d)' = Users(t, d)
    BY <1>1
  <2> QED BY <2>1, <2>2
<1>2. Holders(c)' = (Holders(c) \ {k}) \cup {n} /\ k \in Holders(c)
  BY UsersMove DEF Steady
<1>3. Counted'
  BY <1>1, <1>2, Swaps DEF Inv
<1>4. Types'
  BY DEF Inv, Types, Steady, Moves
<1> QED BY <1>3, <1>4, ThreadStep DEF Steady, NamesKept, Inv, Table

-----------------------------------------------------------------------------
(* The steps that leave the cache alone. *)

(* A call of SSL_CTX_add_session or SSL_CTX_remove_session begins. *)
LEMMA CallStep ==
    ASSUME Inv, NEW t \in Thread, NEW pc \in {"add", "remove"}, NEW c \in Session, NEW next \in After,
           Call(t, pc, c, next), UNCHANGED <<heap, sessions, list, lock, ext>>,
           th[t].pc \in {"idle", "handshake", "check"}, c \in {th[t].sess, th[t].tmp},
           next \in {"check", "discard"} <=> th[t].tmp # None,
           next \in {"new_cb", "close"} => th[t].sess # None
    PROVE  Inv'
<1>0. Types /\ Locals /\ Counted
  BY DEF Inv
<1>1. PICK y \in State :
          /\ Moves(t, y) /\ Local(y)
          /\ y.pc = pc /\ y.sess = th[t].sess /\ y.tmp = th[t].tmp /\ y.c = c
          /\ y.r = th[t].r /\ y.todo = th[t].todo /\ y.next = next
  <2> DEFINE y == [th[t] EXCEPT !.pc = pc, !.c = c, !.next = next]
  <2>0. pc \in PC /\ c \in MaySession /\ next \in After
    BY <1>0 DEF PC, After, Inside, Holding, Removing, MaySession, Types, State
  <2>1. y \in State
    BY <1>0, <2>0, ZenonT(40) DEF Types, State
  <2>2. Moves(t, y)
    BY <1>0, <2>1 DEF Call, Types, Moves
  <2>3. /\ y.pc = pc /\ y.sess = th[t].sess /\ y.tmp = th[t].tmp /\ y.c = c
        /\ y.r = th[t].r /\ y.todo = th[t].todo /\ y.next = next
    BY <1>0 DEF Types, State
  <2> HIDE DEF y
  <2>4. Local(y)
    BY <1>0, <2>3 DEF Locals, Local, Place, Removing, Inside
  <2> QED BY <2>1, <2>2, <2>3, <2>4
<1>2. Steady(t, y)
  BY <1>0, <1>1 DEF Steady, Types, Evicting, Holding
<1>3. ASSUME NEW d \in Session PROVE Users(t, d)' = Users(t, d)
  BY <1>1 DEF Users, Own, Store, Moves
<1> QED BY <1>2, <1>3, StayStep

(* A thread goes on to a place for which it has what it needs. *)
LEMMA GotoStep ==
    ASSUME Inv, NEW t \in Thread, NEW pc \in {"close", "discard"},
           Goto(t, pc), UNCHANGED <<heap, sessions, list, lock, ext>>,
           th[t].pc \in {"idle", "handshake", "check"},
           pc = "discard" <=> th[t].tmp # None, pc = "close" => th[t].sess # None
    PROVE  Inv'
<1>0. Types /\ Locals /\ Counted
  BY DEF Inv
<1>1. PICK y \in State :
          /\ Moves(t, y) /\ Local(y)
          /\ y.pc = pc /\ y.sess = th[t].sess /\ y.tmp = th[t].tmp /\ y.c = th[t].c
          /\ y.r = th[t].r /\ y.todo = th[t].todo /\ y.next = th[t].next
  <2> DEFINE y == [th[t] EXCEPT !.pc = pc]
  <2>0. pc \in PC
    BY <1>0 DEF PC, After, Inside, Holding, Removing, MaySession, Types, State
  <2>1. y \in State
    BY <1>0, <2>0 DEF Types, State
  <2>2. Moves(t, y)
    BY <1>0, <2>1 DEF Goto, Types, Moves
  <2>3. /\ y.pc = pc /\ y.sess = th[t].sess /\ y.tmp = th[t].tmp /\ y.c = th[t].c
        /\ y.r = th[t].r /\ y.todo = th[t].todo /\ y.next = th[t].next
    BY <1>0 DEF Types, State
  <2> HIDE DEF y
  <2>4. Local(y)
    BY <1>0, <2>3 DEF Locals, Local, Place, Removing, Inside
  <2> QED BY <2>1, <2>2, <2>3, <2>4
<1>2. Steady(t, y)
  BY <1>0, <1>1 DEF Steady, Types, Evicting, Holding
<1>3. ASSUME NEW d \in Session PROVE Users(t, d)' = Users(t, d)
  BY <1>1 DEF Users, Own, Store, Moves
<1> QED BY <1>2, <1>3, StayStep

LEMMA HandshakeStep ==
    ASSUME Inv, NEW t \in Thread, Handshake(t)
    PROVE  Inv'
<1>0. Types /\ Locals /\ Counted
  BY DEF Inv
<1>1. /\ th[t].pc = "handshake" /\ th[t].sess \in Session /\ th[t].tmp = None
      /\ UNCHANGED <<heap, sessions, list, lock, ext>>
  BY <1>0 DEF Handshake, Types, State, MaySession, Locals, Local, Place, Inside
<1>2. CASE Call(t, "add", th[t].sess, "new_cb")
  BY <1>1, <1>2, CallStep DEF After
<1>3. CASE Call(t, "remove", th[t].sess, "close")
  BY <1>1, <1>3, CallStep DEF After
<1>4. CASE Goto(t, "close")
  BY <1>1, <1>4, GotoStep
<1> QED BY <1>2, <1>3, <1>4 DEF Handshake

LEMMA NewSessionCbStep ==
    ASSUME Inv, NEW t \in Thread, NewSessionCb(t)
    PROVE  Inv'
<1>0. Types /\ Locals /\ Counted
  BY DEF Inv
<1>2. th[t].pc = "new_cb" /\ UNCHANGED <<sessions, list, lock>>
  BY DEF NewSessionCb
<1>1. PICK y \in State :
          /\ Moves(t, y) /\ Local(y)
          /\ y.pc = "idle" /\ y.sess = th[t].sess /\ y.tmp = th[t].tmp /\ y.c = th[t].c
          /\ y.r = th[t].r /\ y.todo = th[t].todo /\ y.next = th[t].next
  <2> DEFINE y == [th[t] EXCEPT !.pc = "idle"]
  <2>0. "idle" \in PC
    BY <1>0, <1>2 DEF PC, After, Inside, Holding, Removing, MaySession, Types, State
  <2>1. y \in State
    BY <1>0, <2>0 DEF Types, State
  <2>2. Moves(t, y)
    BY <1>0, <1>2, <2>1 DEF NewSessionCb, Goto, Types, Moves
  <2>3. /\ y.pc = "idle" /\ y.sess = th[t].sess /\ y.tmp = th[t].tmp /\ y.c = th[t].c
        /\ y.r = th[t].r /\ y.todo = th[t].todo /\ y.next = th[t].next
    BY <1>0 DEF Types, State
  <2> HIDE DEF y
  <2>4. Local(y)
    BY <1>0, <1>2, <2>3 DEF Locals, Local, Place, Removing, Inside
  <2> QED BY <2>1, <2>2, <2>3, <2>4
<1>c. PICK c \in Session : c = th[t].sess
  BY <1>0, <1>2 DEF Types, State, MaySession, Locals, Local, Place, Inside
<1>3. ext' \in SUBSET Session => Steady(t, y)
  BY <1>0, <1>1, <1>2 DEF Steady, Evicting, Holding
<1>4. CASE UNCHANGED <<heap, ext>>
  <2>1. ASSUME NEW d \in Session PROVE Users(t, d)' = Users(t, d)
    BY <1>1, <1>2, <1>4 DEF Users, Own, Store, Moves
  <2> QED BY <1>0, <1>3, <1>4, <2>1, StayStep DEF Types
<1>5. CASE c \notin ext /\ heap' = SSL_SESSION_up_ref(heap, c) /\ ext' = ext \cup {c}
  <2>1. Users(t, c)' = Users(t, c) \cup {<<"application", c>>}
    BY <1>1, <1>2, <1>5 DEF Users, Own, Store, Moves
  <2>2. ASSUME NEW d \in Session, d # c PROVE Users(t, d)' = Users(t, d)
    BY <1>1, <1>2, <1>5, <2>2 DEF Users, Own, Store, Moves
  <2>3. Holders(c) # {} /\ <<"application", c>> \notin Holders(c)
    BY <1>c, <1>5 DEF Holders
  <2>4. Steady(t, y)
    BY <1>0, <1>3, <1>5 DEF Types
  <2> QED BY <1>5, <2>1, <2>2, <2>3, <2>4, GainStep
<1> QED BY <1>c, <1>4, <1>5 DEF NewSessionCb

(* A step outside of the threads. *)
LEMMA OutsideStep ==
    ASSUME Inv, Types', Counted', UNCHANGED <<sessions, list, lock, th>>, NamesKept
    PROVE  Inv'
<1>1. Table'
  <2>1. ASSUME NEW e \in sessions PROVE heap'[e[2]].id = e[1]
    <3>1. heap[e[2]].live
      BY CachedAlive DEF Inv, Types
    <3>2. <<"cache", e>> \in Holders(e[2])' /\ e[2] \in Session
      BY DEF Holders, Inv, Types
    <3>3. heap'[e[2]].live
      BY <3>2 DEF Counted, Exact
    <3> QED BY <3>1, <3>2, <3>3 DEF Inv, Table, NamesKept
  <2>2. \A c \in Session : heap'[c].live => heap'[c].id \in Id
    BY DEF Inv, Table, NamesKept
  <2> QED BY <2>1, <2>2 DEF Inv, Table
<1> QED BY <1>1 DEF Inv, Locals, Locked, Listed, Bounded

LEMMA GetNewSessionStep ==
    ASSUME Inv, NEW t \in Thread, NEW c \in Session, NEW id \in Id, ssl_get_new_session(t, c, id)
    PROVE  Inv'
<1>0. Types /\ Locals /\ Counted
  BY DEF Inv
<1>2. /\ th[t].pc = "idle" /\ th[t].sess = None /\ th[t].tmp = None /\ ~heap[c].live
      /\ UNCHANGED <<sessions, list, lock, ext>> /\ heap' = SSL_SESSION_new(c, id)
  BY <1>0 DEF ssl_get_new_session, Fresh, Free, SSL_SESSION_free, Locals, Local, Place, Inside
<1>1. PICK y \in State :
          /\ Moves(t, y) /\ Local(y)
          /\ y.pc = "handshake" /\ y.sess = c /\ y.tmp = th[t].tmp /\ y.c = th[t].c
          /\ y.r = th[t].r /\ y.todo = th[t].todo /\ y.next = th[t].next
  <2> DEFINE y == [th[t] EXCEPT !.sess = c, !.pc = "handshake"]
  <2>0. c \in MaySession /\ "handshake" \in PC
    BY <1>0, <1>2 DEF PC, After, Inside, Holding, Removing, MaySession, Types, State
  <2>1. y \in State
    BY <1>0, <2>0 DEF Types, State
  <2>2. Moves(t, y)
    BY <1>0, <1>2, <2>1 DEF ssl_get_new_session, Types, Moves
  <2>3. /\ y.pc = "handshake" /\ y.sess = c /\ y.tmp = th[t].tmp /\ y.c = th[t].c
        /\ y.r = th[t].r /\ y.todo = th[t].todo /\ y.next = th[t].next
    BY <1>0 DEF Types, State
  <2> HIDE DEF y
  <2>4. Local(y)
    BY <1>0, <1>2, <2>3 DEF Locals, Local, Place, Removing, Inside
  <2> QED BY <2>1, <2>2, <2>3, <2>4
<1>3. Holders(c)' = Holders(c) \cup {<<"connection", t>>}
  <2>1. Users(t, c)' = Users(t, c) \cup {<<"connection", t>>}
    BY <1>1, <1>2 DEF Users, Own, Store, Moves
  <2> QED BY <1>1, <2>1, UsersMove
<1>4. ASSUME NEW d \in Session, d # c PROVE Holders(d)' = Holders(d)
  <2>1. Users(t, d)' = Users(t, d)
    BY <1>1, <1>2, <1>4 DEF Users, Own, Store, Moves
  <2>2. /\ Users(t, d) \subseteq Holders(d)
        /\ Holders(d)' = (Holders(d) \ Users(t, d)) \cup Users(t, d)'
    BY <1>1, UsersMove
  <2> QED BY <2>1, <2>2
<1>5. heap' \in [Session -> Object] /\ Counted' /\ NamesKept
  BY <1>0, <1>2, <1>3, <1>4, Creates
<1>6. Types'
  BY <1>0, <1>1, <1>2, <1>5 DEF Types, Moves
<1> QED BY <1>1, <1>2, <1>5, <1>6, ThreadStep DEF Evicting, Holding

LEMMA FromCacheStep ==
    ASSUME Inv, NEW t \in Thread, NEW id \in Id, ssl_session_from_cache(t, id)
    PROVE  Inv'
<1>0. Types /\ Locals /\ Counted
  BY DEF Inv
<1>c. PICK c \in Session : c = lh_retrieve(id) /\ <<id, c>> \in sessions
  BY DEF ssl_session_from_cache, lh_retrieve, Retrieved
<1>2. /\ th[t].pc = "idle" /\ th[t].sess = None /\ th[t].tmp = None /\ c \in Session
      /\ UNCHANGED <<sessions, list, lock, ext>> /\ heap' = SSL_SESSION_up_ref(heap, c)
      /\ th' = [th EXCEPT ![t].tmp = c, ![t].pc = "check"]
  BY <1>0, <1>c DEF ssl_session_from_cache, Fresh, Free, Locals, Local, Place, Inside
<1>1. PICK y \in State :
          /\ Moves(t, y) /\ Local(y)
          /\ y.pc = "check" /\ y.sess = th[t].sess /\ y.tmp = c /\ y.c = th[t].c
          /\ y.r = th[t].r /\ y.todo = th[t].todo /\ y.next = th[t].next
  <2> DEFINE y == [th[t] EXCEPT !.tmp = c, !.pc = "check"]
  <2>0. c \in MaySession /\ "check" \in PC
    BY <1>0, <1>2 DEF PC, After, Inside, Holding, Removing, MaySession, Types, State
  <2>1. y \in State
    BY <1>0, <2>0 DEF Types, State
  <2>2. Moves(t, y)
    BY <1>0, <1>2, <2>1 DEF Types, Moves
  <2>3. /\ y.pc = "check" /\ y.sess = th[t].sess /\ y.tmp = c /\ y.c = th[t].c
        /\ y.r = th[t].r /\ y.todo = th[t].todo /\ y.next = th[t].next
    BY <1>0 DEF Types, State
  <2> HIDE DEF y
  <2>4. Local(y)
    BY <1>0, <1>2, <2>3 DEF Locals, Local, Place, Removing, Inside
  <2> QED BY <2>1, <2>2, <2>3, <2>4
<1>3. Steady(t, y)
  BY <1>0, <1>1, <1>2 DEF Steady, Types, Evicting, Holding
<1>4. Users(t, c)' = Users(t, c) \cup {<<"lookup", t>>}
  BY <1>1, <1>2 DEF Users, Own, Store, Moves
<1>5. ASSUME NEW d \in Session, d # c PROVE Users(t, d)' = Users(t, d)
  BY <1>1, <1>2, <1>5 DEF Users, Own, Store, Moves
<1>6. <<"cache", <<id, c>>>> \in Holders(c) /\ <<"lookup", t>> \notin Holders(c)
  BY <1>2, <1>c DEF Holders
<1> QED BY <1>2, <1>3, <1>4, <1>5, <1>6, GainStep

LEMMA FromCallbackStep ==
    ASSUME Inv, NEW t \in Thread, NEW c \in Session, ssl_session_from_callback(t, c)
    PROVE  Inv'
<1>0. Types /\ Locals /\ Counted
  BY DEF Inv
<1>2. /\ th[t].pc = "idle" /\ th[t].sess = None /\ th[t].tmp = None /\ c \in ext /\ c \in Session
      /\ UNCHANGED <<sessions, list, lock>>
  BY <1>0 DEF ssl_session_from_callback, Fresh, Free, Locals, Local, Place, Inside
<1>1. PICK y \in State :
          /\ Moves(t, y) /\ Local(y)
          /\ y.pc = "add" /\ y.sess = th[t].sess /\ y.tmp = c /\ y.c = c
          /\ y.r = th[t].r /\ y.todo = th[t].todo /\ y.next = "check"
  <2> DEFINE y == [th[t] EXCEPT !.tmp = c, !.c = c, !.pc = "add", !.next = "check"]
  <2>0. c \in MaySession /\ c \in MaySession /\ "add" \in PC /\ "check" \in After
    BY <1>0, <1>2 DEF PC, After, Inside, Holding, Removing, MaySession, Types, State
  <2>1. y \in State
    BY <1>0, <2>0 DEF Types, State
  <2>2. Moves(t, y)
    BY <1>0, <1>2, <2>1 DEF ssl_session_from_callback, Types, Moves
  <2>3. /\ y.pc = "add" /\ y.sess = th[t].sess /\ y.tmp = c /\ y.c = c
        /\ y.r = th[t].r /\ y.todo = th[t].todo /\ y.next = "check"
    BY <1>0 DEF Types, State
  <2> HIDE DEF y
  <2>4. Local(y)
    BY <1>0, <1>2, <2>3 DEF Locals, Local, Place, Removing, Inside
  <2> QED BY <2>1, <2>2, <2>3, <2>4
<1>3. <<"application", c>> \in Users(t, c) /\ <<"application", c>> \in Holders(c)
      /\ <<"lookup", t>> \notin Holders(c)
  BY <1>2 DEF Holders, Users, Store
<1>6. ext' \in SUBSET Session => Steady(t, y)
  BY <1>0, <1>1, <1>2 DEF Steady, Evicting, Holding
<1>4. CASE heap' = SSL_SESSION_up_ref(heap, c) /\ UNCHANGED ext
  <2>1. Users(t, c)' = Users(t, c) \cup {<<"lookup", t>>}
    BY <1>1, <1>2, <1>4 DEF Users, Own, Store, Moves
  <2>2. ASSUME NEW d \in Session, d # c PROVE Users(t, d)' = Users(t, d)
    BY <1>1, <1>2, <1>4, <2>2 DEF Users, Own, Store, Moves
  <2>3. Steady(t, y)
    BY <1>0, <1>4, <1>6 DEF Types
  <2> QED BY <1>3, <1>4, <2>1, <2>2, <2>3, GainStep
<1>5. CASE ext' = ext \ {c} /\ UNCHANGED heap
  <2>1. Users(t, c)' = (Users(t, c) \ {<<"application", c>>}) \cup {<<"lookup", t>>}
    BY <1>1, <1>2, <1>5 DEF Users, Own, Store, Moves
  <2>2. ASSUME NEW d \in Session, d # c PROVE Users(t, d)' = Users(t, d)
    BY <1>1, <1>2, <1>5, <2>2 DEF Users, Own, Store, Moves
  <2>3. Steady(t, y)
    BY <1>0, <1>5, <1>6 DEF Types
  <2> QED BY <1>3, <1>5, <2>1, <2>2, <2>3, SwapStep
<1> QED BY <1>4, <1>5 DEF ssl_session_from_callback

LEMMA CheckStep ==
    ASSUME Inv, NEW t \in Thread, Check(t)
    PROVE  Inv'
<1>0. Types /\ Locals /\ Counted
  BY DEF Inv
<1>c. PICK c \in Session : c = th[t].tmp
  BY <1>0 DEF Check, Types, State, MaySession, Locals, Local, Place, Inside
<1>2. /\ th[t].pc = "check" /\ c = th[t].tmp /\ c \in Session /\ th[t].sess = None
      /\ UNCHANGED <<sessions, list, lock, ext>>
  BY <1>0, <1>c DEF Check, Locals, Local
<1>3. CASE Goto(t, "discard") /\ UNCHANGED heap
  BY <1>2, <1>3, GotoStep
<1>4. CASE Call(t, "remove", th[t].tmp, "discard") /\ UNCHANGED heap
  BY <1>2, <1>4, CallStep DEF After
<1>5. CASE /\ th' = [th EXCEPT ![t].pc = "idle", ![t].sess = th[t].tmp, ![t].tmp = None]
           /\ heap' = SSL_SESSION_free(heap, th[t].sess)
  <2>1. PICK y \in State :
            /\ Moves(t, y) /\ Local(y)
            /\ y.pc = "idle" /\ y.sess = th[t].tmp /\ y.tmp = None /\ y.c = th[t].c
            /\ y.r = th[t].r /\ y.todo = th[t].todo /\ y.next = th[t].next
    <3> DEFINE y == [th[t] EXCEPT !.pc = "idle", !.sess = th[t].tmp, !.tmp = None]
    <3>0. "idle" \in PC /\ th[t].tmp \in MaySession /\ None \in MaySession
      BY <1>0, <1>2, <1>5 DEF PC, After, Inside, Holding, Removing, MaySession, Types, State
    <3>1. y \in State
      BY <1>0, <3>0 DEF Types, State
    <3>2. Moves(t, y)
      BY <1>0, <1>2, <1>5, <3>1 DEF Types, Moves
    <3>3. /\ y.pc = "idle" /\ y.sess = th[t].tmp /\ y.tmp = None /\ y.c = th[t].c
          /\ y.r = th[t].r /\ y.todo = th[t].todo /\ y.next = th[t].next
      BY <1>0 DEF Types, State
    <3> HIDE DEF y
    <3>4. Local(y)
      BY <1>0, <1>2, <1>5, <3>3 DEF Locals, Local, Place, Removing, Inside
    <3> QED BY <3>1, <3>2, <3>3, <3>4
  <2>2. heap' = heap
    BY <1>2, <1>5 DEF SSL_SESSION_free
  <2>3. Steady(t, y)
    BY <1>0, <1>2, <2>1 DEF Steady, Types, Evicting, Holding
  <2>4. Users(t, c)' = (Users(t, c) \ {<<"lookup", t>>}) \cup {<<"connection", t>>}
    BY <1>2, <2>1 DEF Users, Own, Store, Moves
  <2>5. ASSUME NEW d \in Session, d # c PROVE Users(t, d)' = Users(t, d)
    BY <1>2, <2>1, <2>5 DEF Users, Own, Store, Moves
  <2>6. <<"lookup", t>> \in Users(t, c) /\ <<"connection", t>> \notin Holders(c)
    BY <1>2 DEF Holders, Users, Own
  <2> QED BY <2>2, <2>3, <2>4, <2>5, <2>6, SwapStep
<1> QED BY <1>3, <1>4, <1>5 DEF Check

LEMMA DiscardStep ==
    ASSUME Inv, NEW t \in Thread, Discard(t)
    PROVE  Inv'
<1>0. Types /\ Locals /\ Counted
  BY DEF Inv
<1>c. PICK c \in Session : c = th[t].tmp
  BY <1>0 DEF Discard, Types, State, MaySession, Locals, Local, Place, Inside
<1>2. /\ th[t].pc = "discard" /\ c = th[t].tmp /\ c \in Session
      /\ UNCHANGED <<sessions, list, lock, ext>> /\ heap' = SSL_SESSION_free(heap, c)
  BY <1>c DEF Discard
<1>1. PICK y \in State :
          /\ Moves(t, y) /\ Local(y)
          /\ y.pc = "idle" /\ y.sess = th[t].sess /\ y.tmp = None /\ y.c = th[t].c
          /\ y.r = th[t].r /\ y.todo = th[t].todo /\ y.next = th[t].next
  <2> DEFINE y == [th[t] EXCEPT !.pc = "idle", !.tmp = None]
  <2>0. "idle" \in PC /\ None \in MaySession
    BY <1>0, <1>2 DEF PC, After, Inside, Holding, Removing, MaySession, Types, State
  <2>1. y \in State
    BY <1>0, <2>0 DEF Types, State
  <2>2. Moves(t, y)
    BY <1>0, <1>2, <2>1 DEF Discard, Types, Moves
  <2>3. /\ y.pc = "idle" /\ y.sess = th[t].sess /\ y.tmp = None /\ y.c = th[t].c
        /\ y.r = th[t].r /\ y.todo = th[t].todo /\ y.next = th[t].next
    BY <1>0 DEF Types, State
  <2> HIDE DEF y
  <2>4. Local(y)
    BY <1>0, <1>2, <2>3 DEF Locals, Local, Place, Removing, Inside
  <2> QED BY <2>1, <2>2, <2>3, <2>4
<1>3. Steady(t, y)
  BY <1>0, <1>1, <1>2 DEF Steady, Types, Evicting, Holding
<1>4. Users(t, c)' = Users(t, c) \ {<<"lookup", t>>}
  BY <1>1, <1>2 DEF Users, Own, Store, Moves
<1>5. ASSUME NEW d \in Session, d # c PROVE Users(t, d)' = Users(t, d)
  BY <1>1, <1>2, <1>5 DEF Users, Own, Store, Moves
<1>6. <<"lookup", t>> \in Users(t, c)
  BY <1>2 DEF Users, Own
<1> QED BY <1>2, <1>3, <1>4, <1>5, <1>6, LoseStep

LEMMA CloseStep ==
    ASSUME Inv, NEW t \in Thread, Close(t)
    PROVE  Inv'
<1>0. Types /\ Locals /\ Counted
  BY DEF Inv
<1>c. PICK c \in Session : c = th[t].sess
  BY <1>0 DEF Close, Types, State, MaySession, Locals, Local, Place, Inside
<1>2. /\ th[t].pc = "close" /\ c = th[t].sess /\ c \in Session
      /\ UNCHANGED <<sessions, list, lock, ext>> /\ heap' = SSL_SESSION_free(heap, c)
  BY <1>c DEF Close
<1>1. PICK y \in State :
          /\ Moves(t, y) /\ Local(y)
          /\ y.pc = "idle" /\ y.sess = None /\ y.tmp = th[t].tmp /\ y.c = th[t].c
          /\ y.r = th[t].r /\ y.todo = th[t].todo /\ y.next = th[t].next
  <2> DEFINE y == [th[t] EXCEPT !.pc = "idle", !.sess = None]
  <2>0. "idle" \in PC /\ None \in MaySession
    BY <1>0, <1>2 DEF PC, After, Inside, Holding, Removing, MaySession, Types, State
  <2>1. y \in State
    BY <1>0, <2>0 DEF Types, State
  <2>2. Moves(t, y)
    BY <1>0, <1>2, <2>1 DEF Close, Types, Moves
  <2>3. /\ y.pc = "idle" /\ y.sess = None /\ y.tmp = th[t].tmp /\ y.c = th[t].c
        /\ y.r = th[t].r /\ y.todo = th[t].todo /\ y.next = th[t].next
    BY <1>0 DEF Types, State
  <2> HIDE DEF y
  <2>4. Local(y)
    BY <1>0, <1>2, <2>3 DEF Locals, Local, Place, Removing, Inside
  <2> QED BY <2>1, <2>2, <2>3, <2>4
<1>3. Steady(t, y)
  BY <1>0, <1>1, <1>2 DEF Steady, Types, Evicting, Holding
<1>4. Users(t, c)' = Users(t, c) \ {<<"connection", t>>}
  BY <1>1, <1>2 DEF Users, Own, Store, Moves
<1>5. ASSUME NEW d \in Session, d # c PROVE Users(t, d)' = Users(t, d)
  BY <1>1, <1>2, <1>5 DEF Users, Own, Store, Moves
<1>6. <<"connection", t>> \in Users(t, c)
  BY <1>2 DEF Users, Own
<1> QED BY <1>2, <1>3, <1>4, <1>5, <1>6, LoseStep

LEMMA AddReferenceStep ==
    ASSUME Inv, NEW t \in Thread, AddReference(t)
    PROVE  Inv'
<1>0. Types /\ Locals /\ Counted
  BY DEF Inv
<1>c. PICK c \in Session : c = th[t].c
  BY <1>0 DEF AddReference, Types, State, MaySession, Locals, Local
<1>2. /\ th[t].pc = "add" /\ c = th[t].c /\ c \in {th[t].sess, th[t].tmp}
      /\ UNCHANGED <<sessions, list, lock, ext>> /\ heap' = SSL_SESSION_up_ref(heap, c)
  BY <1>0, <1>c DEF AddReference, Locals, Local
<1>1. PICK y \in State :
          /\ Moves(t, y) /\ Local(y)
          /\ y.pc = "insert" /\ y.sess = th[t].sess /\ y.tmp = th[t].tmp /\ y.c = th[t].c
          /\ y.r = th[t].r /\ y.todo = th[t].todo /\ y.next = th[t].next
  <2> DEFINE y == [th[t] EXCEPT !.pc = "insert"]
  <2>0. "insert" \in PC
    BY <1>0, <1>2 DEF PC, After, Inside, Holding, Removing, MaySession, Types, State
  <2>1. y \in State
    BY <1>0, <2>0 DEF Types, State
  <2>2. Moves(t, y)
    BY <1>0, <1>2, <2>1 DEF AddReference, Goto, Types, Moves
  <2>3. /\ y.pc = "insert" /\ y.sess = th[t].sess /\ y.tmp = th[t].tmp /\ y.c = th[t].c
        /\ y.r = th[t].r /\ y.todo = th[t].todo /\ y.next = th[t].next
    BY <1>0 DEF Types, State
  <2> HIDE DEF y
  <2>4. Local(y)
    BY <1>0, <1>2, <2>3 DEF Locals, Local, Place, Removing, Inside
  <2> QED BY <2>1, <2>2, <2>3, <2>4
<1>3. Steady(t, y)
  BY <1>0, <1>1, <1>2 DEF Steady, Types, Evicting, Holding
<1>4. Users(t, c)' = Users(t, c) \cup {<<"insertion", t>>}
  BY <1>1, <1>2 DEF Users, Own, Store, Moves
<1>5. ASSUME NEW d \in Session, d # c PROVE Users(t, d)' = Users(t, d)
  BY <1>1, <1>2, <1>5 DEF Users, Own, Store, Moves
<1>6. \/ <<"connection", t>> \in Holders(c)
      \/ <<"lookup", t>> \in Holders(c)
  BY <1>2 DEF Holders
<1>7. <<"insertion", t>> \notin Holders(c)
  BY <1>2 DEF Holders
<1> QED BY <1>2, <1>3, <1>4, <1>5, <1>6, <1>7, GainStep

LEMMA FreeStep ==
    ASSUME Inv, NEW t \in Thread, SSL_free(t)
    PROVE  Inv'
<1>0. Types /\ Locals /\ Counted
  BY DEF Inv
<1>1. /\ th[t].pc = "idle" /\ th[t].sess \in Session /\ th[t].tmp = None
      /\ UNCHANGED <<heap, sessions, list, lock, ext>>
  BY <1>0 DEF SSL_free, Types, State, MaySession, Locals, Local, Place, Inside
<1>2. ASSUME NEW next \in {"idle", "close"}, Call(t, "remove", th[t].sess, next)
      PROVE  Inv'
  <2>1. next \in After /\ next \notin {"check", "discard"}
    BY DEF After
  <2> QED BY <1>1, <1>2, <2>1, CallStep
<1>3. CASE Goto(t, "close")
  BY <1>1, <1>3, GotoStep
<1> QED BY <1>2, <1>3 DEF SSL_free

LEMMA SetSessionStep ==
    ASSUME Inv, NEW t \in Thread, NEW c \in Session, SSL_set_session(t, c)
    PROVE  Inv'
<1>0. Types /\ Locals /\ Counted
  BY DEF Inv
<1>2. /\ th[t].pc = "idle" /\ th[t].tmp = None /\ c \in ext /\ c \in Session
      /\ UNCHANGED <<sessions, list, lock, ext>>
  BY <1>0 DEF SSL_set_session, Locals, Local, Place, Inside
<1>1. PICK y \in State :
          /\ Moves(t, y) /\ Local(y)
          /\ y.pc = th[t].pc /\ y.sess = c /\ y.tmp = th[t].tmp /\ y.c = th[t].c
          /\ y.r = th[t].r /\ y.todo = th[t].todo /\ y.next = th[t].next
  <2> DEFINE y == [th[t] EXCEPT !.sess = c]
  <2>0. c \in MaySession
    BY <1>0, <1>2 DEF PC, After, Inside, Holding, Removing, MaySession, Types, State
  <2>1. y \in State
    BY <1>0, <2>0 DEF Types, State
  <2>2. Moves(t, y)
    BY <1>0, <1>2, <2>1 DEF SSL_set_session, Types, Moves
  <2>3. /\ y.pc = th[t].pc /\ y.sess = c /\ y.tmp = th[t].tmp /\ y.c = th[t].c
        /\ y.r = th[t].r /\ y.todo = th[t].todo /\ y.next = th[t].next
    BY <1>0 DEF Types, State
  <2> HIDE DEF y
  <2>4. Local(y)
    BY <1>0, <1>2, <2>3 DEF Locals, Local, Place, Removing, Inside
  <2> QED BY <2>1, <2>2, <2>3, <2>4
<1>3. Steady(t, y)
  BY <1>0, <1>1, <1>2 DEF Steady, Types, Evicting, Holding
<1> DEFINE k == <<"connection", t>>
           g == SSL_SESSION_up_ref(heap, c)
<1>4. heap' = SSL_SESSION_free(g, th[t].sess)
  BY DEF SSL_set_session
<1>5. <<"application", c>> \in Holders(c) /\ (k \in Holders(c) <=> th[t].sess = c)
  BY <1>2 DEF Holders
<1>6. CASE th[t].sess = None
  <2>1. Users(t, c)' = Users(t, c) \cup {k}
    BY <1>1, <1>2 DEF Users, Own, Store, Moves
  <2>2. ASSUME NEW d \in Session, d # c PROVE Users(t, d)' = Users(t, d)
    BY <1>1, <1>2, <1>6, <2>2 DEF Users, Own, Store, Moves
  <2>3. heap' = SSL_SESSION_up_ref(heap, c)
    BY <1>4, <1>6 DEF SSL_SESSION_free
  <2>4. k \notin Holders(c)
    BY <1>5, <1>6
  <2> HIDE DEF k
  <2> QED BY <1>3, <1>5, <2>1, <2>2, <2>3, <2>4, GainStep
<1>7. CASE th[t].sess = c
  <2> DEFINE n == <<"new", t>>
  <2>1. n \notin Holders(c)
    BY DEF Holders
  <2> HIDE DEF n
  <2>2. Exact(heap[c], Holders(c)) /\ heap \in [Session -> Object] /\ Holders(c) # {}
    BY <1>0, <1>5 DEF Counted, Types
  <2>3. Changes(heap, g, c) /\ Exact(g[c], Holders(c) \cup {n})
    BY <2>1, <2>2, UpRef
  <2> HIDE DEF g
  <2>4. g \in [Session -> Object]
    BY <2>3 DEF Changes
  <2>5. Changes(g, heap', c) /\ Exact(heap'[c], (Holders(c) \cup {n}) \ {n})
    BY <1>4, <1>7, <2>3, <2>4, FreeRef
  <2>6. (Holders(c) \cup {n}) \ {n} = Holders(c)
    BY <2>1
  <2>7. ASSUME NEW d \in Session PROVE Holders(d)' = Holders(d)
    <3>1. Users(t, d)' = Users(t, d)
      BY <1>1, <1>2, <1>7 DEF Users, Own, Store, Moves
    <3>2. /\ Users(t, d) \subseteq Holders(d)
          /\ Holders(d)' = (Holders(d) \ Users(t, d)) \cup Users(t, d)'
      BY <1>1, UsersMove
    <3> QED BY <3>1, <3>2
  <2>8. Counted' /\ heap' \in [Session -> Object] /\ NamesKept
    BY <1>0, <2>3, <2>5, <2>6, <2>7 DEF Counted, Changes, NamesKept
  <2>9. Types'
    BY <1>0, <1>1, <1>2, <2>8 DEF Types, Moves
  <2> QED BY <1>3, <2>8, <2>9, ThreadStep DEF Steady
<1>8. ASSUME NEW b \in Session, th[t].sess = b, b # c PROVE Inv'
  <2>1. k \notin Holders(c) /\ k \in Holders(b)
    BY <1>8 DEF Holders
  <2>2. Users(t, c)' = Users(t, c) \cup {k} /\ Users(t, b)' = Users(t, b) \ {k}
    BY <1>1, <1>2, <1>8 DEF Users, Own, Store, Moves
  <2>3. ASSUME NEW d \in Session, d # c, d # b PROVE Users(t, d)' = Users(t, d)
    BY <1>1, <1>2, <1>8, <2>3 DEF Users, Own, Store, Moves
  <2>k. k \in Users(t, b)
    BY <1>8 DEF Users, Own
  <2> HIDE DEF k
  <2>4. ASSUME NEW d \in Session
        PROVE  /\ Users(t, d) \subseteq Holders(d)
               /\ Holders(d)' = (Holders(d) \ Users(t, d)) \cup Users(t, d)'
    BY <1>1, UsersMove
  <2>5. Holders(c)' = Holders(c) \cup {k}
    BY <2>2, <2>4
  <2>6. Holders(b)' = Holders(b) \ {k}
    BY <1>8, <2>2, <2>4, <2>k
  <2>7. ASSUME NEW d \in Session, d # c, d # b PROVE Holders(d)' = Holders(d)
    <3>1. Users(t, d)' = Users(t, d)
      BY <2>3, <2>7
    <3> QED BY <2>4, <3>1
  <2>8. /\ Exact(heap[c], Holders(c)) /\ Exact(heap[b], Holders(b))
        /\ heap \in [Session -> Object] /\ Holders(c) # {}
    BY <1>0, <1>5, <1>8 DEF Counted, Types
  <2>9. Changes(heap, g, c) /\ Exact(g[c], Holders(c) \cup {k})
    BY <2>1, <2>8, UpRef
  <2> HIDE DEF g
  <2>10. g \in [Session -> Object] /\ g[b] = heap[b]
    BY <1>8, <2>9 DEF Changes
  <2>11. Changes(g, heap', b) /\ Exact(heap'[b], Holders(b) \ {k})
    BY <1>4, <1>8, <2>1, <2>8, <2>10, FreeRef
  <2>12. heap'[c] = g[c]
    BY <1>8, <2>11 DEF Changes
  <2>13. \A d \in Session : d # c /\ d # b => heap'[d] = heap[d]
    BY <2>9, <2>11 DEF Changes
  <2>14. Counted'
    BY <1>0, <1>8, <2>5, <2>6, <2>7, <2>9, <2>11, <2>12, <2>13 DEF Counted
  <2>15. heap' \in [Session -> Object] /\ NamesKept
    BY <2>9, <2>11 DEF Changes, NamesKept
  <2>16. Types'
    BY <1>0, <1>1, <1>2, <2>15 DEF Types, Moves
  <2> QED BY <1>3, <2>14, <2>15, <2>16, ThreadStep DEF Steady
<1> QED BY <1>0, <1>6, <1>7, <1>8 DEF Types, State, MaySession

LEMMA Get1SessionStep ==
    ASSUME Inv, NEW t \in Thread, SSL_get1_session(t)
    PROVE  Inv'
<1>0. Types /\ Locals /\ Counted
  BY DEF Inv
<1>c. PICK c \in Session : c = th[t].sess
  BY <1>0 DEF SSL_get1_session, Types, State, MaySession
<1>1. /\ c \notin ext /\ heap' = SSL_SESSION_up_ref(heap, c) /\ ext' = ext \cup {c}
      /\ UNCHANGED <<sessions, list, lock, th>>
  BY <1>c DEF SSL_get1_session
<1>2. Holders(c)' = Holders(c) \cup {<<"application", c>>}
  BY <1>1 DEF Holders
<1>3. ASSUME NEW d \in Session, d # c PROVE Holders(d)' = Holders(d)
  BY <1>1, <1>3 DEF Holders
<1>4. <<"connection", t>> \in Holders(c) /\ <<"application", c>> \notin Holders(c)
  BY <1>c, <1>1 DEF Holders
<1>5. Changes(heap, heap', c) /\ Counted'
  BY <1>0, <1>1, <1>2, <1>3, <1>4, Gains
<1>6. Types' /\ NamesKept
  BY <1>0, <1>1, <1>5 DEF Types, Changes, NamesKept
<1> QED BY <1>1, <1>5, <1>6, OutsideStep

LEMMA D2iStep ==
    ASSUME Inv, NEW c \in Session, NEW id \in Id, d2i_SSL_SESSION(c, id)
    PROVE  Inv'
<1>0. Types /\ Counted
  BY DEF Inv
<1>1. /\ ~heap[c].live /\ heap' = SSL_SESSION_new(c, id) /\ ext' = ext \cup {c}
      /\ UNCHANGED <<sessions, list, lock, th>>
  BY DEF d2i_SSL_SESSION
<1>2. Holders(c)' = Holders(c) \cup {<<"application", c>>}
  BY <1>1 DEF Holders
<1>3. ASSUME NEW d \in Session, d # c PROVE Holders(d)' = Holders(d)
  BY <1>1, <1>3 DEF Holders
<1>4. heap' \in [Session -> Object] /\ Counted' /\ NamesKept
  BY <1>0, <1>1, <1>2, <1>3, Creates
<1>5. Types'
  BY <1>0, <1>1, <1>4 DEF Types
<1> QED BY <1>1, <1>4, <1>5, OutsideStep

LEMMA ReleaseStep ==
    ASSUME Inv, NEW c \in Session, Release(c)
    PROVE  Inv'
<1>0. Types /\ Counted
  BY DEF Inv
<1>1. /\ c \in ext /\ heap' = SSL_SESSION_free(heap, c) /\ ext' = ext \ {c}
      /\ UNCHANGED <<sessions, list, lock, th>>
  BY DEF Release
<1>2. Holders(c)' = Holders(c) \ {<<"application", c>>}
  BY <1>1 DEF Holders
<1>3. ASSUME NEW d \in Session, d # c PROVE Holders(d)' = Holders(d)
  BY <1>1, <1>3 DEF Holders
<1>4. <<"application", c>> \in Holders(c)
  BY <1>1 DEF Holders
<1>5. Changes(heap, heap', c) /\ Counted'
  BY <1>0, <1>1, <1>2, <1>3, <1>4, Loses
<1>6. Types' /\ NamesKept
  BY <1>0, <1>1, <1>5 DEF Types, Changes, NamesKept
<1> QED BY <1>1, <1>5, <1>6, OutsideStep

-----------------------------------------------------------------------------
(* The steps on the cache. *)

(* A session is found under its ID exactly if it is in the table. *)
LEMMA Cached ==
    ASSUME Types, Table, NEW c \in Session
    PROVE  IsCached(c) <=> <<heap[c].id, c>> \in sessions
<1>1. ASSUME <<heap[c].id, c>> \in sessions PROVE IsCached(c)
  <2>1. c \in Retrieved(heap[c].id)
    BY <1>1 DEF Retrieved
  <2>2. ASSUME NEW d \in Retrieved(heap[c].id) PROVE d = c
    <3>1. <<heap[c].id, d>> \in sessions
      BY DEF Retrieved
    <3>2. <<heap[c].id, d>> = <<heap[c].id, c>>
      BY <1>1, <3>1 DEF Table
    <3> QED BY <3>2
  <2>3. Retrieved(heap[c].id) = {c}
    BY <2>1, <2>2
  <2> QED BY <2>3 DEF IsCached, lh_retrieve
<1>2. ASSUME IsCached(c) PROVE <<heap[c].id, c>> \in sessions
  <2>1. lh_retrieve(heap[c].id) = c /\ c # None
    BY <1>2 DEF IsCached
  <2>2. c \in Retrieved(heap[c].id)
    BY <2>1 DEF lh_retrieve
  <2> QED BY <2>2 DEF Retrieved
<1> QED BY <1>1, <1>2

(* A thread that has the lock, or takes it or gives it back. *)
LEMMA CacheStep ==
    ASSUME Inv, NEW t \in Thread, NEW y, Moves(t, y), Local(y),
           Types', Counted', Table', Listed',
           lock \in {None, t}, lock' \in {None, t}, y.pc \in Holding <=> lock' = t,
           y.todo \in SUBSET sessions',
           Evicting(y) \/ Cardinality(sessions') <= CacheSize
    PROVE  Inv'
<1>0. None \notin Thread
  OBVIOUS
<1>t. th'[t] = y /\ \A u \in Thread : u # t => th'[u] = th[u]
  BY DEF Moves
<1>1. Locals'
  BY <1>t DEF Inv, Locals
<1>2. Locked'
  <2>1. ASSUME NEW u \in Thread PROVE th'[u].pc \in Holding <=> lock' = u
    BY <1>0, <1>t DEF Inv, Locked
  <2>2. ASSUME NEW u \in Thread PROVE th'[u].todo \subseteq sessions'
    <3>1. CASE u = t
      BY <1>t, <3>1
    <3>2. CASE u # t
      <4>1. th[u].pc \notin Holding
        BY <1>0, <3>2 DEF Inv, Locked
      <4>2. th[u].todo = {}
        BY <4>1 DEF Inv, Locals, Local, Holding
      <4> QED BY <1>t, <3>2, <4>2
    <3> QED BY <3>1, <3>2
  <2> QED BY <2>1, <2>2 DEF Locked
<1>3. Bounded'
  BY <1>t DEF Bounded
<1> QED BY <1>1, <1>2, <1>3 DEF Inv

(* A session is taken out of the table and of the list. *)
LEMMA TakeOut ==
    ASSUME Inv, NEW e \in sessions, sessions' = sessions \ {e}, heap' = heap,
           list' \in Seq(Session), Distinct(list'),
           ToSet(list') = ToSet(list) \ {e[2]}, Len(list') = Len(list) - 1
    PROVE  /\ Table' /\ Listed'
           /\ Cardinality(sessions') = Cardinality(sessions) - 1
           /\ Cardinality(sessions) \in Nat /\ Cardinality(sessions') \in Nat
           /\ sessions' \in SUBSET (Id \X Session)
<1>1. /\ IsFiniteSet(sessions') /\ Cardinality(sessions') = Cardinality(sessions) - 1
      /\ Cardinality(sessions) \in Nat /\ Cardinality(sessions') \in Nat
  BY FS_RemoveElement, FS_CardinalityType DEF Inv, Table
<1>2. Table'
  BY <1>1 DEF Inv, Table
<1>3. ASSUME NEW f \in sessions, f[2] = e[2] PROVE f = e
  BY <1>3 DEF Inv, Table
<1>4. ToSet(list') = {f[2] : f \in sessions'}
  BY <1>3 DEF Inv, Listed
<1>5. Listed'
  BY <1>1, <1>4 DEF Inv, Listed
<1> QED BY <1>1, <1>2, <1>5 DEF Inv, Types

(* What was taken out of the cache is held by the thread that did it. *)
LEMMA TakenOver ==
    ASSUME Inv, NEW t \in Thread, NEW y \in State, Moves(t, y), NEW e \in sessions,
           sessions' = sessions \ {e}, heap' = heap, ext' = ext,
           th[t].r = None, y.r = e[2], th[t].pc # "insert", y.pc # "insert",
           y.sess = th[t].sess, y.tmp = th[t].tmp
    PROVE  Counted'
<1>1. PICK c \in Session : c = e[2]
  BY DEF Inv, Types
<1>2. ASSUME NEW f \in sessions, f[2] = e[2] PROVE f = e
  BY <1>2 DEF Inv, Table
<1> DEFINE k == <<"cache", e>>
           n == <<"removal", t>>
<1>3. Store(c)' = Store(c) \ {k} /\ k \in Store(c)
  BY <1>1, <1>2 DEF Store
<1>4. Own(y, t, c) = Own(th[t], t, c) \cup {n}
  BY <1>1 DEF Own
<1>5. k \notin Own(th[t], t, c) /\ n \notin Holders(c) /\ k # n
  BY DEF Own, Holders
<1>6. ASSUME NEW d \in Session, d # c
      PROVE  Store(d)' = Store(d) /\ Own(y, t, d) = Own(th[t], t, d)
  BY <1>1, <1>6 DEF Store, Own
<1> HIDE DEF k, n
<1>7. ASSUME NEW d \in Session
      PROVE  /\ Own(th[t], t, d) \subseteq Holders(d) /\ Store(d) \subseteq Holders(d)
             /\ Holders(d)' = (Holders(d) \ (Own(th[t], t, d) \cup Store(d)))
                                  \cup Own(y, t, d) \cup Store(d)'
  BY HoldersMove
<1>8. Holders(c)' = (Holders(c) \ {k}) \cup {n} /\ k \in Holders(c)
  BY <1>3, <1>4, <1>5, <1>7
<1>9. ASSUME NEW d \in Session, d # c PROVE Holders(d)' = Holders(d)
  <2>1. Store(d)' = Store(d) /\ Own(y, t, d) = Own(th[t], t, d)
    BY <1>6, <1>9
  <2> QED BY <1>7, <2>1
<1> QED BY <1>5, <1>8, <1>9, Swaps DEF Inv

LEMMA RemoveSessionStep ==
    ASSUME Inv, NEW t \in Thread, RemoveSession(t)
    PROVE  Inv'
<1>0. Types /\ Locals /\ Counted
  BY DEF Inv
<1>c. PICK c \in Session : c = th[t].c
  BY <1>0 DEF RemoveSession, Types, State, MaySession, Locals, Local
<1>2. /\ th[t].pc = "remove" /\ lock = None /\ UNCHANGED <<heap, lock, ext>>
      /\ c = th[t].c /\ th[t].r = None /\ th[t].todo = {} /\ th[t].next \in After
  BY <1>0, <1>c DEF RemoveSession, Locals, Local, Removing, Types, State
<1>3. CASE IsCached(c)
  <2> DEFINE e == <<heap[c].id, c>>
  <2>2. /\ e \in sessions /\ e[2] = c /\ sessions' = sessions \ {e}
        /\ list' = SSL_SESSION_list_remove(list, c)
        /\ th' = [th EXCEPT ![t].pc = "remove_cb", ![t].r = c]
    BY <1>c, <1>2, <1>3, Cached DEF RemoveSession, Inv
  <2> HIDE DEF e
  <2>1. PICK y \in State :
            /\ Moves(t, y) /\ Local(y)
            /\ y.pc = "remove_cb" /\ y.sess = th[t].sess /\ y.tmp = th[t].tmp /\ y.c = th[t].c
            /\ y.r = c /\ y.todo = th[t].todo /\ y.next = th[t].next
    <3> DEFINE y == [th[t] EXCEPT !.pc = "remove_cb", !.r = c]
    <3>0. "remove_cb" \in PC /\ c \in MaySession
      BY <1>0, <1>2, <2>2 DEF PC, After, Inside, Holding, Removing, MaySession, Types, State
    <3>1. y \in State
      BY <1>0, <3>0 DEF Types, State
    <3>2. Moves(t, y)
      BY <1>0, <1>2, <2>2, <3>1 DEF Types, Moves
    <3>3. /\ y.pc = "remove_cb" /\ y.sess = th[t].sess /\ y.tmp = th[t].tmp /\ y.c = th[t].c
          /\ y.r = c /\ y.todo = th[t].todo /\ y.next = th[t].next
      BY <1>0 DEF Types, State
    <3> HIDE DEF y
    <3>4. Local(y)
      BY <1>0, <1>2, <2>2, <3>3 DEF Locals, Local, Place, Removing, Inside
    <3> QED BY <3>1, <3>2, <3>3, <3>4
  <2>3. /\ list' \in Seq(Session) /\ Distinct(list')
        /\ ToSet(list') = ToSet(list) \ {c} /\ Len(list') = Len(list) - 1
    <3>1. c \in ToSet(list)
      BY <2>2 DEF Inv, Listed
    <3> QED BY <2>2, <3>1, ListRemove DEF Inv, Types, Listed
  <2>4. /\ Table' /\ Listed' /\ Cardinality(sessions') = Cardinality(sessions) - 1
        /\ Cardinality(sessions) \in Nat /\ sessions' \in SUBSET (Id \X Session)
    BY <1>2, <2>2, <2>3, TakeOut
  <2>5. Counted'
    BY <1>2, <2>1, <2>2, TakenOver
  <2>6. Types'
    BY <1>0, <1>2, <2>1, <2>3, <2>4 DEF Types, Moves
  <2>7. Cardinality(sessions) <= CacheSize
    BY <1>2 DEF Inv, Bounded, Locked, Evicting, Holding
  <2>8. lock' = None /\ lock' # t /\ y.pc \notin Holding
    BY <1>2, <2>1 DEF Holding
  <2> QED BY <1>2, <2>1, <2>4, <2>5, <2>6, <2>7, <2>8, CacheStep
<1>4. CASE ~IsCached(c)
  <2>2. Return(t) /\ UNCHANGED <<sessions, list>>
    BY <1>c, <1>4 DEF RemoveSession
  <2>1. PICK y \in State :
            /\ Moves(t, y) /\ Local(y)
            /\ y.pc = th[t].next /\ y.sess = th[t].sess /\ y.tmp = th[t].tmp /\ y.c = None
            /\ y.r = None /\ y.todo = th[t].todo /\ y.next = "idle"
    <3> DEFINE y == [th[t] EXCEPT !.pc = th[t].next, !.c = None, !.r = None, !.next = "idle"]
    <3>0. th[t].next \in PC /\ None \in MaySession /\ None \in MaySession /\ "idle" \in After
      BY <1>0, <1>2, <2>2 DEF PC, After, Inside, Holding, Removing, MaySession, Types, State
    <3>1. y \in State
      BY <1>0, <3>0 DEF Types, State
    <3>2. Moves(t, y)
      BY <1>0, <1>2, <2>2, <3>1 DEF Return, Returned, Types, Moves
    <3>3. /\ y.pc = th[t].next /\ y.sess = th[t].sess /\ y.tmp = th[t].tmp /\ y.c = None
          /\ y.r = None /\ y.todo = th[t].todo /\ y.next = "idle"
      BY <1>0 DEF Types, State
    <3> HIDE DEF y
    <3>4. Local(y)
      BY <1>0, <1>2, <2>2, <3>3 DEF Locals, Local, Place, Removing, Inside, After
    <3> QED BY <3>1, <3>2, <3>3, <3>4
  <2>3. Steady(t, y)
    BY <1>0, <1>2, <2>1, <2>2 DEF Steady, Types, Evicting, Holding, After
  <2>4. ASSUME NEW d \in Session PROVE Users(t, d)' = Users(t, d)
    BY <1>2, <2>1, <2>2 DEF Users, Own, Store, Moves, After
  <2> QED BY <1>2, <2>3, <2>4, StayStep
<1> QED BY <1>3, <1>4

LEMMA FlushStep ==
    ASSUME Inv, NEW t \in Thread, NEW old \in SUBSET sessions, SSL_CTX_flush_sessions(t, old)
    PROVE  Inv'
<1>0. Types /\ Locals /\ Counted
  BY DEF Inv
<1>2. /\ th[t].pc = "idle" /\ lock = None /\ lock' = t /\ UNCHANGED <<heap, sessions, list, ext>>
      /\ old \in SUBSET (Id \X Session)
  BY <1>0 DEF SSL_CTX_flush_sessions, Free, Types
<1>1. PICK y \in State :
          /\ Moves(t, y) /\ Local(y)
          /\ y.pc = "flush" /\ y.sess = th[t].sess /\ y.tmp = th[t].tmp /\ y.c = th[t].c
          /\ y.r = th[t].r /\ y.todo = old /\ y.next = th[t].next
  <2> DEFINE y == [th[t] EXCEPT !.pc = "flush", !.todo = old]
  <2>0. "flush" \in PC /\ old \in SUBSET (Id \X Session)
    BY <1>0, <1>2 DEF PC, After, Inside, Holding, Removing, MaySession, Types, State
  <2>1. y \in State
    BY <1>0, <2>0 DEF Types, State
  <2>2. Moves(t, y)
    BY <1>0, <1>2, <2>1 DEF SSL_CTX_flush_sessions, Types, Moves
  <2>3. /\ y.pc = "flush" /\ y.sess = th[t].sess /\ y.tmp = th[t].tmp /\ y.c = th[t].c
        /\ y.r = th[t].r /\ y.todo = old /\ y.next = th[t].next
    BY <1>0 DEF Types, State
  <2> HIDE DEF y
  <2>4. Local(y)
    BY <1>0, <1>2, <2>3 DEF Locals, Local, Place, Removing, Inside
  <2> QED BY <2>1, <2>2, <2>3, <2>4
<1>3. ASSUME NEW d \in Session PROVE Holders(d)' = Holders(d)
  <2>1. Users(t, d)' = Users(t, d)
    BY <1>1, <1>2 DEF Users, Own, Store, Moves
  <2>2. /\ Users(t, d) \subseteq Holders(d)
        /\ Holders(d)' = (Holders(d) \ Users(t, d)) \cup Users(t, d)'
    BY <1>1, UsersMove
  <2> QED BY <2>1, <2>2
<1>4. Types' /\ Counted' /\ Table' /\ Listed'
  BY <1>0, <1>1, <1>2, <1>3 DEF Inv, Types, Counted, Table, Listed, Moves
<1>5. Cardinality(sessions') <= CacheSize
  BY <1>2 DEF Inv, Bounded, Locked, Evicting, Holding
<1>6. y.pc \in Holding /\ y.todo \in SUBSET sessions'
  BY <1>1, <1>2 DEF Holding
<1> QED BY <1>1, <1>2, <1>4, <1>5, <1>6, CacheStep

(* The lock is given back. *)
LEMMA UnlockStep ==
    ASSUME Inv, NEW t \in Thread, Unlock(t), UNCHANGED <<heap, ext>>,
           th[t].pc \in {"evict", "flush"}, th[t].todo = {},
           Cardinality(sessions) <= CacheSize
    PROVE  Inv'
<1>0. Types /\ Locals /\ Counted
  BY DEF Inv
<1>2. /\ lock = t /\ lock' = None /\ Return(t) /\ UNCHANGED <<sessions, list>> /\ None # t
      /\ th[t].r = None /\ th[t].next \in After /\ th[t].pc \in {"evict", "flush"}
      /\ th[t].pc = "flush" => th[t].next = "idle"
  BY <1>0 DEF Unlock, Inv, Locked, Holding, Locals, Local, Removing, Inside, Types, State
<1>1. PICK y \in State :
          /\ Moves(t, y) /\ Local(y)
          /\ y.pc = th[t].next /\ y.sess = th[t].sess /\ y.tmp = th[t].tmp /\ y.c = None
          /\ y.r = None /\ y.todo = th[t].todo /\ y.next = "idle"
  <2> DEFINE y == [th[t] EXCEPT !.pc = th[t].next, !.c = None, !.r = None, !.next = "idle"]
  <2>0. th[t].next \in PC /\ None \in MaySession /\ None \in MaySession /\ "idle" \in After
    BY <1>0, <1>2 DEF PC, After, Inside, Holding, Removing, MaySession, Types, State
  <2>1. y \in State
    BY <1>0, <2>0, ZenonT(40) DEF Types, State
  <2>2. Moves(t, y)
    BY <1>0, <1>2, <2>1 DEF Return, Returned, Types, Moves
  <2>3. /\ y.pc = th[t].next /\ y.sess = th[t].sess /\ y.tmp = th[t].tmp /\ y.c = None
        /\ y.r = None /\ y.todo = th[t].todo /\ y.next = "idle"
    BY <1>0 DEF Types, State
  <2> HIDE DEF y
  <2>4. Local(y)
    BY <1>0, <1>2, <2>3 DEF Locals, Local, Place, Removing, Inside, After
  <2> QED BY <2>1, <2>2, <2>3, <2>4
<1>3. ASSUME NEW d \in Session PROVE Holders(d)' = Holders(d)
  <2>1. Users(t, d)' = Users(t, d)
    BY <1>1, <1>2 DEF Users, Own, Store, Moves, After
  <2>2. /\ Users(t, d) \subseteq Holders(d)
        /\ Holders(d)' = (Holders(d) \ Users(t, d)) \cup Users(t, d)'
    BY <1>1, UsersMove
  <2> QED BY <2>1, <2>2
<1>4. Types' /\ Counted' /\ Table' /\ Listed'
  BY <1>0, <1>1, <1>2, <1>3 DEF Inv, Types, Counted, Table, Listed, Moves
<1>5. y.pc \notin Holding /\ y.todo \in SUBSET sessions'
  BY <1>1, <1>2 DEF Holding, After
<1> QED BY <1>1, <1>2, <1>4, <1>5, CacheStep

LEMMA TimeoutStep ==
    ASSUME Inv, NEW t \in Thread, timeout_doall_arg(t)
    PROVE  Inv'
<1>0. Types /\ Locals /\ Counted
  BY DEF Inv
<1>2. /\ th[t].pc = "flush" /\ lock = t /\ UNCHANGED <<heap, ext>>
      /\ th[t].r = None /\ th[t].todo \in SUBSET sessions
  BY <1>0 DEF timeout_doall_arg, Inv, Locked, Holding, Locals, Local, Removing
<1>b. Cardinality(sessions) <= CacheSize
  <2>1. ASSUME NEW u \in Thread PROVE ~Evicting(th[u])
    BY <1>2 DEF Inv, Locked, Evicting, Holding
  <2> QED BY <2>1 DEF Inv, Bounded
<1>3. CASE th[t].todo = {} /\ Unlock(t)
  BY <1>2, <1>3, <1>b, UnlockStep
<1>4. ASSUME NEW e \in th[t].todo,
             /\ sessions' = sessions \ {<<heap[e[2]].id, e[2]>>}
             /\ list' = SSL_SESSION_list_remove(list, e[2])
             /\ th' = [th EXCEPT ![t].todo = @ \ {e}, ![t].r = e[2], ![t].pc = "flush_cb"]
             /\ UNCHANGED lock
      PROVE  Inv'
  <2>c. PICK c \in Session : c = e[2]
    BY <1>0, <1>2 DEF Types
  <2>2. /\ e \in sessions /\ <<heap[c].id, c>> = e /\ sessions' = sessions \ {e}
        /\ list' = SSL_SESSION_list_remove(list, c) /\ c \in Session
        /\ th[t].todo \ {e} \in SUBSET (Id \X Session)
        /\ th' = [th EXCEPT ![t].todo = th[t].todo \ {e}, ![t].r = c, ![t].pc = "flush_cb"]
    <3>1. e \in sessions /\ e \in Id \X Session
      BY <1>0, <1>2 DEF Types
    <3>2. <<heap[c].id, c>> = e
      BY <2>c, <3>1 DEF Inv, Table
    <3> QED BY <1>0, <1>4, <2>c, <3>1, <3>2 DEF Types, State
  <2>1. PICK y \in State :
            /\ Moves(t, y) /\ Local(y)
            /\ y.pc = "flush_cb" /\ y.sess = th[t].sess /\ y.tmp = th[t].tmp /\ y.c = th[t].c
            /\ y.r = c /\ y.todo = th[t].todo \ {e} /\ y.next = th[t].next
    <3> DEFINE y == [th[t] EXCEPT !.todo = th[t].todo \ {e}, !.r = c, !.pc = "flush_cb"]
    <3>0. th[t].todo \ {e} \in SUBSET (Id \X Session) /\ c \in MaySession /\ "flush_cb" \in PC
      BY <1>0, <1>2, <2>2 DEF PC, After, Inside, Holding, Removing, MaySession, Types, State
    <3>1. y \in State
      BY <1>0, <3>0 DEF Types, State
    <3>2. Moves(t, y)
      BY <1>0, <1>2, <2>2, <3>1 DEF Types, Moves
    <3>3. /\ y.pc = "flush_cb" /\ y.sess = th[t].sess /\ y.tmp = th[t].tmp /\ y.c = th[t].c
          /\ y.r = c /\ y.todo = th[t].todo \ {e} /\ y.next = th[t].next
      BY <1>0 DEF Types, State
    <3> HIDE DEF y
    <3>4. Local(y)
      BY <1>0, <1>2, <2>2, <3>3 DEF Locals, Local, Place, Removing, Inside
    <3> QED BY <3>1, <3>2, <3>3, <3>4
  <2>3. /\ list' \in Seq(Session) /\ Distinct(list')
        /\ ToSet(list') = ToSet(list) \ {c} /\ Len(list') = Len(list) - 1
    <3>1. c \in ToSet(list)
      BY <2>2, <2>c DEF Inv, Listed
    <3> QED BY <2>2, <3>1, ListRemove DEF Inv, Types, Listed
  <2>4. /\ Table' /\ Listed' /\ Cardinality(sessions') = Cardinality(sessions) - 1
        /\ Cardinality(sessions) \in Nat /\ sessions' \in SUBSET (Id \X Session)
    BY <1>2, <2>c, <2>2, <2>3, TakeOut
  <2>5. Counted'
    BY <1>2, <2>c, <2>1, <2>2, TakenOver
  <2>6. Types'
    BY <1>0, <1>2, <1>4, <2>1, <2>3, <2>4 DEF Types, Moves
  <2>7. lock' = t /\ y.pc \in Holding /\ y.todo \in SUBSET sessions'
    BY <1>2, <1>4, <2>1, <2>2 DEF Holding
  <2>8. Cardinality(sessions') <= CacheSize
    BY <1>b, <2>4
  <2> QED BY <1>2, <2>1, <2>4, <2>5, <2>6, <2>7, <2>8, CacheStep
<1> QED BY <1>3, <1>4 DEF timeout_doall_arg

LEMMA EvictStep ==
    ASSUME Inv, NEW t \in Thread, Evict(t)
    PROVE  Inv'
<1>0. Types /\ Locals /\ Counted
  BY DEF Inv
<1>2. /\ th[t].pc = "evict" /\ lock = t /\ UNCHANGED <<heap, ext>>
      /\ th[t].r = None /\ th[t].todo = {}
  BY <1>0 DEF Evict, Inv, Locked, Holding, Locals, Local, Removing
<1>n. Cardinality(sessions) \in Nat /\ Len(list) = Cardinality(sessions) /\ list \in Seq(Session)
  BY FS_CardinalityType DEF Inv, Table, Listed, Types
<1>3. CASE ~TooMany
  <2>1. Cardinality(sessions) <= CacheSize
    BY <1>n, <1>3 DEF TooMany
  <2>2. Unlock(t)
    BY <1>3 DEF Evict
  <2> QED BY <1>2, <2>1, <2>2, UnlockStep
<1>4. CASE TooMany
  <2>l. Len(list) > 0 /\ Distinct(list)
    BY <1>n, <1>4 DEF TooMany, Inv, Listed
  <2>c. PICK c \in Session : c = Last(list) /\ c \in ToSet(list)
    BY <1>n, <2>l, ListTail
  <2>e. PICK e \in sessions : e[2] = c
    BY <2>c DEF Inv, Listed
  <2>f. e = <<heap[c].id, c>>
    BY <1>0, <2>e DEF Inv, Table, Types
  <2>g. IsCached(c)
    BY <2>f, Cached DEF Inv
  <2>2. /\ e \in sessions /\ e[2] = c /\ sessions' = sessions \ {e} /\ list' = Front(list)
        /\ th' = [th EXCEPT ![t].r = c, ![t].pc = "evict_cb"] /\ lock' = lock /\ c \in Session
    BY <1>4, <2>c, <2>e, <2>f, <2>g DEF Evict, EvictTail
  <2>1. PICK y \in State :
            /\ Moves(t, y) /\ Local(y)
            /\ y.pc = "evict_cb" /\ y.sess = th[t].sess /\ y.tmp = th[t].tmp /\ y.c = th[t].c
            /\ y.r = c /\ y.todo = th[t].todo /\ y.next = th[t].next
    <3> DEFINE y == [th[t] EXCEPT !.r = c, !.pc = "evict_cb"]
    <3>0. c \in MaySession /\ "evict_cb" \in PC
      BY <1>0, <1>2, <2>2 DEF PC, After, Inside, Holding, Removing, MaySession, Types, State
    <3>1. y \in State
      BY <1>0, <3>0 DEF Types, State
    <3>2. Moves(t, y)
      BY <1>0, <1>2, <2>2, <3>1 DEF Types, Moves
    <3>3. /\ y.pc = "evict_cb" /\ y.sess = th[t].sess /\ y.tmp = th[t].tmp /\ y.c = th[t].c
          /\ y.r = c /\ y.todo = th[t].todo /\ y.next = th[t].next
      BY <1>0 DEF Types, State
    <3> HIDE DEF y
    <3>4. Local(y)
      BY <1>0, <1>2, <2>2, <3>3 DEF Locals, Local, Place, Removing, Inside
    <3> QED BY <3>1, <3>2, <3>3, <3>4
  <2>3. /\ list' \in Seq(Session) /\ Distinct(list')
        /\ ToSet(list') = ToSet(list) \ {c} /\ Len(list') = Len(list) - 1
    BY <1>n, <2>l, <2>c, <2>2, ListTail
  <2>4. /\ Table' /\ Listed' /\ Cardinality(sessions') = Cardinality(sessions) - 1
        /\ Cardinality(sessions) \in Nat /\ sessions' \in SUBSET (Id \X Session)
    BY <1>2, <2>2, <2>3, TakeOut
  <2>5. Counted'
    BY <1>2, <2>1, <2>2, TakenOver
  <2>6. Types'
    BY <1>0, <1>2, <2>1, <2>2, <2>3, <2>4 DEF Types, Moves
  <2>7. lock' = t /\ y.pc \in Holding /\ y.todo \in SUBSET sessions' /\ Evicting(y)
    BY <1>2, <2>1, <2>2 DEF Holding, Evicting
  <2> QED BY <1>2, <2>1, <2>4, <2>5, <2>6, <2>7, CacheStep
<1> QED BY <1>3, <1>4

(* A session is put into the table and the list; old, if there is one, is    *)
(* what had its ID.                                                          *)
LEMMA PutIn ==
    ASSUME Inv, NEW c \in Session, heap[c].id \in Id, <<heap[c].id, c>> \notin sessions,
           NEW gone \in SUBSET sessions,
           gone = {e \in sessions : e[1] = heap[c].id},
           sessions' = (sessions \ gone) \cup {<<heap[c].id, c>>},
           heap'[c].id = heap[c].id, NamesKept,
           \A e \in sessions' : heap'[e[2]].live,
           NEW l \in Seq(Session), Distinct(l), ToSet(l) = ToSet(list) \ {e[2] : e \in gone},
           Len(l) = Cardinality(sessions \ gone),
           list' = SSL_SESSION_list_add(l, c)
    PROVE  /\ Table' /\ Listed' /\ list' \in Seq(Session)
           /\ sessions' \in SUBSET (Id \X Session)
<1> DEFINE p == <<heap[c].id, c>>
           rest == sessions \ gone
<1>1. /\ IsFiniteSet(rest) /\ IsFiniteSet(sessions') /\ Cardinality(rest) \in Nat
      /\ Cardinality(sessions') = Cardinality(rest) + 1
  <2>1. IsFiniteSet(rest)
    BY FS_Subset DEF Inv, Table
  <2>2. p \notin rest /\ sessions' = rest \cup {p}
    OBVIOUS
  <2> HIDE DEF p, rest
  <2>3. IsFiniteSet(rest \cup {p}) /\ Cardinality(rest \cup {p}) = Cardinality(rest) + 1
    BY <2>1, <2>2, FS_AddElement
  <2>4. Cardinality(rest) \in Nat
    BY <2>1, FS_CardinalityType
  <2> QED BY <2>1, <2>2, <2>3, <2>4
<1>2. ASSUME NEW e \in sessions' PROVE e[2] \in Session /\ heap'[e[2]].id = e[1]
  <2>1. CASE e = p
    BY <2>1
  <2>2. CASE e \in rest
    <3>1. e \in sessions /\ e[2] \in Session
      BY <2>2 DEF Inv, Types
    <3>2. heap[e[2]].live /\ heap[e[2]].id = e[1]
      BY <3>1, CachedAlive DEF Inv, Types, Table
    <3> QED BY <3>1, <3>2 DEF NamesKept
  <2> QED BY <2>1, <2>2
<1>3. ASSUME NEW e \in sessions', NEW f \in sessions', e[1] = f[1] PROVE e = f
  BY <1>3 DEF Inv, Table
<1>4. \A d \in Session : heap'[d].live => heap'[d].id \in Id
  BY DEF NamesKept, Inv, Table
<1>5. Table'
  BY <1>1, <1>2, <1>3, <1>4 DEF Table
<1>6. c \notin ToSet(l)
  <2>1. ASSUME NEW e \in sessions, e[2] = c PROVE FALSE
    <3>1. e = <<heap[c].id, c>>
      BY <2>1 DEF Inv, Table, Types
    <3> QED BY <3>1
  <2> QED BY <2>1 DEF Inv, Listed
<1>7. /\ list' \in Seq(Session) /\ Distinct(list')
      /\ ToSet(list') = ToSet(l) \cup {c} /\ Len(list') = Len(l) + 1
  BY <1>6, ListAdd
<1>8. ASSUME NEW e \in sessions, NEW f \in sessions, e[2] = f[2] PROVE e = f
  BY <1>8 DEF Inv, Table, Types
<1>9. ToSet(l) = {e[2] : e \in rest}
  BY <1>8 DEF Inv, Listed
<1>10. ToSet(list') = {e[2] : e \in sessions'}
  BY <1>7, <1>9
<1>11. Listed'
  BY <1>1, <1>7, <1>10 DEF Listed
<1> QED BY <1>5, <1>7, <1>11 DEF Inv, Types

LEMMA InsertStep ==
    ASSUME Inv, NEW t \in Thread, InsertSession(t)
    PROVE  Inv'
<1>0. Types /\ Locals /\ Counted
  BY DEF Inv
<1>c. PICK c \in Session : c = th[t].c
  BY <1>0 DEF InsertSession, Types, State, MaySession, Locals, Local
<1>2. /\ th[t].pc = "insert" /\ lock = None /\ ext' = ext /\ th[t].next \in After
      /\ c = th[t].c /\ c \in {th[t].sess, th[t].tmp} /\ th[t].r = None /\ th[t].todo = {}
  BY <1>0, <1>c DEF InsertSession, Locals, Local, Removing, Types, State
<1>k. <<"insertion", t>> \in Users(t, c) /\ <<"insertion", t>> \in Holders(c)
  BY <1>2 DEF Users, Own, Holders
<1>3. CASE IsCached(c)
  <2>2. /\ Return(t) /\ UNCHANGED <<sessions, list, lock>>
        /\ heap' = SSL_SESSION_free(heap, c)
    BY <1>c, <1>3 DEF InsertSession, InsertAgain
  <2>1. PICK y \in State :
            /\ Moves(t, y) /\ Local(y)
            /\ y.pc = th[t].next /\ y.sess = th[t].sess /\ y.tmp = th[t].tmp /\ y.c = None
            /\ y.r = None /\ y.todo = th[t].todo /\ y.next = "idle"
    <3> DEFINE y == [th[t] EXCEPT !.pc = th[t].next, !.c = None, !.r = None, !.next = "idle"]
    <3>0. th[t].next \in PC /\ None \in MaySession /\ None \in MaySession /\ "idle" \in After
      BY <1>0, <1>2, <2>2 DEF PC, After, Inside, Holding, Removing, MaySession, Types, State
    <3>1. y \in State
      BY <1>0, <3>0 DEF Types, State
    <3>2. Moves(t, y)
      BY <1>0, <1>2, <2>2, <3>1 DEF Return, Returned, Types, Moves
    <3>3. /\ y.pc = th[t].next /\ y.sess = th[t].sess /\ y.tmp = th[t].tmp /\ y.c = None
          /\ y.r = None /\ y.todo = th[t].todo /\ y.next = "idle"
      BY <1>0 DEF Types, State
    <3> HIDE DEF y
    <3>4. Local(y)
      BY <1>0, <1>2, <2>2, <3>3 DEF Locals, Local, Place, Removing, Inside, After
    <3> QED BY <3>1, <3>2, <3>3, <3>4
  <2>3. Steady(t, y)
    BY <1>0, <1>2, <2>1, <2>2 DEF Steady, Types, Evicting, Holding, After
  <2>4. Users(t, c)' = Users(t, c) \ {<<"insertion", t>>}
    BY <1>2, <2>1, <2>2 DEF Users, Own, Store, Moves, After
  <2>5. ASSUME NEW d \in Session, d # c PROVE Users(t, d)' = Users(t, d)
    BY <1>2, <2>1, <2>2, <2>5 DEF Users, Own, Store, Moves, After
  <2> QED BY <1>k, <2>2, <2>3, <2>4, <2>5, LoseStep
<1>4. CASE ~IsCached(c)
  <2> DEFINE id == heap[c].id
             old == lh_retrieve(id)
             gone == {e \in sessions : e[1] = id}
             p == <<id, c>>
             k == <<"insertion", t>>
             n == <<"cache", p>>
  <2>a. id \in Id /\ p \notin sessions
    <3>1. heap[c].live
      BY <1>0, <1>k, InUse
    <3> QED BY <1>4, <3>1, Cached DEF Inv, Table
  <2>2. /\ heap' = SSL_SESSION_free(heap, old)
        /\ sessions' = (sessions \ {<<id, old>>}) \cup {p}
        /\ list' = SSL_SESSION_list_add(SSL_SESSION_list_remove(list, old), c)
        /\ lock' = t /\ Goto(t, "evict")
    BY <1>c, <1>4 DEF InsertSession, InsertNew, InsertReplace
  <2>1. PICK y \in State :
            /\ Moves(t, y) /\ Local(y)
            /\ y.pc = "evict" /\ y.sess = th[t].sess /\ y.tmp = th[t].tmp /\ y.c = th[t].c
            /\ y.r = th[t].r /\ y.todo = th[t].todo /\ y.next = th[t].next
    <3> DEFINE y == [th[t] EXCEPT !.pc = "evict"]
    <3>0. "evict" \in PC
      BY <1>0, <1>2, <2>2 DEF PC, After, Inside, Holding, Removing, MaySession, Types, State
    <3>1. y \in State
      BY <1>0, <3>0 DEF Types, State
    <3>2. Moves(t, y)
      BY <1>0, <1>2, <2>2, <3>1 DEF Goto, Types, Moves
    <3>3. /\ y.pc = "evict" /\ y.sess = th[t].sess /\ y.tmp = th[t].tmp /\ y.c = th[t].c
          /\ y.r = th[t].r /\ y.todo = th[t].todo /\ y.next = th[t].next
      BY <1>0 DEF Types, State
    <3> HIDE DEF y
    <3>4. Local(y)
      BY <1>0, <1>2, <2>2, <3>3 DEF Locals, Local, Place, Removing, Inside
    <3> QED BY <3>1, <3>2, <3>3, <3>4
  <2>3. /\ y.pc \in Holding /\ Evicting(y) /\ y.todo \in SUBSET sessions' /\ None # t
    BY <1>2, <2>1 DEF Holding, Evicting
  <2>4. Own(y, t, c) = Own(th[t], t, c) \ {k}
    BY <1>2, <2>1 DEF Own
  <2>5. ASSUME NEW d \in Session, d # c PROVE Own(y, t, d) = Own(th[t], t, d)
    BY <1>2, <2>1, <2>5 DEF Own
  <2>6. n \notin Holders(c) /\ k \notin Store(c) /\ k # n /\ n \notin Own(th[t], t, c)
    BY <2>a DEF Holders, Store, Own
  <2>7. ASSUME NEW d \in Session
        PROVE  /\ Own(th[t], t, d) \subseteq Holders(d) /\ Store(d) \subseteq Holders(d)
               /\ Holders(d)' = (Holders(d) \ (Own(th[t], t, d) \cup Store(d)))
                                    \cup Own(y, t, d) \cup Store(d)'
    BY <2>1, HoldersMove
  <2>b. /\ Own(th[t], t, c) \subseteq Holders(c) /\ Store(c) \subseteq Holders(c)
        /\ Holders(c)' = (Holders(c) \ (Own(th[t], t, c) \cup Store(c)))
                             \cup Own(y, t, c) \cup Store(c)'
    BY <2>7
  <2>k. k \in Own(th[t], t, c)
    BY <1>2 DEF Own
  <2>8. Retrieved(id) = {d \in Session : <<id, d>> \in sessions}
    BY <1>0 DEF Retrieved, Inv, Table
  <2>9. CASE old = None
    <3>1. gone = {} /\ sessions' = sessions \cup {p}
      <4>1. Retrieved(id) = {}
        BY <2>9 DEF lh_retrieve, Retrieved
      <4>2. ASSUME NEW e \in gone PROVE FALSE
        BY <1>0, <2>8, <4>1 DEF Types
      <4>3. <<id, old>> \notin sessions
        BY <4>2
      <4> QED BY <2>2, <4>2, <4>3
    <3>2. heap' = heap
      BY <2>2, <2>9 DEF SSL_SESSION_free
    <3>3. Store(c)' = Store(c) \cup {n}
      BY <1>2, <3>1 DEF Store
    <3>4. ASSUME NEW d \in Session, d # c PROVE Holders(d)' = Holders(d)
      <4>1. Store(d)' = Store(d)
        BY <1>2, <3>1, <3>4 DEF Store
      <4>2. Own(y, t, d) = Own(th[t], t, d)
        BY <2>5, <3>4
      <4> QED BY <2>7, <4>1, <4>2
    <3>5. Holders(c)' = (Holders(c) \ {k}) \cup {n}
      BY <2>4, <2>6, <2>b, <2>k, <3>3
    <3>6. Counted'
      BY <1>0, <1>k, <2>6, <3>2, <3>4, <3>5, Swaps
    <3>7. NamesKept /\ \A e \in sessions' : heap'[e[2]].live
      <4>1. ASSUME NEW e \in sessions' PROVE heap'[e[2]].live
        <5>1. <<"cache", e>> \in Holders(e[2])' /\ e[2] \in Session
          BY <1>0, <3>1 DEF Holders, Types
        <5> QED BY <3>6, <5>1 DEF Counted, Exact
      <4> QED BY <3>2, <4>1 DEF NamesKept, Inv, Table
    <3>8. /\ list \in Seq(Session) /\ Distinct(list) /\ None \notin ToSet(list)
          /\ Len(list) = Cardinality(sessions)
      <4>1. ASSUME NEW e \in sessions PROVE e[2] # None
        BY <1>0 DEF Types
      <4> QED BY <4>1 DEF Inv, Types, Listed
    <3>9. list' = SSL_SESSION_list_add(list, c)
      BY <2>2, <2>9, <3>8 DEF SSL_SESSION_list_remove
    <3>10. /\ Table' /\ Listed' /\ list' \in Seq(Session)
           /\ sessions' \in SUBSET (Id \X Session)
      <4>1. sessions' = (sessions \ gone) \cup {p} /\ sessions \ gone = sessions
        BY <3>1
      <4>2. ToSet(list) = ToSet(list) \ {e[2] : e \in gone}
        BY <3>1
      <4> QED BY <2>a, <3>2, <3>7, <3>8, <3>9, <4>1, <4>2, PutIn
    <3>11. Types'
      BY <1>0, <1>2, <2>1, <2>2, <3>2, <3>10 DEF Types, Moves
    <3> QED BY <1>2, <2>1, <2>2, <2>3, <3>6, <3>10, <3>11, CacheStep
  <2>10. CASE old # None
    <3>b. PICK b \in Session : b = old /\ <<id, b>> \in sessions
      BY <2>8, <2>10 DEF lh_retrieve
    <3> DEFINE e == <<id, b>>
               ke == <<"cache", e>>
    <3>1. /\ b # c /\ e \in sessions /\ heap' = SSL_SESSION_free(heap, b)
          /\ sessions' = (sessions \ {e}) \cup {p}
          /\ list' = SSL_SESSION_list_add(SSL_SESSION_list_remove(list, b), c)
      BY <2>a, <2>2, <3>b
    <3>2. gone = {e} /\ {f[2] : f \in gone} = {b}
      <4>1. ASSUME NEW f \in gone PROVE f = e
        BY <3>1 DEF Inv, Table
      <4> QED BY <3>1, <4>1
    <3>3. ASSUME NEW f \in sessions, f[2] = b PROVE f = e
      <4>1. heap[b].id = id /\ heap[f[2]].id = f[1]
        BY <3>1 DEF Inv, Table
      <4> QED BY <1>0, <3>3, <4>1 DEF Types
    <3>4. Store(c)' = Store(c) \cup {n}
      BY <1>2, <3>1 DEF Store
    <3>5. Store(b)' = Store(b) \ {ke} /\ ke \in Store(b)
      BY <1>2, <3>1, <3>3 DEF Store
    <3>6. ke \notin Own(th[t], t, b)
      BY DEF Own
    <3>7. Own(y, t, b) = Own(th[t], t, b)
      BY <2>5, <3>1
    <3>8. Holders(b)' = Holders(b) \ {ke} /\ ke \in Holders(b)
      <4>1. /\ Own(th[t], t, b) \subseteq Holders(b) /\ Store(b) \subseteq Holders(b)
            /\ Holders(b)' = (Holders(b) \ (Own(th[t], t, b) \cup Store(b)))
                                 \cup Own(y, t, b) \cup Store(b)'
        BY <2>7
      <4> QED BY <3>5, <3>6, <3>7, <4>1
    <3>9. Holders(c)' = (Holders(c) \ {k}) \cup {n}
      BY <2>4, <2>6, <2>b, <2>k, <3>4
    <3>10. ASSUME NEW d \in Session, d # c, d # b PROVE Holders(d)' = Holders(d)
      <4>1. Store(d)' = Store(d)
        BY <1>2, <3>1, <3>10 DEF Store
      <4>2. Own(y, t, d) = Own(th[t], t, d)
        BY <2>5, <3>10
      <4> QED BY <2>7, <4>1, <4>2
    <3>11. Exact(heap[b], Holders(b)) /\ Exact(heap[c], Holders(c)) /\ heap \in [Session -> Object]
      BY <1>0, <3>1 DEF Counted, Types
    <3> HIDE DEF ke, n
    <3>12. Changes(heap, heap', b) /\ Exact(heap'[b], Holders(b) \ {ke})
      BY <3>1, <3>8, <3>11, FreeRef
    <3>13. Exact(heap[c], (Holders(c) \ {k}) \cup {n})
      BY <1>k, <2>6, <3>11, HandOver DEF k
    <3>14. heap'[c] = heap[c] /\ \A d \in Session : d # b => heap'[d] = heap[d]
      BY <3>1, <3>12 DEF Changes
    <3>15. Counted'
      <4> SUFFICES ASSUME NEW d \in Session PROVE Exact(heap'[d], Holders(d)')
        BY DEF Counted
      <4>1. CASE d = b
        BY <3>8, <3>12, <4>1
      <4>2. CASE d = c
        BY <3>9, <3>13, <3>14, <4>2
      <4>3. CASE d # b /\ d # c
        BY <1>0, <3>10, <3>14, <4>3 DEF Counted
      <4> QED BY <4>1, <4>2, <4>3
    <3>16. NamesKept /\ heap' \in [Session -> Object]
      BY <3>12 DEF Changes, NamesKept
    <3>17. ASSUME NEW f \in sessions' PROVE heap'[f[2]].live
      <4>1. <<"cache", f>> \in Holders(f[2])' /\ f[2] \in Session
        BY <1>0, <3>1 DEF Holders, Types
      <4> QED BY <3>15, <4>1 DEF Counted, Exact
    <3> DEFINE l == SSL_SESSION_list_remove(list, b)
    <3>18. /\ l \in Seq(Session) /\ Distinct(l) /\ ToSet(l) = ToSet(list) \ {b}
           /\ Len(l) = Len(list) - 1
      <4>1. b \in ToSet(list)
        BY <3>1 DEF Inv, Listed
      <4> QED BY <4>1, ListRemove DEF Inv, Types, Listed
    <3> HIDE DEF l
    <3>19. Len(l) = Cardinality(sessions \ gone)
      <4>1. Cardinality(sessions \ {e}) = Cardinality(sessions) - 1
        <5>1. IsFiniteSet(sessions) /\ e \in sessions
          BY <3>1 DEF Inv, Table
        <5> HIDE DEF e
        <5> QED BY <5>1, FS_RemoveElement
      <4>2. Len(list) = Cardinality(sessions)
        BY DEF Inv, Listed
      <4> QED BY <3>2, <3>18, <4>1, <4>2
    <3>20. /\ Table' /\ Listed' /\ list' \in Seq(Session)
           /\ sessions' \in SUBSET (Id \X Session)
      <4>1. sessions' = (sessions \ gone) \cup {p} /\ list' = SSL_SESSION_list_add(l, c)
        BY <3>1, <3>2 DEF l
      <4>2. ToSet(l) = ToSet(list) \ {f[2] : f \in gone}
        BY <3>2, <3>18
      <4>3. heap'[c].id = heap[c].id
        BY <3>14
      <4> QED BY <2>a, <3>16, <3>17, <3>18, <3>19, <4>1, <4>2, <4>3, PutIn
    <3>21. Types'
      BY <1>0, <1>2, <2>1, <2>2, <3>16, <3>20 DEF Types, Moves
    <3> QED BY <1>2, <2>1, <2>2, <2>3, <3>15, <3>20, <3>21, CacheStep
  <2> QED BY <2>9, <2>10
<1> QED BY <1>3, <1>4

(* The application is told of the removal. *)
LEMMA RemoveCbStep ==
    ASSUME Inv, NEW t \in Thread, NEW then \in {"evict_free", "remove_free", "flush_free"},
           RemoveSessionCb(t, then),
           \/ th[t].pc = "evict_cb" /\ then = "evict_free"
           \/ th[t].pc = "remove_cb" /\ then = "remove_free"
           \/ th[t].pc = "flush_cb" /\ then = "flush_free"
    PROVE  Inv'
<1>0. Types /\ Locals /\ Counted
  BY DEF Inv
<1>c. PICK c \in Session : c = th[t].r
  BY <1>0 DEF Types, State, MaySession, Locals, Local, Removing
<1>2. /\ Goto(t, then) /\ UNCHANGED <<sessions, list, lock>>
      /\ th[t].pc \in {"evict_cb", "remove_cb", "flush_cb"}
      /\ then = "evict_free" <=> th[t].pc = "evict_cb"
      /\ then = "remove_free" <=> th[t].pc = "remove_cb"
      /\ then = "flush_free" <=> th[t].pc = "flush_cb"
  BY DEF RemoveSessionCb
<1>1. PICK y \in State :
          /\ Moves(t, y) /\ Local(y)
          /\ y.pc = then /\ y.sess = th[t].sess /\ y.tmp = th[t].tmp /\ y.c = th[t].c
          /\ y.r = th[t].r /\ y.todo = th[t].todo /\ y.next = th[t].next
  <2> DEFINE y == [th[t] EXCEPT !.pc = then]
  <2>0. then \in PC
    BY <1>0, <1>2 DEF PC, After, Inside, Holding, Removing, MaySession, Types, State
  <2>1. y \in State
    BY <1>0, <2>0 DEF Types, State
  <2>2. Moves(t, y)
    BY <1>0, <1>2, <2>1 DEF Goto, Types, Moves
  <2>3. /\ y.pc = then /\ y.sess = th[t].sess /\ y.tmp = th[t].tmp /\ y.c = th[t].c
        /\ y.r = th[t].r /\ y.todo = th[t].todo /\ y.next = th[t].next
    BY <1>0 DEF Types, State
  <2> HIDE DEF y
  <2>4. Local(y)
    BY <1>0, <1>2, <2>3 DEF Locals, Local, Place, Removing, Inside
  <2> QED BY <2>1, <2>2, <2>3, <2>4
<1>3. ext' \in SUBSET Session => Steady(t, y)
  BY <1>0, <1>1, <1>2 DEF Steady, Evicting, Holding
<1>4. CASE UNCHANGED <<heap, ext>>
  <2>1. ASSUME NEW d \in Session PROVE Users(t, d)' = Users(t, d)
    BY <1>1, <1>2, <1>4 DEF Users, Own, Store, Moves
  <2>2. Steady(t, y)
    BY <1>0, <1>3, <1>4 DEF Types
  <2> QED BY <1>4, <2>1, <2>2, StayStep
<1>5. CASE c \in ext /\ heap' = SSL_SESSION_free(heap, c) /\ ext' = ext \ {c}
  <2>1. Users(t, c)' = Users(t, c) \ {<<"application", c>>}
    BY <1>1, <1>2, <1>5 DEF Users, Own, Store, Moves
  <2>2. ASSUME NEW d \in Session, d # c PROVE Users(t, d)' = Users(t, d)
    BY <1>1, <1>2, <1>5, <2>2 DEF Users, Own, Store, Moves
  <2>3. Steady(t, y)
    BY <1>0, <1>3, <1>5 DEF Types
  <2>4. <<"application", c>> \in Users(t, c)
    BY <1>5 DEF Users, Store
  <2> QED BY <1>5, <2>1, <2>2, <2>3, <2>4, LoseStep
<1> QED BY <1>c, <1>4, <1>5 DEF RemoveSessionCb

LEMMA RemovedStep ==
    ASSUME Inv, NEW t \in Thread, Removed(t)
    PROVE  Inv'
<1>0. Types /\ Locals /\ Counted
  BY DEF Inv
<1>c. PICK c \in Session : c = th[t].r
  BY <1>0 DEF Removed, Types, State, MaySession, Locals, Local, Removing
<1>1. CASE th[t].pc = "evict_cb" /\ RemoveSessionCb(t, "evict_free")
  BY <1>1, RemoveCbStep
<1>2. CASE th[t].pc = "evict_free" /\ FreeRemoved(t, [th[t] EXCEPT !.r = None, !.pc = "evict"])
  <2>2. /\ heap' = SSL_SESSION_free(heap, c) /\ UNCHANGED <<sessions, list, lock, ext>>
        /\ th[t].pc = "evict_free" /\ th[t].next \in After
    BY <1>0, <1>c, <1>2 DEF FreeRemoved, Types, State
  <2>1. PICK y \in State :
            /\ Moves(t, y) /\ Local(y)
            /\ y.pc = "evict" /\ y.sess = th[t].sess /\ y.tmp = th[t].tmp /\ y.c = th[t].c
            /\ y.r = None /\ y.todo = th[t].todo /\ y.next = th[t].next
    <3> DEFINE y == [th[t] EXCEPT !.r = None, !.pc = "evict"]
    <3>0. None \in MaySession /\ "evict" \in PC
      BY <1>0, <1>c, <1>2, <2>2 DEF PC, After, Inside, Holding, Removing, MaySession, Types, State
    <3>1. y \in State
      BY <1>0, <3>0 DEF Types, State
    <3>2. Moves(t, y)
      BY <1>0, <1>c, <1>2, <2>2, <3>1 DEF FreeRemoved, Types, Moves
    <3>3. /\ y.pc = "evict" /\ y.sess = th[t].sess /\ y.tmp = th[t].tmp /\ y.c = th[t].c
          /\ y.r = None /\ y.todo = th[t].todo /\ y.next = th[t].next
      BY <1>0 DEF Types, State
    <3> HIDE DEF y
    <3>4. Local(y)
      BY <1>0, <1>c, <1>2, <2>2, <3>3 DEF Locals, Local, Place, Removing, Inside
    <3> QED BY <3>1, <3>2, <3>3, <3>4
  <2>3. Steady(t, y)
    BY <1>0, <2>1, <2>2 DEF Steady, Types, Evicting, Holding
  <2>4. Users(t, c)' = Users(t, c) \ {<<"removal", t>>}
    BY <1>c, <2>1, <2>2 DEF Users, Own, Store, Moves
  <2>5. ASSUME NEW d \in Session, d # c PROVE Users(t, d)' = Users(t, d)
    BY <1>c, <2>1, <2>2, <2>5 DEF Users, Own, Store, Moves
  <2>6. <<"removal", t>> \in Users(t, c)
    BY <1>c DEF Users, Own
  <2> QED BY <2>2, <2>3, <2>4, <2>5, <2>6, LoseStep
<1>3. CASE th[t].pc = "remove_cb" /\ RemoveSessionCb(t, "remove_free")
  BY <1>3, RemoveCbStep
<1>4. CASE th[t].pc = "remove_free" /\ FreeRemoved(t, Returned(t))
  <2>2. /\ heap' = SSL_SESSION_free(heap, c) /\ UNCHANGED <<sessions, list, lock, ext>>
        /\ th[t].pc = "remove_free" /\ th[t].next \in After
    BY <1>0, <1>c, <1>4 DEF FreeRemoved, Types, State
  <2>1. PICK y \in State :
            /\ Moves(t, y) /\ Local(y)
            /\ y.pc = th[t].next /\ y.sess = th[t].sess /\ y.tmp = th[t].tmp /\ y.c = None
            /\ y.r = None /\ y.todo = th[t].todo /\ y.next = "idle"
    <3> DEFINE y == [th[t] EXCEPT !.pc = th[t].next, !.c = None, !.r = None, !.next = "idle"]
    <3>0. th[t].next \in PC /\ None \in MaySession /\ None \in MaySession /\ "idle" \in After
      BY <1>0, <1>c, <1>4, <2>2 DEF PC, After, Inside, Holding, Removing, MaySession, Types, State
    <3>1. y \in State
      BY <1>0, <3>0 DEF Types, State
    <3>2. Moves(t, y)
      BY <1>0, <1>c, <1>4, <2>2, <3>1 DEF FreeRemoved, Returned, Types, Moves
    <3>3. /\ y.pc = th[t].next /\ y.sess = th[t].sess /\ y.tmp = th[t].tmp /\ y.c = None
          /\ y.r = None /\ y.todo = th[t].todo /\ y.next = "idle"
      BY <1>0 DEF Types, State
    <3> HIDE DEF y
    <3>4. Local(y)
      BY <1>0, <1>c, <1>4, <2>2, <3>3 DEF Locals, Local, Place, Removing, Inside, After
    <3> QED BY <3>1, <3>2, <3>3, <3>4
  <2>3. Steady(t, y)
    BY <1>0, <2>1, <2>2 DEF Steady, Types, Evicting, Holding, After
  <2>4. Users(t, c)' = Users(t, c) \ {<<"removal", t>>}
    BY <1>c, <2>1, <2>2 DEF Users, Own, Store, Moves, After
  <2>5. ASSUME NEW d \in Session, d # c PROVE Users(t, d)' = Users(t, d)
    BY <1>c, <2>1, <2>2, <2>5 DEF Users, Own, Store, Moves, After
  <2>6. <<"removal", t>> \in Users(t, c)
    BY <1>c DEF Users, Own
  <2> QED BY <2>2, <2>3, <2>4, <2>5, <2>6, LoseStep
<1>5. CASE th[t].pc = "flush_cb" /\ RemoveSessionCb(t, "flush_free")
  BY <1>5, RemoveCbStep
<1>6. CASE th[t].pc = "flush_free" /\ FreeRemoved(t, [th[t] EXCEPT !.r = None, !.pc = "flush"])
  <2>2. /\ heap' = SSL_SESSION_free(heap, c) /\ UNCHANGED <<sessions, list, lock, ext>>
        /\ th[t].pc = "flush_free" /\ th[t].next \in After
    BY <1>0, <1>c, <1>6 DEF FreeRemoved, Types, State
  <2>1. PICK y \in State :
            /\ Moves(t, y) /\ Local(y)
            /\ y.pc = "flush" /\ y.sess = th[t].sess /\ y.tmp = th[t].tmp /\ y.c = th[t].c
            /\ y.r = None /\ y.todo = th[t].todo /\ y.next = th[t].next
    <3> DEFINE y == [th[t] EXCEPT !.r = None, !.pc = "flush"]
    <3>0. None \in MaySession /\ "flush" \in PC
      BY <1>0, <1>c, <1>6, <2>2 DEF PC, After, Inside, Holding, Removing, MaySession, Types, State
    <3>1. y \in State
      BY <1>0, <3>0 DEF Types, State
    <3>2. Moves(t, y)
      BY <1>0, <1>c, <1>6, <2>2, <3>1 DEF FreeRemoved, Types, Moves
    <3>3. /\ y.pc = "flush" /\ y.sess = th[t].sess /\ y.tmp = th[t].tmp /\ y.c = th[t].c
          /\ y.r = None /\ y.todo = th[t].todo /\ y.next = th[t].next
      BY <1>0 DEF Types, State
    <3> HIDE DEF y
    <3>4. Local(y)
      BY <1>0, <1>c, <1>6, <2>2, <3>3 DEF Locals, Local, Place, Removing, Inside
    <3> QED BY <3>1, <3>2, <3>3, <3>4
  <2>3. Steady(t, y)
    BY <1>0, <2>1, <2>2 DEF Steady, Types, Evicting, Holding
  <2>4. Users(t, c)' = Users(t, c) \ {<<"removal", t>>}
    BY <1>c, <2>1, <2>2 DEF Users, Own, Store, Moves
  <2>5. ASSUME NEW d \in Session, d # c PROVE Users(t, d)' = Users(t, d)
    BY <1>c, <2>1, <2>2, <2>5 DEF Users, Own, Store, Moves
  <2>6. <<"removal", t>> \in Users(t, c)
    BY <1>c DEF Users, Own
  <2> QED BY <2>2, <2>3, <2>4, <2>5, <2>6, LoseStep
<1> QED BY <1>1, <1>2, <1>3, <1>4, <1>5, <1>6 DEF Removed

-----------------------------------------------------------------------------
LEMMA InitInv == Init => Inv
<1> SUFFICES ASSUME Init PROVE Inv
  OBVIOUS
<1>1. "idle" \in PC /\ "idle" \in After /\ None \in MaySession
  BY DEF PC, After, MaySession
<1>2. Waiting \in State
  BY <1>1 DEF Waiting, State
<1>3. Unused \in Object
  BY DEF Unused, Object
<1>4. Types
  BY <1>2, <1>3 DEF Init, Types
<1>5. Locals
  BY DEF Init, Locals, Local, Waiting, Place, Removing, Inside
<1>6. Locked
  BY DEF Init, Locked, Waiting, Holding
<1>7. Counted
  <2> SUFFICES ASSUME NEW c \in Session PROVE Exact(heap[c], Holders(c))
    BY DEF Counted
  <2>1. Holders(c) = {}
    BY DEF Init, Waiting, Holders
  <2> QED BY <2>1, FS_EmptySet DEF Init, Unused, Exact
<1>8. Table
  BY FS_EmptySet DEF Init, Table, Unused
<1>9. Listed
  BY FS_EmptySet DEF Init, Listed, Distinct, ToSet
<1>10. Bounded
  BY FS_EmptySet DEF Init, Bounded
<1> QED BY <1>4, <1>5, <1>6, <1>7, <1>8, <1>9, <1>10 DEF Inv

LEMMA NextInv == Inv /\ [Next]_vars => Inv'
<1> SUFFICES ASSUME Inv, [Next]_vars PROVE Inv'
  OBVIOUS
<1>1. ASSUME NEW t \in Thread, Begin(t) PROVE Inv'
  BY <1>1, GetNewSessionStep, FromCacheStep, FromCallbackStep, SetSessionStep, Get1SessionStep,
     FlushStep, FreeStep DEF Begin
<1>2. ASSUME NEW t \in Thread, Continue(t) PROVE Inv'
  BY <1>2, HandshakeStep, NewSessionCbStep, CheckStep, DiscardStep, AddReferenceStep,
     InsertStep, EvictStep, RemoveSessionStep, RemovedStep, TimeoutStep, CloseStep DEF Continue
<1>3. ASSUME NEW c \in Session, NEW id \in Id, d2i_SSL_SESSION(c, id) PROVE Inv'
  BY <1>3, D2iStep
<1>4. ASSUME NEW c \in Session, Release(c) PROVE Inv'
  BY <1>4, ReleaseStep
<1>5. CASE UNCHANGED vars
  <2>1. ASSUME NEW c \in Session PROVE Holders(c)' = Holders(c)
    BY <1>5 DEF vars, Holders
  <2>2. Counted'
    BY <1>5, <2>1 DEF Inv, Counted, vars
  <2> QED BY <1>5, <2>2 DEF Inv, vars, Types, Locals, Locked, Table, Listed, Bounded
<1> QED BY <1>1, <1>2, <1>3, <1>4, <1>5 DEF Next

(* The state of the threads, the table, the list and the counts fit together *)
(* in every state of every run, whatever ssl_sess.c does in between.         *)
THEOREM Invariance == Spec => []Inv
  BY InitInv, NextInv, PTL DEF Spec

(* The reference counts that CRYPTO_add keeps are exact: a session has as    *)
(* many references as it has users, so SSL_SESSION_free releases it when the *)
(* last user goes and not before, with any number of threads.                *)
THEOREM ReferencesExact == Spec => []RefsExact
<1>1. Inv => RefsExact
  <2> SUFFICES ASSUME Inv PROVE RefsExact
    OBVIOUS
  <2>1. TypeOK
    BY DEF Inv, Types, Object, State, MaySession, TypeOK
  <2> QED BY <2>1 DEF Inv, Counted, Exact, RefsExact
<1> QED BY <1>1, Invariance, PTL

(* SSL_CTX_add_session, remove_session_lock and timeout_doall_arg keep the   *)
(* list and the hash table of the cache in step, one session for each ID,    *)
(* as long as no ticket of a cached session is renewed (Spec, and not        *)
(* RenewalSpec).                                                             *)
THEOREM ListIsTable == Spec => []ListMatchesTable
<1>1. Inv => ListMatchesTable
  BY DEF Inv, Listed, Table, ListMatchesTable
<1> QED BY <1>1, Invariance, PTL

(* Whenever nobody holds CRYPTO_LOCK_SSL_CTX, SSL_CTX_add_session has evicted *)
(* what exceeded the size of the cache.                                      *)
THEOREM CacheKeepsItsSize == Spec => []CacheBounded
<1>1. Inv => CacheBounded
  BY DEF Inv, Locked, Bounded, Evicting, Holding, CacheBounded
<1> QED BY <1>1, Invariance, PTL
=============================================================================
