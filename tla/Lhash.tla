-------------------------------- MODULE Lhash --------------------------------
(* The hash table of libcrypto (lhash.c): linear hashing, with buckets that  *)
(* are split and merged one at a time as items come and go, and a walk over  *)
(* all items whose callback may delete the item it is given.  The session    *)
(* cache keeps its sessions in one.                                          *)
EXTENDS Integers, FiniteSets, SequencesExt

CONSTANTS
    Data,           \* the items
    Key,            \* what lh->comp compares
    Hash,           \* lh->hash, a function of the key
    None,           \* NULL
    MIN_NODES, LH_LOAD_MULT, UP_LOAD, DOWN_LOAD

ASSUME LhashAssumption ==
    /\ MIN_NODES \in Nat /\ MIN_NODES >= 2 /\ MIN_NODES % 2 = 0
    /\ LH_LOAD_MULT \in Nat \ {0} /\ UP_LOAD \in Nat /\ DOWN_LOAD \in Nat
    /\ \A d \in Data : Hash[Key[d]] \in Nat

VARIABLES
    lh,             \* the table; b: each bucket, the sequence of its items
    walk,           \* the walk of doall_util_fn
    ret             \* the last operation, its argument and what it returned

vars == <<lh, walk, ret>>

Keys == {Key[d] : d \in Data}
HashOf(d) == Hash[Key[d]]

Idle == [on |-> FALSE, beyond |-> FALSE, i |-> 0, a |-> None, todo |-> {}, seen |-> {}]

lh_new ==
    [b |-> [i \in 0 .. MIN_NODES - 1 |-> << >>],
     num_nodes |-> MIN_NODES \div 2, num_alloc_nodes |-> MIN_NODES,
     p |-> 0, pmax |-> MIN_NODES \div 2, num_items |-> 0,
     down_load |-> DOWN_LOAD, error |-> FALSE]

Init == lh = lh_new /\ walk = Idle /\ ret = <<"new", None, None>>

Load(h) == (h.num_items * LH_LOAD_MULT) \div h.num_nodes

-----------------------------------------------------------------------------
(* Bucket p is split; the items that move end up in reverse order.  When all *)
(* buckets are split the table doubles, if there is memory.                  *)
Split(h) ==
    LET stays(d) == HashOf(d) % h.num_alloc_nodes = h.p
        moves(d) == ~stays(d)
    IN  [h EXCEPT !.num_nodes = @ + 1, !.p = @ + 1,
                  !.b[h.p] = SelectSeq(@, stays),
                  !.b[h.p + h.pmax] = Reverse(SelectSeq(h.b[h.p], moves))]

Double(h) ==
    [h EXCEPT !.b = [i \in 0 .. 2 * h.num_alloc_nodes - 1 |->
                        IF i < h.num_alloc_nodes THEN h.b[i] ELSE << >>],
              !.pmax = h.num_alloc_nodes, !.num_alloc_nodes = 2 * @, !.p = 0]

(* Mutant: the table doubles one bucket too early. *)
DoubleWhenFullEarly(h, memory) ==
    IF h.p + 1 < h.pmax THEN h
    ELSE IF memory THEN Double(h) ELSE [h EXCEPT !.error = TRUE, !.p = 0]

DoubleWhenFull(h, memory) ==
    IF h.p < h.pmax THEN h
    ELSE IF memory THEN Double(h) ELSE [h EXCEPT !.error = TRUE, !.p = 0]

expand(h, memory) == DoubleWhenFull(Split(h), memory)

(* The last bucket is merged into the one it was split from.  When there is  *)
(* no memory to make the table smaller its items are lost.                   *)
Halve(h) ==
    [h EXCEPT !.b = [i \in 0 .. h.pmax - 1 |-> h.b[i]],
              !.num_alloc_nodes = @ \div 2, !.pmax = @ \div 2, !.p = h.pmax \div 2 - 1]

Merge(h, chain) == [h EXCEPT !.num_nodes = @ - 1, !.b[h.p] = @ \o chain]

Emptied(h) == [h EXCEPT !.b[h.p + h.pmax - 1] = << >>]

contract(h, memory) ==
    IF h.p > 0 THEN Merge([Emptied(h) EXCEPT !.p = @ - 1], h.b[h.p + h.pmax - 1])
    ELSE IF memory THEN Merge(Halve(Emptied(h)), h.b[h.p + h.pmax - 1])
    ELSE [Emptied(h) EXCEPT !.error = TRUE]

(* getrn: the bucket of a hash, and the items of its chain with a key.       *)
Bucket(h, hash) ==
    IF hash % h.pmax < h.p THEN hash % h.num_alloc_nodes ELSE hash % h.pmax

Found(h, k) == SelectSeq(h.b[Bucket(h, Hash[k])], LAMBDA d : Key[d] = k)

getrn(h, k) == IF Found(h, k) = << >> THEN None ELSE Head(Found(h, k))

lh_retrieve(h, k) == getrn(h, k)

-----------------------------------------------------------------------------
(* lh_insert: make room, then replace the item of the key or add it to the   *)
(* end of its chain.  Memory may run out for the larger table, and for the   *)
(* node of a new item, which is then not inserted.                           *)
Room(h, memory) == IF UP_LOAD <= Load(h) THEN expand(h, memory) ELSE h

(* Mutant: the item of a key that is known is kept. *)
PutKeepsOld(h, d) ==
    IF getrn(h, Key[d]) = None
    THEN [h EXCEPT !.b[Bucket(h, HashOf(d))] = Append(@, d), !.num_items = @ + 1]
    ELSE h

Put(h, d) ==
    IF getrn(h, Key[d]) = None
    THEN [h EXCEPT !.b[Bucket(h, HashOf(d))] = Append(@, d), !.num_items = @ + 1]
    ELSE [h EXCEPT !.b[Bucket(h, HashOf(d))] = ReplaceAll(@, getrn(h, Key[d]), d)]

lh_insert(d) ==
    /\ ~walk.on /\ ~lh.error
    /\ \E memory \in BOOLEAN :
          LET h == Room(lh, memory)
          IN  \/ lh' = Put(h, d) /\ ret' = <<"insert", d, getrn(h, Key[d])>>
              \/ /\ getrn(h, Key[d]) = None
                 /\ lh' = h /\ ret' = <<"insert", d, None>>     \* no memory for the node
    /\ UNCHANGED walk

(* down_load is 0 during a walk, which does not keep an almost empty table   *)
(* from shrinking.                                                           *)
Shrinks(h) == h.num_nodes > MIN_NODES /\ h.down_load >= Load(h)

Shrink(h, memory) == IF Shrinks(h) THEN contract(h, memory) ELSE h

Take(h, d) == [h EXCEPT !.b[Bucket(h, HashOf(d))] = Remove(@, d), !.num_items = @ - 1]

Deleted(h, k, memory) == IF getrn(h, k) = None THEN h ELSE Shrink(Take(h, getrn(h, k)), memory)

lh_delete(k) ==
    /\ ~walk.on /\ ~lh.error
    /\ \E memory \in BOOLEAN : lh' = Deleted(lh, k, memory)
    /\ ret' = <<"delete", k, getrn(lh, k)>>
    /\ UNCHANGED walk

-----------------------------------------------------------------------------
(* doall_util_fn, from the top bucket to the bottom one.                     *)

Items(h) == UNION {ToSet(h.b[i]) : i \in DOMAIN h.b}

(* The first item at or below bucket i.  Bucket i itself may have gone with  *)
(* the part of the array that contract gave back: what the loop reads there  *)
(* is anything, and nothing is said of the walk from then on.                *)
FirstBelow(h, i) ==
    LET full == {j \in 0 .. i : h.b[j] # << >>}
    IN  CASE i >= h.num_alloc_nodes -> [beyond |-> TRUE, i |-> i, a |-> None]
          [] i < h.num_alloc_nodes /\ full = {} -> [beyond |-> FALSE, i |-> 0, a |-> None]
          [] OTHER -> LET top == CHOOSE j \in full : \A k \in full : k <= j
                      IN  [beyond |-> FALSE, i |-> top, a |-> Head(h.b[top])]

(* a->next *)
NextOf(h, d) ==
    LET i == CHOOSE j \in DOMAIN h.b : d \in ToSet(h.b[j])
        n == CHOOSE j \in DOMAIN h.b[i] : h.b[i][j] = d
    IN  IF n = Len(h.b[i]) THEN None ELSE h.b[i][n + 1]

At(pos, todo, seen) ==
    [on |-> TRUE, beyond |-> pos.beyond, i |-> pos.i, a |-> pos.a,
     todo |-> todo, seen |-> seen]

StartWalk ==
    /\ ~walk.on /\ ~lh.error
    /\ lh' = [lh EXCEPT !.down_load = 0]
    /\ walk' = At(FirstBelow(lh, lh.num_nodes - 1), Items(lh), {})
    /\ UNCHANGED ret

(* Mutant: the rest of the chain is lost with the item. *)
GoOnBelow(h, next) == FirstBelow(h, walk.i - 1)

(* Where the walk goes on when the callback has returned: to the item that   *)
(* followed before, or to the next bucket of the table as it is now.         *)
GoOn(h, next) ==
    IF next # None THEN [beyond |-> FALSE, i |-> walk.i, a |-> next] ELSE FirstBelow(h, walk.i - 1)

(* The callback gets an item, and deletes it or keeps it.                    *)
Visit(delete) ==
    /\ walk.on /\ walk.a # None /\ ~lh.error
    /\ \E memory \in BOOLEAN :
          LET h == IF delete THEN Deleted(lh, Key[walk.a], memory) ELSE lh
          IN  /\ lh' = h
              /\ walk' = At(GoOn(h, NextOf(lh, walk.a)), walk.todo, walk.seen \cup {walk.a})
    /\ ret' = IF delete THEN <<"delete", Key[walk.a], walk.a>> ELSE ret

EndWalk ==
    /\ walk.on /\ walk.a = None /\ ~walk.beyond /\ ~lh.error
    /\ walk' = Idle
    /\ \E memory \in BOOLEAN : lh' = Shrink([lh EXCEPT !.down_load = DOWN_LOAD], memory)
    /\ UNCHANGED ret

(* Without memory the table has lost items, and a walk that has left the     *)
(* array reads what it finds there; nothing is said of what follows.         *)
Broken == (lh.error \/ walk.beyond) /\ UNCHANGED vars

Next ==
    \/ \E d \in Data : lh_insert(d)
    \/ \E k \in Keys : lh_delete(k)
    \/ StartWalk
    \/ \E delete \in BOOLEAN : Visit(delete)
    \/ EndWalk
    \/ Broken

Spec == Init /\ [][Next]_vars

-----------------------------------------------------------------------------
(* Part of CountsAreExact. *)
TypeOK ==
    /\ DOMAIN lh.b = 0 .. lh.num_alloc_nodes - 1
    /\ \A i \in DOMAIN lh.b : ToSet(lh.b[i]) \subseteq Data
    /\ walk.a \in Data \cup {None} /\ walk.seen \subseteq Data
    /\ ret[3] \in Data \cup {None}

(* The counters describe the table: the buckets in use are those below       *)
(* num_nodes, and num_items is the number of items that can be found         *)
(* (expand, contract, lh_insert, lh_delete).                                 *)
CountsAreExact ==
    /\ TypeOK
    /\ ~lh.error =>
        /\ lh.num_nodes = lh.pmax + lh.p /\ lh.num_alloc_nodes = 2 * lh.pmax /\ lh.p < lh.pmax
        /\ \A i \in DOMAIN lh.b : i >= lh.num_nodes => lh.b[i] = << >>
        /\ lh.num_items = Cardinality({k \in Keys : lh_retrieve(lh, k) # None})
        /\ lh.num_items = Cardinality(Items(lh))

(* A walk gives the callback every item that was in the table when it began, *)
(* although deletions move items between buckets and the table shrinks under *)
(* it, unless the loop has left the array (doall_util_fn).                   *)
WalkVisitsAll ==
    walk.on /\ walk.a = None /\ ~walk.beyond /\ ~lh.error => walk.todo = walk.seen

(* Every bucket that a walk reads is one of the table as it is at that time: *)
(* "Disable contraction of the hash while walking, as some consumers use it  *)
(* to delete hash entries" (lhash.c:354, doall_util_fn).                     *)
WalkStaysInTable == ~walk.beyond

Contents == [k \in Keys |-> lh_retrieve(lh, k)]

Dict == INSTANCE Dictionary WITH dict <- Contents

(* Until memory runs out the table is a map: whatever is inserted is found   *)
(* until it is deleted, however often the table is split and merged.         *)
IsDictionary == Dict!Init /\ [][~lh'.error => Dict!Next]_<<Contents, ret>>
==============================================================================
