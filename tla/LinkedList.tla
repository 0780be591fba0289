----------------------------- MODULE LinkedList -----------------------------
(***************************************************************************)
(* The circular doubly linked list with a head node, written ten times in  *)
(* the repository (lib1, lib2, lib3, rub_by_hand, list, stack, queue,      *)
(* hash_table), and its clients: list stack, list queue and hash table.    *)
(* The files share one algorithm; each is described by what it does        *)
(* differently, and a behaviour starts by choosing one of them.            *)
(*                                                                         *)
(* The heap is a record of functions over cells.  free(3) leaves a cell    *)
(* whose pointers must not be followed: they become NULL here, and NULL is *)
(* outside the domain of every field.                                      *)
(***************************************************************************)
EXTENDS Integers, Sequences, FiniteSets

CONSTANTS
  Cells,       \* what malloc can return for nodes
  Buckets,     \* the number of lists: capacity of the hash table
  Items,       \* data of a node: an id and the rest
  NULL, Gone

Heads == 0 .. Buckets - 1
All == Cells \cup Heads
Ids == {it.id : it \in Items}

ASSUME ListAssumption ==
  /\ Buckets \in Nat \ {0}
  /\ \A it \in Items : it.id \in Nat
  /\ IsFiniteSet(Cells) /\ Cells \cap Heads = {} /\ NULL \notin All
  /\ Gone \notin Seq(Items)

(***************************************************************************)
(* The files.  ops: what the file offers; "fetch?" is a list_fetch that     *)
(* does not test what _find returns, so that callers must know the item is *)
(* there.  rejects: an unknown insert mode is refused (elsewhere the freed *)
(* node is linked, and no caller passes one).  skips: the destroy loop     *)
(* advances twice.  client: what is built upon the list.                   *)
(***************************************************************************)
Basic == {"insert", "find", "delete"}
Lib1List == [ops |-> Basic \cup {"fetch"}, rejects |-> FALSE, skips |-> TRUE, client |-> "none"]
Lib2List == [ops |-> Basic \cup {"fetch"}, rejects |-> TRUE, skips |-> FALSE, client |-> "none"]
StaticLib2List == [ops |-> Basic \cup {"fetch"}, rejects |-> TRUE, skips |-> FALSE, client |-> "none"]
CurrentList == [ops |-> Basic \cup {"fetch"}, rejects |-> TRUE, skips |-> FALSE, client |-> "none"]
RubLib1List == [ops |-> Basic, rejects |-> TRUE, skips |-> FALSE, client |-> "none"]
RubLib2List == [ops |-> Basic, rejects |-> TRUE, skips |-> FALSE, client |-> "none"]
TwoWayList == [ops |-> Basic \cup {"fetch?"}, rejects |-> FALSE, skips |-> FALSE, client |-> "none"]
KernelList == [ops |-> {"insert", "find"}, rejects |-> FALSE, skips |-> FALSE, client |-> "none"]
HashList == [ops |-> {}, rejects |-> TRUE, skips |-> FALSE, client |-> "table"]
StackList == [ops |-> {}, rejects |-> TRUE, skips |-> FALSE, client |-> "stack"]
QueueList == [ops |-> {}, rejects |-> TRUE, skips |-> FALSE, client |-> "queue"]
Files == {Lib1List, Lib2List, StaticLib2List, CurrentList, RubLib1List, RubLib2List,
          TwoWayList, KernelList, HashList, StackList, QueueList}

VARIABLES
  file,
  heap,      \* [nxt, prv, item, owner]: owner is history, the list a cell was
             \* allocated for, or NULL when the cell is free
  open,      \* lists whose handle the program still uses
  victim,    \* list being destroyed, or NULL
  cur,       \* the loop variable of destroy
  answer     \* result of the last call

listVars == <<file, heap, open, victim, cur, answer>>

-----------------------------------------------------------------------------
(* The cells of list h, following the links f from the head. *)
Ring(f, h) ==
  LET step[i \in Nat] ==
        IF i = 0 THEN f[h] ELSE IF step[i - 1] = h THEN h ELSE f[step[i - 1]]
      size == CHOOSE n \in 0 .. Cardinality(Cells) :
                /\ step[n] = h \/ n = Cardinality(Cells)
                /\ \A m \in 0 .. n - 1 : step[m] # h
  IN [i \in 1 .. size |-> step[i - 1]]

Contents(h) ==
  LET r == Ring(heap.nxt, h) IN [i \in DOMAIN r |-> heap.item[r[i]]]

(* The cells a loop over list h can reach: no smaller set is closed.       *)
Closed(S) == \A x \in S : heap.nxt[x] \in S
Visited(h) == {x \in All : \A S \in SUBSET All : h \in S /\ Closed(S) => x \in S}

FoundLast(h, id) ==
  LET r == Ring(heap.prv, h)
  IN {c \in Visited(h) \cap Cells :
        \E i \in DOMAIN r : /\ r[i] = c /\ heap.item[c].id = id
                            /\ \A j \in 1 .. i - 1 : heap.item[r[j]].id # id}

(* _find: the first cell with the id, as a set with at most one element. *)
Found(h, id) ==
  LET r == Ring(heap.nxt, h)
  IN {c \in Visited(h) \cap Cells :
        \E i \in DOMAIN r : /\ r[i] = c /\ heap.item[c].id = id
                            /\ \A j \in 1 .. i - 1 : heap.item[r[j]].id # id}

FreeCells(H) == {c \in Cells : H.owner[c] = NULL}

LinkOneWay(H, h, new, p, it) ==
  [nxt   |-> [H.nxt EXCEPT ![new] = H.nxt[p], ![p] = new],
   prv   |-> [H.prv EXCEPT ![new] = p],
   item  |-> [H.item EXCEPT ![new] = it],
   owner |-> [H.owner EXCEPT ![new] = h]]

(* The four pointer writes of insert, after p. *)
Link(H, h, new, p, it) ==
  [nxt   |-> [H.nxt EXCEPT ![new] = H.nxt[p], ![p] = new],
   prv   |-> [H.prv EXCEPT ![new] = p, ![H.nxt[p]] = new],
   item  |-> [H.item EXCEPT ![new] = it],
   owner |-> [H.owner EXCEPT ![new] = h]]

(* The two pointer writes of delete, and free. *)
Unlink(H, c) ==
  [nxt   |-> [H.nxt EXCEPT ![H.prv[c]] = H.nxt[c], ![c] = NULL],
   prv   |-> [H.prv EXCEPT ![H.nxt[c]] = H.prv[c], ![c] = NULL],
   item  |-> [H.item EXCEPT ![c] = NULL],
   owner |-> [H.owner EXCEPT ![c] = NULL]]

-----------------------------------------------------------------------------
Result(r, it) == [ret |-> r, data |-> it]

ListInit ==
  /\ file \in Files
  /\ heap = [nxt   |-> [x \in All |-> IF x \in Heads THEN x ELSE NULL],
             prv   |-> [x \in All |-> IF x \in Heads THEN x ELSE NULL],
             item  |-> [c \in Cells |-> NULL],
             owner |-> [x \in All |-> IF x \in Heads THEN x ELSE NULL]]
  /\ open = Heads
  /\ victim = NULL /\ cur = NULL
  /\ answer = Result("none", NULL)

Idle(h) == h \in open /\ victim = NULL
Offers(op) == op \in file.ops

(* What a call returns, and what it leaves in *save or points to. *)
Answer(r, it) == answer' = Result(r, it) /\ UNCHANGED <<file, open, victim, cur>>
Reply(r) == Answer(r, NULL)
Refused(r) == Reply(r) /\ UNCHANGED heap

(* Where a new node goes: behind the head, or behind the last node. *)
HEADINSERT(h) == h
TAILINSERT(h) == heap.prv[h]

(* llist_insert: malloc may fail. *)
InsertAfter(h, p, it) ==
  \/ \E new \in FreeCells(heap) :
       heap' = Link(heap, h, new, p, it) /\ Reply("ok")
  \/ Refused("nomem")

list_insert(h, it) ==
  /\ Idle(h) /\ Offers("insert")
  /\ \/ InsertAfter(h, HEADINSERT(h), it)
     \/ InsertAfter(h, TAILINSERT(h), it)
     \/ file.rejects /\ Refused("badmode")

list_find(h, id) ==
  /\ Idle(h) /\ Offers("find")
  /\ \/ \E c \in Found(h, id) : Answer("ok", heap.item[c]) /\ UNCHANGED heap
     \/ Found(h, id) = {} /\ Refused("missing")

list_delete(h, id) ==
  /\ Idle(h) /\ Offers("delete")
  /\ \/ \E c \in Found(h, id) : heap' = Unlink(heap, c) /\ Reply("ok")
     \/ Found(h, id) = {} /\ Refused("missing")

list_fetch(h, id) ==
  /\ Idle(h)
  /\ \/ /\ Offers("fetch") \/ Offers("fetch?")
        /\ \E c \in Found(h, id) : heap' = Unlink(heap, c) /\ Answer("ok", heap.item[c])
     \/ Offers("fetch") /\ Found(h, id) = {} /\ Refused("missing")

(* llist_pop, on a list llist_is_empty finds not empty. *)
llist_pop(h) ==
  IF heap.nxt[h] = h THEN Refused("missing")
  ELSE /\ heap' = Unlink(heap, heap.nxt[h])
       /\ Answer("ok", heap.item[heap.nxt[h]])

(* stack_push does not look at what llist_insert returns. *)
stack_push(h, it) ==
  /\ Idle(h) /\ file.client = "stack"
  /\ \/ \E new \in FreeCells(heap) :
          heap' = Link(heap, h, new, HEADINSERT(h), it) /\ Reply("ok")
     \/ Refused("ok")

stack_pop(h) == Idle(h) /\ file.client = "stack" /\ llist_pop(h)

queue_en(h, it) ==
  Idle(h) /\ file.client = "queue" /\ InsertAfter(h, TAILINSERT(h), it)

queue_de(h) == Idle(h) /\ file.client = "queue" /\ llist_pop(h)

(* id_hash *)
Bucket(it) == it.id % Buckets

(* HTABLE_INSERT_REPLACE: delete in the bucket, then insert at its tail, *)
(* where malloc may return the cell just freed, or nothing.               *)
ReplaceIn(h, c, it) ==
  LET H == Unlink(heap, c)
  IN \/ \E new \in FreeCells(H) :
          heap' = Link(H, h, new, H.prv[h], it) /\ Reply("ok")
     \/ heap' = H /\ Reply("nomem")

htable_insert(it) ==
  LET h == Bucket(it)
  IN /\ Idle(h) /\ file.client = "table" /\ open = Heads
     /\ \/ \E c \in Found(h, it.id) : ReplaceIn(h, c, it)
        \/ Found(h, it.id) # {} /\ Refused("duplicate")    \* NOSAME
        \/ InsertAfter(h, TAILINSERT(h), it)                 \* SAME
        \/ Refused("badmode")

(* queue_distroy leaves an empty queue allocated.  htable_destroy destroys *)
(* one bucket after the other; no insertion comes in between.              *)
list_destroy(h) ==
  /\ Idle(h)
  /\ answer' = Result("ok", NULL)
  /\ IF file.client = "queue" /\ heap.nxt[h] = h
     THEN open' = open \ {h} /\ UNCHANGED <<victim, cur>>
     ELSE victim' = h /\ cur' = heap.nxt[h] /\ UNCHANGED open
  /\ UNCHANGED <<file, heap>>

DestroyCellSkips ==
  /\ victim # NULL /\ cur # victim
  /\ LET H == Unlink(heap, cur)
     IN heap' = H /\ cur' = H.nxt[H.nxt[victim]]
  /\ UNCHANGED <<file, open, victim, answer>>

(* One turn of the loop; lib1 steps on from the cell it restarts at. *)
DestroyCell ==
  /\ victim # NULL /\ cur # victim
  /\ LET H == Unlink(heap, cur)
         first == H.nxt[victim]
     IN /\ heap' = H
        /\ cur' = IF file.skips THEN H.nxt[first] ELSE first
  /\ UNCHANGED <<file, open, victim, answer>>

DestroyHead ==
  /\ victim # NULL /\ cur = victim
  /\ heap' = [heap EXCEPT !.owner[victim] = NULL, !.nxt[victim] = NULL, !.prv[victim] = NULL]
  /\ open' = open \ {victim}
  /\ victim' = NULL /\ cur' = NULL
  /\ UNCHANGED <<file, answer>>

ListNext ==
  \/ \E h \in Heads :
       \/ \E it \in Items : list_insert(h, it) \/ stack_push(h, it) \/ queue_en(h, it)
       \/ \E id \in Ids : list_find(h, id) \/ list_delete(h, id) \/ list_fetch(h, id)
       \/ stack_pop(h) \/ queue_de(h) \/ list_destroy(h)
  \/ \E it \in Items : htable_insert(it)
  \/ DestroyCell
  \/ DestroyHead

ListSpec == ListInit /\ [][ListNext]_listVars

-----------------------------------------------------------------------------
Linked == {x \in All : heap.owner[x] \in open}

ListTypeOK ==
  /\ file \in Files
  /\ open \subseteq Heads
  /\ victim \in open \cup {NULL}
  /\ cur \in All \cup {NULL}
  /\ heap \in [nxt : [All -> All \cup {NULL}], prv : [All -> All \cup {NULL}],
               item : [Cells -> Items \cup {NULL}], owner : [All -> Heads \cup {NULL}]]
  /\ answer \in [ret : {"none", "ok", "nomem", "badmode", "duplicate", "missing"},
                data : Items \cup {NULL}]

(***************************************************************************)
(* No link of a list in use leads to a freed cell or into another list,    *)
(* and both directions agree, at every step of every operation of the list *)
(* files: nothing is used after free(3), whichever cell malloc reuses.     *)
(***************************************************************************)
LinksAgree ==
  \A x \in Linked :
    /\ heap.nxt[x] \in All /\ heap.prv[x] \in All
    /\ heap.owner[heap.nxt[x]] = heap.owner[x]
    /\ heap.owner[heap.prv[x]] = heap.owner[x]
    /\ heap.prv[heap.nxt[x]] = x
    /\ heap.nxt[heap.prv[x]] = x

(***************************************************************************)
(* Nothing allocated is unreachable: every cell of a list in use is found  *)
(* from its head, and a destroyed list has given its cells back, except    *)
(* that lib1's list_destroy keeps one when there were two or more, and     *)
(* queue_distroy keeps the head of an empty queue.                         *)
(***************************************************************************)
NothingLeaks ==
  \A h \in Heads :
    LET mine == {x \in All : heap.owner[x] = h}
    IN IF h \in open
       THEN LET r == Ring(heap.nxt, h) IN mine = {h} \cup {r[i] : i \in DOMAIN r}
       ELSE \/ mine = {}
            \/ file.skips /\ Cardinality(mine) = 1
            \/ file.client = "queue" /\ mine = {h}

(***************************************************************************)
(* The lists behave as sequences (ItemLists): insertion at either end,     *)
(* search, deletion and fetch of the first match, pop, replacement in a    *)
(* bucket, and refusals that change nothing.                               *)
(***************************************************************************)
Promise == INSTANCE ItemLists WITH
  lists <- [h \in Heads |-> IF h \in open /\ victim # h THEN Contents(h) ELSE Gone]
ListsAreSequences == Promise!AbsSpec
=============================================================================
