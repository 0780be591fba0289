-------------------------- MODULE ContainerProofs ---------------------------
(***************************************************************************)
(* The sequential programs, for every value of their constants: the list   *)
(* files never leave a link into a freed cell or into another list,        *)
(* whichever cell malloc returns, lose no cell but the known ones, and are *)
(* sequences to their callers; the search tree stays one, turning closes   *)
(* in on the middle and leaves it even; five in a row ends with the first  *)
(* line on any board; and recipe ids stay unique.                          *)
(***************************************************************************)
EXTENDS LinkedList, SearchTree, Gomoku, Recipes, FiniteSetTheorems, SequenceTheorems,
        WellFoundedInduction, TLAPS

HeapType ==
  [nxt : [All -> All \cup {NULL}], prv : [All -> All \cup {NULL}],
   item : [Cells -> Items \cup {NULL}], owner : [All -> Heads \cup {NULL}]]

(* LinksAgree of any heap and any set of lists in use. *)
Sound(H, O) ==
  \A x \in All : H.owner[x] \in O =>
    /\ H.nxt[x] \in All /\ H.prv[x] \in All
    /\ H.owner[H.nxt[x]] = H.owner[x]
    /\ H.owner[H.prv[x]] = H.owner[x]
    /\ H.prv[H.nxt[x]] = x
    /\ H.nxt[H.prv[x]] = x

(* A head is in no list but its own, and in that one while it is in use. *)
Rooted(H, O) ==
  \A h \in Heads : /\ H.owner[h] \in {h, NULL}
                   /\ h \in O => H.owner[h] = h

Good(H, O) == H \in HeapType /\ Sound(H, O) /\ Rooted(H, O)

(* The loop of destroy stands on a cell of the list it destroys. *)
OnVictim == victim # NULL => cur \in All /\ heap.owner[cur] = victim

ListInv == ListTypeOK /\ Sound(heap, open) /\ Rooted(heap, open) /\ OnVictim

LEMMA HeadsAreNotCells ==
  /\ NULL \notin All
  /\ \A h \in Heads : h \in All /\ h \notin Cells /\ h # NULL
  /\ \A c \in Cells : c \in All /\ c \notin Heads
  BY ListAssumption DEF All

-----------------------------------------------------------------------------
(* Insertion: a free cell is put behind any node p of the list. *)
LEMMA LinkGood ==
  ASSUME NEW H, NEW O \in SUBSET Heads, Good(H, O),
         NEW h \in O, NEW new \in FreeCells(H), NEW p \in All, H.owner[p] = h,
         NEW it \in Items
  PROVE  Good(Link(H, h, new, p, it), O)
<1> DEFINE K == Link(H, h, new, p, it)
           q == H.nxt[p]
<1>1. h \in Heads /\ h # NULL /\ new \in All /\ new \notin Heads /\ H.owner[new] = NULL
  BY HeadsAreNotCells DEF FreeCells
<1>2. q \in All /\ H.owner[q] = h /\ H.prv[q] = p
  BY DEF Good, Sound
<1>3. p # new /\ q # new
  BY <1>1, <1>2
<1>4. H \in HeapType
  BY DEF Good
<1>5. K.nxt = [H.nxt EXCEPT ![new] = q, ![p] = new] /\ K.prv = [H.prv EXCEPT ![new] = p, ![q] = new]
  BY DEF Link
<1>6. K.owner = [H.owner EXCEPT ![new] = h] /\ K.item = [H.item EXCEPT ![new] = it]
  BY DEF Link
<1>7. K \in HeapType
  <2>1. K = [nxt |-> K.nxt, prv |-> K.prv, item |-> K.item, owner |-> K.owner]
    BY DEF Link
  <2>2. K.nxt \in [All -> All \cup {NULL}] /\ K.prv \in [All -> All \cup {NULL}]
    BY <1>1, <1>2, <1>4, <1>5 DEF HeapType
  <2>3. K.item \in [Cells -> Items \cup {NULL}] /\ K.owner \in [All -> Heads \cup {NULL}]
    BY <1>1, <1>4, <1>6, ZenonT(40) DEF HeapType
  <2> HIDE DEF K
  <2> QED
    BY <2>1, <2>2, <2>3 DEF HeapType
<1>8. Rooted(K, O)
  <2> HIDE DEF K
  <2> QED
    BY <1>1, <1>4, <1>6, HeadsAreNotCells DEF Rooted, Good, HeapType
<1>9. Sound(K, O)
  <2> SUFFICES ASSUME NEW x \in All, K.owner[x] \in O
               PROVE  /\ K.nxt[x] \in All /\ K.prv[x] \in All
                      /\ K.owner[K.nxt[x]] = K.owner[x]
                      /\ K.owner[K.prv[x]] = K.owner[x]
                      /\ K.prv[K.nxt[x]] = x
                      /\ K.nxt[K.prv[x]] = x
    BY DEF Sound
  <2> HIDE DEF K, q
  <2>0. /\ \A y \in All : K.nxt[y] = IF y = p THEN new ELSE IF y = new THEN q ELSE H.nxt[y]
        /\ \A y \in All : K.prv[y] = IF y = q THEN new ELSE IF y = new THEN p ELSE H.prv[y]
        /\ \A y \in All : K.owner[y] = IF y = new THEN h ELSE H.owner[y]
    BY <1>1, <1>2, <1>3, <1>4, <1>5, <1>6 DEF HeapType
  <2>1. CASE x = new
    BY <2>0, <2>1, <1>1, <1>2, <1>3
  <2>2. CASE x # new
    <3>0. H.owner[x] \in O /\ K.owner[x] = H.owner[x]
      BY <2>0, <2>2
    <3>1. /\ H.nxt[x] \in All /\ H.prv[x] \in All
          /\ H.owner[H.nxt[x]] = H.owner[x] /\ H.owner[H.prv[x]] = H.owner[x]
          /\ H.prv[H.nxt[x]] = x /\ H.nxt[H.prv[x]] = x
      BY <3>0 DEF Good, Sound
    <3>2. H.nxt[x] # new /\ H.prv[x] # new
      BY <3>0, <3>1, <1>1, HeadsAreNotCells
    <3>3. /\ K.nxt[x] \in All /\ K.owner[K.nxt[x]] = K.owner[x] /\ K.prv[K.nxt[x]] = x
      BY <3>0, <3>1, <3>2, <2>0, <2>2, <1>1, <1>2, <1>3 DEF q
    <3>4. /\ K.prv[x] \in All /\ K.owner[K.prv[x]] = K.owner[x] /\ K.nxt[K.prv[x]] = x
      BY <3>0, <3>1, <3>2, <2>0, <2>2, <1>1, <1>2, <1>3 DEF q
    <3> QED
      BY <3>3, <3>4
  <2> QED
    BY <2>1, <2>2
<1> QED
  BY <1>7, <1>8, <1>9 DEF Good

(* Deletion: any node but the head, wherever it stands. *)
LEMMA UnlinkGood ==
  ASSUME NEW H, NEW O \in SUBSET Heads, Good(H, O), NEW c \in Cells, H.owner[c] \in O
  PROVE  Good(Unlink(H, c), O)
<1> DEFINE K == Unlink(H, c)
           p == H.prv[c]
           n == H.nxt[c]
<1>1. c \in All /\ c \notin Heads
  BY HeadsAreNotCells
<1>2. p \in All /\ n \in All /\ H.owner[p] = H.owner[c] /\ H.owner[n] = H.owner[c] /\ H.nxt[p] = c /\ H.prv[n] = c
  BY <1>1 DEF Good, Sound
<1>3. H \in HeapType
  BY DEF Good
<1>4. K.nxt = [H.nxt EXCEPT ![p] = n, ![c] = NULL] /\ K.prv = [H.prv EXCEPT ![n] = p, ![c] = NULL]
  BY DEF Unlink
<1>5. K.owner = [H.owner EXCEPT ![c] = NULL] /\ K.item = [H.item EXCEPT ![c] = NULL]
  BY DEF Unlink
<1>6. K \in HeapType
  <2>1. K = [nxt |-> K.nxt, prv |-> K.prv, item |-> K.item, owner |-> K.owner]
    BY DEF Unlink
  <2>2. K.nxt \in [All -> All \cup {NULL}] /\ K.prv \in [All -> All \cup {NULL}]
    BY <1>1, <1>2, <1>3, <1>4 DEF HeapType
  <2>3. K.item \in [Cells -> Items \cup {NULL}] /\ K.owner \in [All -> Heads \cup {NULL}]
    BY <1>1, <1>3, <1>5 DEF HeapType
  <2> HIDE DEF K
  <2> QED
    BY <2>1, <2>2, <2>3 DEF HeapType
<1>7. Rooted(K, O)
  <2> HIDE DEF K
  <2> QED
    BY <1>1, <1>3, <1>5, HeadsAreNotCells DEF Rooted, Good, HeapType
<1>8. Sound(K, O)
  <2> SUFFICES ASSUME NEW x \in All, K.owner[x] \in O
               PROVE  /\ K.nxt[x] \in All /\ K.prv[x] \in All
                      /\ K.owner[K.nxt[x]] = K.owner[x]
                      /\ K.owner[K.prv[x]] = K.owner[x]
                      /\ K.prv[K.nxt[x]] = x
                      /\ K.nxt[K.prv[x]] = x
    BY DEF Sound
  <2> HIDE DEF K, p, n
  <2>0. /\ \A y \in All : K.nxt[y] = IF y = c THEN NULL ELSE IF y = p THEN n ELSE H.nxt[y]
        /\ \A y \in All : K.prv[y] = IF y = c THEN NULL ELSE IF y = n THEN p ELSE H.prv[y]
        /\ \A y \in All : K.owner[y] = IF y = c THEN NULL ELSE H.owner[y]
    BY <1>1, <1>2, <1>3, <1>4, <1>5 DEF HeapType
  <2>1. x # c /\ H.owner[x] \in O /\ K.owner[x] = H.owner[x]
    BY <2>0, HeadsAreNotCells
  <2>2. /\ H.nxt[x] \in All /\ H.prv[x] \in All
        /\ H.owner[H.nxt[x]] = H.owner[x] /\ H.owner[H.prv[x]] = H.owner[x]
        /\ H.prv[H.nxt[x]] = x /\ H.nxt[H.prv[x]] = x
    BY <2>1 DEF Good, Sound
  <2>3. /\ K.nxt[x] \in All /\ K.owner[K.nxt[x]] = K.owner[x] /\ K.prv[K.nxt[x]] = x
    <3>1. CASE x = p
      <4>1. n # c
        BY <3>1, <2>1, <1>2 DEF n, p
      <4> QED
        BY <4>1, <3>1, <2>0, <2>1, <1>2
    <3>2. CASE x # p
      <4>1. H.nxt[x] # c /\ H.nxt[x] # n
        BY <3>2, <2>1, <2>2, <1>2 DEF p
      <4> QED
        BY <4>1, <3>2, <2>0, <2>1, <2>2
    <3> QED
      BY <3>1, <3>2
  <2>4. /\ K.prv[x] \in All /\ K.owner[K.prv[x]] = K.owner[x] /\ K.nxt[K.prv[x]] = x
    <3>1. CASE x = n
      <4>1. p # c
        BY <3>1, <2>1, <1>2 DEF n, p
      <4> QED
        BY <4>1, <3>1, <2>0, <2>1, <1>2
    <3>2. CASE x # n
      <4>1. H.prv[x] # c /\ H.prv[x] # p
        BY <3>2, <2>1, <2>2, <1>2 DEF n
      <4> QED
        BY <4>1, <3>2, <2>0, <2>1, <2>2
    <3> QED
      BY <3>1, <3>2
  <2> QED
    BY <2>3, <2>4
<1> QED
  BY <1>6, <1>7, <1>8 DEF Good

-----------------------------------------------------------------------------
LEMMA InitInv == ListInit => ListInv
<1> SUFFICES ASSUME ListInit PROVE ListInv
  OBVIOUS
<1>1. heap.nxt = [x \in All |-> IF x \in Heads THEN x ELSE NULL] /\ heap.prv = heap.nxt /\ heap.owner = heap.nxt
  BY DEF ListInit
<1>2. heap \in HeapType
  BY HeadsAreNotCells DEF ListInit, HeapType
<1>3. ListTypeOK
  BY <1>2 DEF ListInit, ListTypeOK, Result, HeapType
<1>4. \A x \in All : heap.owner[x] = IF x \in Heads THEN x ELSE NULL
  BY <1>1
<1>5. Sound(heap, open) /\ Rooted(heap, open)
  BY <1>1, <1>4, HeadsAreNotCells DEF Sound, Rooted, ListInit
<1> QED
  BY <1>3, <1>5 DEF ListInv, OnVictim, ListInit

(* The heap part of the invariant, and what a step on a good heap restores. *)
LEMMA InvIsGood ==
  ASSUME ListInv
  PROVE  Good(heap, open) /\ open \in SUBSET Heads
  BY DEF ListInv, ListTypeOK, Good, HeapType

(* A call ends with a good heap and a typed answer, while no list is being *)
(* destroyed.                                                              *)
LEMMA CallInv ==
  ASSUME ListInv, NEW h \in Heads, Idle(h), NEW r \in {"ok", "nomem", "badmode", "duplicate", "missing"},
         NEW it \in Items \cup {NULL}, Answer(r, it), Good(heap', open)
  PROVE  ListInv'
<1>1. open' = open /\ victim' = NULL /\ file' = file /\ cur' = cur /\ victim = NULL
  BY DEF Answer, Idle
<1>2. answer' \in [ret : {"none", "ok", "nomem", "badmode", "duplicate", "missing"}, data : Items \cup {NULL}]
  BY DEF Answer, Result
<1>3. heap' \in HeapType /\ Sound(heap', open') /\ Rooted(heap', open')
  BY <1>1 DEF Good
<1>4. ListTypeOK'
  BY <1>1, <1>2, <1>3 DEF ListInv, ListTypeOK, HeapType
<1> QED
  BY <1>1, <1>3, <1>4 DEF ListInv, OnVictim

(* A call that is refused. *)
LEMMA RefusedInv ==
  ASSUME ListInv, NEW h \in Heads, Idle(h), NEW r \in {"ok", "nomem", "badmode", "duplicate", "missing"}, Refused(r)
  PROVE  ListInv'
<1>1. Answer(r, NULL) /\ heap' = heap
  BY DEF Refused, Reply
<1> QED
  BY <1>1, CallInv, InvIsGood

LEMMA InsertInv ==
  ASSUME ListInv, NEW h \in Heads, Idle(h), NEW p \in {HEADINSERT(h), TAILINSERT(h)},
         NEW it \in Items, InsertAfter(h, p, it)
  PROVE  ListInv'
<1>1. h \in open /\ h \in All /\ Good(heap, open) /\ open \in SUBSET Heads
  BY InvIsGood, HeadsAreNotCells DEF Idle
<1>2. heap.owner[h] = h
  BY <1>1 DEF Good, Rooted
<1>3. p \in All /\ heap.owner[p] = h
  BY <1>1, <1>2 DEF Good, Sound, HEADINSERT, TAILINSERT
<1>4. ASSUME NEW new \in FreeCells(heap), heap' = Link(heap, h, new, p, it), Reply("ok") PROVE ListInv'
  <2>1. Good(heap', open)
    BY <1>1, <1>3, <1>4, LinkGood
  <2> QED
    BY <2>1, <1>4, CallInv DEF Reply
<1>5. CASE Refused("nomem")
  BY <1>5, RefusedInv
<1> QED
  BY <1>4, <1>5 DEF InsertAfter

(* stack_push: as an insertion, but the refusal is reported as success. *)
LEMMA PushInv ==
  ASSUME ListInv, NEW h \in Heads, NEW it \in Items, stack_push(h, it)
  PROVE  ListInv'
<1>1. Idle(h)
  BY DEF stack_push
<1>2. CASE Refused("ok")
  BY <1>1, <1>2, RefusedInv
<1>3. CASE ~Refused("ok")
  BY <1>1, <1>3, InsertInv DEF stack_push, InsertAfter
<1> QED
  BY <1>2, <1>3

(* What _find returns is a cell of the list: the cells the list owns are   *)
(* closed under next, so the search never leaves them.                     *)
LEMMA FoundIsOwned ==
  ASSUME ListInv, NEW h \in Heads, h \in open, NEW id, NEW c \in Found(h, id)
  PROVE  c \in Cells /\ heap.owner[c] = h
<1> DEFINE S == {y \in All : heap.owner[y] = h}
<1>1. c \in Cells /\ c \in Visited(h)
  BY DEF Found
<1>2. h \in S
  BY HeadsAreNotCells DEF ListInv, Rooted
<1>3. Closed(S)
  BY DEF Closed, ListInv, Sound
<1>4. S \in SUBSET All
  OBVIOUS
<1>5. c \in S
  BY <1>1, <1>2, <1>3, <1>4 DEF Visited
<1> QED
  BY <1>1, <1>5

(* Deleting or fetching a cell of the list; the item is what was stored. *)
LEMMA RemoveInv ==
  ASSUME ListInv, NEW h \in Heads, Idle(h), NEW c \in Cells, heap.owner[c] = h,
         heap' = Unlink(heap, c), Answer("ok", NULL) \/ Answer("ok", heap.item[c])
  PROVE  ListInv'
<1>1. Good(heap, open) /\ open \in SUBSET Heads /\ h \in open
  BY InvIsGood DEF Idle
<1>2. Good(heap', open)
  BY <1>1, UnlinkGood
<1>3. heap.item[c] \in Items \cup {NULL}
  BY <1>1 DEF Good, HeapType
<1> QED
  BY <1>2, <1>3, CallInv

LEMMA FindInv ==
  ASSUME ListInv, NEW h \in Heads, NEW id, list_find(h, id)
  PROVE  ListInv'
<1>1. Idle(h) /\ h \in open
  BY DEF list_find, Idle
<1>2. ASSUME NEW c \in Found(h, id), Answer("ok", heap.item[c]), heap' = heap PROVE ListInv'
  <2>1. heap.item[c] \in Items \cup {NULL}
    BY <1>1, <1>2, FoundIsOwned, InvIsGood DEF Good, HeapType
  <2> QED
    BY <1>1, <1>2, <2>1, CallInv, InvIsGood
<1>3. CASE Refused("missing")
  BY <1>1, <1>3, RefusedInv
<1> QED
  BY <1>2, <1>3 DEF list_find

LEMMA DeleteInv ==
  ASSUME ListInv, NEW h \in Heads, NEW id, list_delete(h, id) \/ list_fetch(h, id)
  PROVE  ListInv'
<1>1. Idle(h) /\ h \in open
  BY DEF list_delete, list_fetch, Idle
<1>2. ASSUME NEW c \in Found(h, id), heap' = Unlink(heap, c),
             Answer("ok", NULL) \/ Answer("ok", heap.item[c])
      PROVE  ListInv'
  BY <1>1, <1>2, FoundIsOwned, RemoveInv
<1>3. CASE Refused("missing")
  BY <1>1, <1>3, RefusedInv
<1> QED
  BY <1>2, <1>3 DEF list_delete, list_fetch, Reply

LEMMA PopInv ==
  ASSUME ListInv, NEW h \in Heads, Idle(h), llist_pop(h)
  PROVE  ListInv'
<1>1. CASE heap.nxt[h] = h
  BY <1>1, RefusedInv DEF llist_pop
<1>2. CASE heap.nxt[h] # h
  <2> DEFINE c == heap.nxt[h]
  <2>1. h \in open /\ h \in All /\ Good(heap, open)
    BY InvIsGood, HeadsAreNotCells DEF Idle
  <2>2. heap.owner[h] = h
    BY <2>1 DEF Good, Rooted
  <2>3. c \in All /\ heap.owner[c] = h
    BY <2>1, <2>2 DEF Good, Sound
  <2>4. c \notin Heads
    BY <2>1, <2>3, <1>2, HeadsAreNotCells DEF Good, Rooted
  <2>5. c \in Cells
    BY <2>3, <2>4 DEF All
  <2>6. heap' = Unlink(heap, c) /\ Answer("ok", heap.item[c])
    BY <1>2 DEF llist_pop
  <2> HIDE DEF c
  <2> QED
    BY <2>3, <2>5, <2>6, RemoveInv
<1> QED
  BY <1>1, <1>2

(* Replacement: the new node may be the cell just freed. *)
LEMMA TableInv ==
  ASSUME ListInv, NEW it \in Items, htable_insert(it)
  PROVE  ListInv'
<1> DEFINE h == Bucket(it)
<1>1. h \in Heads /\ Idle(h) /\ h \in open
  BY InvIsGood DEF htable_insert, Idle
<1> HIDE DEF h
<1>2. ASSUME NEW c \in Found(h, it.id), ReplaceIn(h, c, it) PROVE ListInv'
  <2> DEFINE H == Unlink(heap, c)
  <2>1. c \in Cells /\ heap.owner[c] = h /\ open \in SUBSET Heads /\ Good(heap, open)
    BY <1>1, <1>2, FoundIsOwned, InvIsGood
  <2>2. Good(H, open)
    BY <1>1, <2>1, UnlinkGood
  <2> HIDE DEF H
  <2>3. h \in All /\ H.owner[h] = h
    BY <1>1, <2>2, HeadsAreNotCells DEF Good, Rooted
  <2>4. H.prv[h] \in All /\ H.owner[H.prv[h]] = h
    BY <1>1, <2>2, <2>3 DEF Good, Sound
  <2>5. ASSUME NEW new \in FreeCells(H), heap' = Link(H, h, new, H.prv[h], it), Reply("ok") PROVE ListInv'
    <3>1. Good(heap', open)
      BY <1>1, <2>1, <2>2, <2>4, <2>5, LinkGood
    <3> QED
      BY <3>1, <1>1, <2>5, CallInv DEF Reply
  <2>6. CASE heap' = H /\ Reply("nomem")
    BY <1>1, <2>2, <2>6, CallInv DEF Reply
  <2> QED
    BY <1>2, <2>5, <2>6 DEF ReplaceIn, H
<1>3. CASE Refused("duplicate") \/ Refused("badmode")
  BY <1>1, <1>3, RefusedInv
<1>4. CASE InsertAfter(h, TAILINSERT(h), it)
  BY <1>1, <1>4, InsertInv
<1> QED
  BY <1>2, <1>3, <1>4 DEF htable_insert, h

-----------------------------------------------------------------------------
LEMMA DestroyInv == ASSUME ListInv, NEW h \in Heads, list_destroy(h) PROVE ListInv'
<1>1. h \in open /\ victim = NULL /\ h \in All /\ Good(heap, open) /\ open \in SUBSET Heads
  BY InvIsGood, HeadsAreNotCells DEF list_destroy, Idle
<1>2. heap' = heap /\ file' = file
      /\ answer' \in [ret : {"none", "ok", "nomem", "badmode", "duplicate", "missing"}, data : Items \cup {NULL}]
  BY DEF list_destroy, Result
<1>3. CASE open' = open \ {h} /\ victim' = victim /\ cur' = cur
  <2>1. Sound(heap, open \ {h}) /\ Rooted(heap, open \ {h})
    BY <1>1 DEF Good, Sound, Rooted
  <2>2. ListTypeOK'
    BY <1>1, <1>2, <1>3 DEF ListInv, ListTypeOK
  <2> QED
    BY <1>1, <1>2, <1>3, <2>1, <2>2 DEF ListInv, OnVictim
<1>4. CASE victim' = h /\ cur' = heap.nxt[h] /\ open' = open
  <2>1. heap.owner[h] = h
    BY <1>1 DEF Good, Rooted
  <2>2. heap.nxt[h] \in All /\ heap.owner[heap.nxt[h]] = h
    BY <1>1, <2>1 DEF Good, Sound
  <2>3. ListTypeOK'
    BY <1>1, <1>2, <1>4, <2>2 DEF ListInv, ListTypeOK
  <2> QED
    BY <1>1, <1>2, <1>4, <2>2, <2>3 DEF ListInv, OnVictim
<1> QED
  BY <1>3, <1>4 DEF list_destroy

LEMMA DestroyCellInv == ASSUME ListInv, DestroyCell PROVE ListInv'
<1> DEFINE H == Unlink(heap, cur)
<1>1. /\ victim # NULL /\ victim \in open /\ victim \in Heads /\ victim \in All
      /\ cur \in All /\ heap.owner[cur] = victim /\ cur # victim
      /\ Good(heap, open) /\ open \in SUBSET Heads
  BY InvIsGood, HeadsAreNotCells DEF DestroyCell, ListInv, ListTypeOK, OnVictim
<1>2. cur \in Cells
  BY <1>1 DEF Good, Rooted, All
<1>3. Good(H, open)
  BY <1>1, <1>2, UnlinkGood
<1>4. heap' = H /\ cur' \in {H.nxt[H.nxt[victim]], H.nxt[victim]}
      /\ UNCHANGED <<file, open, victim, answer>>
  BY DEF DestroyCell
<1> HIDE DEF H
<1>5. H.owner[victim] = victim
  BY <1>1, <1>3 DEF Good, Rooted
<1>6. H.nxt[victim] \in All /\ H.owner[H.nxt[victim]] = victim
  BY <1>1, <1>3, <1>5 DEF Good, Sound
<1>7. H.nxt[H.nxt[victim]] \in All /\ H.owner[H.nxt[H.nxt[victim]]] = victim
  BY <1>1, <1>3, <1>6 DEF Good, Sound
<1>8. cur' \in All /\ heap'.owner[cur'] = victim'
  BY <1>4, <1>6, <1>7
<1>9. ListTypeOK'
  BY <1>3, <1>4, <1>8 DEF ListInv, ListTypeOK, Good, HeapType
<1> QED
  BY <1>3, <1>4, <1>8, <1>9 DEF ListInv, OnVictim, Good

LEMMA DestroyHeadInv == ASSUME ListInv, DestroyHead PROVE ListInv'
<1> DEFINE v == victim
           P == open \ {v}
<1>1. v \in open /\ v \in Heads /\ v \in All /\ Good(heap, open) /\ open \in SUBSET Heads
  BY InvIsGood, HeadsAreNotCells DEF DestroyHead, ListInv, ListTypeOK
<1>2. open' = P /\ victim' = NULL /\ cur' = NULL /\ file' = file /\ answer' = answer
  BY DEF DestroyHead
<1>3. heap \in HeapType
  BY <1>1 DEF Good
<1>4. /\ heap'.owner = [heap.owner EXCEPT ![v] = NULL] /\ heap'.nxt = [heap.nxt EXCEPT ![v] = NULL]
      /\ heap'.prv = [heap.prv EXCEPT ![v] = NULL] /\ heap'.item = heap.item
      /\ heap' = [nxt |-> heap'.nxt, prv |-> heap'.prv, item |-> heap'.item, owner |-> heap'.owner]
  BY <1>3 DEF DestroyHead, HeapType
<1>5. heap' \in HeapType
  <2>1. heap'.nxt \in [All -> All \cup {NULL}] /\ heap'.prv \in [All -> All \cup {NULL}]
    BY <1>1, <1>3, <1>4 DEF HeapType
  <2>2. heap'.item \in [Cells -> Items \cup {NULL}] /\ heap'.owner \in [All -> Heads \cup {NULL}]
    BY <1>1, <1>3, <1>4 DEF HeapType
  <2> QED
    BY <1>4, <2>1, <2>2 DEF HeapType
<1>6. \A y \in All : y # v => heap'.owner[y] = heap.owner[y] /\ heap'.nxt[y] = heap.nxt[y] /\ heap'.prv[y] = heap.prv[y]
  BY <1>3, <1>4 DEF HeapType
<1>7. heap'.owner[v] = NULL /\ NULL \notin open
  BY <1>1, <1>3, <1>4, HeadsAreNotCells DEF HeapType
<1> HIDE DEF v
<1>8. Sound(heap', P)
  <2> SUFFICES ASSUME NEW x \in All, heap'.owner[x] \in P
               PROVE  /\ heap'.nxt[x] \in All /\ heap'.prv[x] \in All
                      /\ heap'.owner[heap'.nxt[x]] = heap'.owner[x]
                      /\ heap'.owner[heap'.prv[x]] = heap'.owner[x]
                      /\ heap'.prv[heap'.nxt[x]] = x
                      /\ heap'.nxt[heap'.prv[x]] = x
    BY DEF Sound
  <2>1. x # v /\ heap.owner[x] \in open /\ heap.owner[x] # v
    BY <1>6, <1>7
  <2>2. /\ heap.nxt[x] \in All /\ heap.prv[x] \in All
        /\ heap.owner[heap.nxt[x]] = heap.owner[x] /\ heap.owner[heap.prv[x]] = heap.owner[x]
        /\ heap.prv[heap.nxt[x]] = x /\ heap.nxt[heap.prv[x]] = x
    BY <1>1, <2>1 DEF Good, Sound
  <2>3. heap.nxt[x] # v /\ heap.prv[x] # v
    BY <1>1, <2>1, <2>2 DEF Good, Rooted
  <2> QED
    BY <1>6, <2>1, <2>2, <2>3
<1>9. Rooted(heap', P)
  BY <1>1, <1>6, <1>7, HeadsAreNotCells DEF Good, Rooted
<1>10. ListTypeOK'
  BY <1>1, <1>2, <1>5 DEF ListInv, ListTypeOK, HeapType
<1> QED
  BY <1>2, <1>8, <1>9, <1>10 DEF ListInv, OnVictim

-----------------------------------------------------------------------------
LEMMA NextInv == ListInv /\ [ListNext]_listVars => ListInv'
<1> SUFFICES ASSUME ListInv, [ListNext]_listVars PROVE ListInv'
  OBVIOUS
<1>1. ASSUME NEW h \in Heads, NEW it \in Items,
             list_insert(h, it) \/ stack_push(h, it) \/ queue_en(h, it)
      PROVE  ListInv'
  <2>1. CASE list_insert(h, it)
    BY <2>1, InsertInv, RefusedInv DEF list_insert
  <2>2. CASE stack_push(h, it)
    BY <2>2, PushInv
  <2>3. CASE queue_en(h, it)
    BY <2>3, InsertInv DEF queue_en
  <2> QED
    BY <1>1, <2>1, <2>2, <2>3
<1>2. ASSUME NEW h \in Heads, NEW id \in Ids,
             list_find(h, id) \/ list_delete(h, id) \/ list_fetch(h, id)
      PROVE  ListInv'
  BY <1>2, FindInv, DeleteInv
<1>3. ASSUME NEW h \in Heads, stack_pop(h) \/ queue_de(h) PROVE ListInv'
  BY <1>3, PopInv DEF stack_pop, queue_de
<1>4. ASSUME NEW h \in Heads, list_destroy(h) PROVE ListInv'
  BY <1>4, DestroyInv
<1>5. ASSUME NEW it \in Items, htable_insert(it) PROVE ListInv'
  BY <1>5, TableInv
<1>6. CASE DestroyCell \/ DestroyHead
  BY <1>6, DestroyCellInv, DestroyHeadInv
<1>7. CASE UNCHANGED listVars
  BY <1>7 DEF ListInv, ListTypeOK, OnVictim, listVars
<1> QED
  BY <1>1, <1>2, <1>3, <1>4, <1>5, <1>6, <1>7 DEF ListNext

(* LinksAgree is Sound of the present heap. *)
LEMMA InvImpliesLinks == ListInv => LinksAgree
  BY DEF ListInv, LinksAgree, Linked, Sound

(* Every operation of the list files leaves the links of every list in use *)
(* among its own allocated cells and both ways alike, so no call follows a *)
(* pointer into freed memory.                                              *)
THEOREM LinksStaySound == ListSpec => []LinksAgree
<1>1. ListSpec => []ListInv
  BY InitInv, NextInv, PTL DEF ListSpec
<1> QED
  BY <1>1, InvImpliesLinks, PTL
-----------------------------------------------------------------------------
(* The least-number principle, from the library's well-founded relations.  *)
LEMMA LeastNumber == ASSUME NEW T \in SUBSET Nat, T # {} PROVE \E n \in T : \A k \in T : n <= k
<1> DEFINE R == OpToRel(<, Nat)
<1>1. IsWellFoundedOn(R, Nat)
  BY NatLessThanWellFounded
<1>2. \A x, y \in Nat : <<x, y>> \in R <=> x < y
  BY DEF OpToRel
<1> HIDE DEF R
<1>3. PICK n \in T : \A k \in T : ~(<<k, n>> \in R)
  BY <1>1, WFMin
<1>4. \A k \in T : ~(k < n)
  BY <1>2, <1>3, Zenon
<1>5. \A k \in T : n <= k
  BY <1>4
<1> QED
  BY <1>5, Zenon

(***************************************************************************)
(* The cells of a list as a sequence.  Turn counts on from the head, which *)
(* is at 0 and again behind the last cell.                                 *)
(***************************************************************************)
Turn(s, h, i) == IF i \in 1 .. Len(s) THEN s[i] ELSE h

IsRing(H, h, s) ==
  /\ s \in Seq(Cells)
  /\ \A i, j \in 1 .. Len(s) : s[i] = s[j] => i = j
  /\ \A c \in Cells : H.owner[c] = h <=> \E i \in 1 .. Len(s) : s[i] = c
  /\ \A i \in 0 .. Len(s) : H.nxt[Turn(s, h, i)] = Turn(s, h, i + 1)

(* A list is no longer than there are cells. *)
LEMMA RingIsShort ==
  ASSUME NEW H, NEW h, NEW s, IsRing(H, h, s)
  PROVE  Cardinality(Cells) \in Nat /\ Len(s) \in Nat /\ Len(s) <= Cardinality(Cells)
<1>1. s \in Seq(Cells) /\ Len(s) \in Nat /\ IsFiniteSet(Cells)
  BY ListAssumption DEF IsRing
<1>2. Cardinality(Cells) \in Nat
  BY <1>1, FS_CardinalityType
<1>3. IsFiniteSet(1 .. Len(s)) /\ Cardinality(1 .. Len(s)) = Len(s)
  BY <1>1, FS_Interval, SMTT(30)
<1>4. s \in [1 .. Len(s) -> Cells]
  BY <1>1
<1>5. ~(Cardinality(Cells) < Cardinality(1 .. Len(s)))
  <2> SUFFICES ASSUME Cardinality(Cells) < Cardinality(1 .. Len(s)) PROVE FALSE
    OBVIOUS
  <2>1. \E x, y \in 1 .. Len(s) : x # y /\ s[x] = s[y]
    BY <1>1, <1>3, <1>4, FS_PigeonHole
  <2> QED
    BY <2>1 DEF IsRing
<1> QED
  BY <1>1, <1>2, <1>3, <1>5

(* Counting on from the head, as Ring does. *)
LEMMA Steps ==
  ASSUME NEW H, NEW h, h \notin Cells, NEW s, IsRing(H, h, s), NEW g,
         g = [i \in Nat |-> IF i = 0 THEN H.nxt[h] ELSE IF g[i - 1] = h THEN h ELSE H.nxt[g[i - 1]]]
  PROVE  \A i \in Nat : g[i] = Turn(s, h, i + 1)
<1> DEFINE T == {i \in Nat : g[i] # Turn(s, h, i + 1)}
<1>0. s \in Seq(Cells) /\ Len(s) \in Nat /\ \A i \in 1 .. Len(s) : s[i] # h
  BY DEF IsRing
<1>1. ASSUME T # {} PROVE FALSE
  <2>1. PICK n \in T : \A k \in T : n <= k
    <3>1. T \in SUBSET Nat
      OBVIOUS
    <3> HIDE DEF T
    <3> QED
      BY <1>1, <3>1, LeastNumber
  <2>2. CASE n = 0
    <3>1. g[0] = H.nxt[h]
      BY SMT
    <3>2. H.nxt[Turn(s, h, 0)] = Turn(s, h, 0 + 1) /\ Turn(s, h, 0) = h
      BY <1>0 DEF IsRing, Turn
    <3> QED
      BY <2>1, <2>2, <3>1, <3>2
  <2>3. CASE n # 0
    <3>1. n \in Nat /\ n - 1 \in Nat /\ n - 1 \notin T
      BY <2>1, <2>3
    <3>2. g[n - 1] = Turn(s, h, n)
      BY <3>1
    <3>3. g[n] = IF g[n - 1] = h THEN h ELSE H.nxt[g[n - 1]]
      BY <2>3, <3>1
    <3>4. CASE n <= Len(s)
      <4>1. H.nxt[Turn(s, h, n)] = Turn(s, h, n + 1) /\ Turn(s, h, n) # h
        BY <1>0, <3>1, <3>4, <2>3 DEF IsRing, Turn
      <4> QED
        BY <4>1, <3>2, <3>3, <2>1
    <3>5. CASE ~(n <= Len(s))
      <4>1. Turn(s, h, n) = h /\ Turn(s, h, n + 1) = h
        BY <1>0, <3>1, <3>5 DEF Turn
      <4> QED
        BY <4>1, <3>2, <3>3, <2>1
    <3> QED
      BY <3>4, <3>5, <3>1, <1>0
  <2> QED
    BY <2>2, <2>3
<1> QED
  BY <1>1

(* Ring returns them, so it finds every cell of the list. *)
LEMMA RingIs ==
  ASSUME NEW H, NEW h, h \notin Cells, NEW s, IsRing(H, h, s)
  PROVE  Ring(H.nxt, h) = s
<1> DEFINE Eq(g) == g = [i \in Nat |-> IF i = 0 THEN H.nxt[h] ELSE IF g[i - 1] = h THEN h ELSE H.nxt[g[i - 1]]]
           w == [i \in Nat |-> Turn(s, h, i + 1)]
           step == CHOOSE g : Eq(g)
           Size(n) == /\ step[n] = h \/ n = Cardinality(Cells)
                      /\ \A m \in 0 .. n - 1 : step[m] # h
           size == CHOOSE n \in 0 .. Cardinality(Cells) : Size(n)
<1>0. s \in Seq(Cells) /\ Len(s) \in Nat /\ \A i \in 1 .. Len(s) : s[i] # h
  BY DEF IsRing
<1>1. Eq(w)
  <2> SUFFICES ASSUME NEW i \in Nat
               PROVE  w[i] = IF i = 0 THEN H.nxt[h] ELSE IF w[i - 1] = h THEN h ELSE H.nxt[w[i - 1]]
    OBVIOUS
  <2>1. CASE i = 0
    <3>1. H.nxt[Turn(s, h, 0)] = Turn(s, h, 0 + 1) /\ Turn(s, h, 0) = h
      BY <1>0 DEF IsRing, Turn
    <3> QED
      BY <2>1, <3>1
  <2>2. CASE i # 0
    <3>1. w[i - 1] = Turn(s, h, i) /\ w[i] = Turn(s, h, i + 1)
      BY <2>2
    <3>2. CASE i <= Len(s)
      <4>1. H.nxt[Turn(s, h, i)] = Turn(s, h, i + 1) /\ Turn(s, h, i) # h
        BY <1>0, <3>2, <2>2 DEF IsRing, Turn
      <4> QED
        BY <4>1, <3>1, <2>2
    <3>3. CASE ~(i <= Len(s))
      <4>1. Turn(s, h, i) = h /\ Turn(s, h, i + 1) = h
        BY <1>0, <3>3 DEF Turn
      <4> QED
        BY <4>1, <3>1, <2>2
    <3> QED
      BY <3>2, <3>3
  <2> QED
    BY <2>1, <2>2
<1>2. Eq(step)
  <2> HIDE DEF w, Eq
  <2> QED
    BY <1>1, Zenon
<1>3. \A i \in Nat : step[i] = Turn(s, h, i + 1)
  <2>1. step = [i \in Nat |-> IF i = 0 THEN H.nxt[h] ELSE IF step[i - 1] = h THEN h ELSE H.nxt[step[i - 1]]]
    BY <1>2, Zenon
  <2> HIDE DEF step
  <2> QED
    BY <2>1, Steps
<1>4. Cardinality(Cells) \in Nat /\ Len(s) <= Cardinality(Cells)
  BY RingIsShort
<1>5. size = Len(s)
  <2> HIDE DEF step
  <2>1. Len(s) \in 0 .. Cardinality(Cells) /\ Size(Len(s))
    <3>1. step[Len(s)] = h
      BY <1>0, <1>3 DEF Turn
    <3>2. \A m \in 0 .. Len(s) - 1 : step[m] # h
      BY <1>0, <1>3 DEF Turn
    <3> QED
      BY <1>0, <1>4, <3>1, <3>2
  <2>2. \A n \in 0 .. Cardinality(Cells) : Size(n) => n = Len(s)
    <3> SUFFICES ASSUME NEW n \in 0 .. Cardinality(Cells), Size(n) PROVE n = Len(s)
      OBVIOUS
    <3>1. ~(Len(s) < n)
      <4>1. step[Len(s)] = h
        BY <1>0, <1>3 DEF Turn
      <4> QED
        BY <4>1, <1>0
    <3>2. ~(n < Len(s))
      <4> SUFFICES ASSUME n < Len(s) PROVE FALSE
        OBVIOUS
      <4>1. step[n] = s[n + 1] /\ s[n + 1] # h
        BY <1>0, <1>3 DEF Turn
      <4> QED
        BY <4>1, <1>4, <1>0
    <3> QED
      BY <3>1, <3>2, <1>0, <1>4
  <2> HIDE DEF Size
  <2> QED
    BY <2>1, <2>2
<1>6. Ring(H.nxt, h) = [i \in 1 .. size |-> step[i - 1]]
  BY DEF Ring
<1>7. s = [i \in 1 .. Len(s) |-> s[i]]
  BY <1>0
<1>8. \A i \in 1 .. Len(s) : step[i - 1] = s[i]
  <2> HIDE DEF step
  <2> QED
    BY <1>0, <1>3 DEF Turn
<1> HIDE DEF step, size
<1> QED
  BY <1>5, <1>6, <1>7, <1>8

(* A sequence with x put in behind place k, and one without place k. *)
Put(s, k, x) == [i \in 1 .. Len(s) + 1 |-> IF i <= k THEN s[i] ELSE IF i = k + 1 THEN x ELSE s[i - 1]]
Cut(s, k) == [i \in 1 .. Len(s) - 1 |-> IF i < k THEN s[i] ELSE s[i + 1]]

(* Each turn around a list in use is another of its nodes. *)
LEMMA RingNodes ==
  ASSUME NEW H, NEW O \in SUBSET Heads, Good(H, O), NEW h \in O, NEW s, IsRing(H, h, s)
  PROVE  /\ s \in Seq(Cells) /\ Len(s) \in Nat /\ h \notin Cells /\ h \in All
         /\ \A i \in Int : Turn(s, h, i) \in All /\ H.owner[Turn(s, h, i)] = h
         /\ \A i, j \in 0 .. Len(s) : Turn(s, h, i) = Turn(s, h, j) => i = j
         /\ \A i \in 0 .. Len(s) : H.prv[Turn(s, h, i + 1)] = Turn(s, h, i)
         /\ H.prv[h] = Turn(s, h, Len(s))
<1>1. s \in Seq(Cells) /\ Len(s) \in Nat /\ h \notin Cells /\ h \in All
  BY HeadsAreNotCells DEF IsRing
<1>2. \A i \in Int : Turn(s, h, i) \in All /\ H.owner[Turn(s, h, i)] = h
  <2> SUFFICES ASSUME NEW i \in Int PROVE Turn(s, h, i) \in All /\ H.owner[Turn(s, h, i)] = h
    OBVIOUS
  <2>1. CASE i \in 1 .. Len(s)
    <3>1. Turn(s, h, i) = s[i] /\ s[i] \in Cells
      BY <2>1, <1>1 DEF Turn
    <3>2. H.owner[s[i]] = h
      BY <2>1, <3>1 DEF IsRing
    <3> QED
      BY <3>1, <3>2, HeadsAreNotCells
  <2>2. CASE i \notin 1 .. Len(s)
    <3>1. Turn(s, h, i) = h
      BY <2>2 DEF Turn
    <3> QED
      BY <3>1, <1>1 DEF Good, Rooted
  <2> QED
    BY <2>1, <2>2
<1>3. \A i, j \in 0 .. Len(s) : Turn(s, h, i) = Turn(s, h, j) => i = j
  BY <1>1 DEF IsRing, Turn
<1>4. \A i \in 0 .. Len(s) : H.prv[Turn(s, h, i + 1)] = Turn(s, h, i)
  <2> SUFFICES ASSUME NEW i \in 0 .. Len(s) PROVE H.prv[Turn(s, h, i + 1)] = Turn(s, h, i)
    OBVIOUS
  <2>1. Turn(s, h, i) \in All /\ H.owner[Turn(s, h, i)] = h
    BY <1>2
  <2>2. H.prv[H.nxt[Turn(s, h, i)]] = Turn(s, h, i)
    BY <2>1 DEF Good, Sound
  <2> QED
    BY <2>2 DEF IsRing
<1>5. H.prv[h] = Turn(s, h, Len(s))
  <2>1. Turn(s, h, Len(s) + 1) = h
    BY <1>1 DEF Turn
  <2> QED
    BY <2>1, <1>1, <1>4
<1> QED
  BY <1>1, <1>2, <1>3, <1>4, <1>5

(* A list none of whose nodes is touched remains what it is. *)
LEMMA RingFrame ==
  ASSUME NEW H, NEW K, NEW O \in SUBSET Heads, Good(H, O), NEW g \in O, NEW r, IsRing(H, g, r),
         \A y \in All : H.owner[y] = g => K.owner[y] = g /\ K.nxt[y] = H.nxt[y],
         \A c \in Cells : K.owner[c] = g => H.owner[c] = g
  PROVE  IsRing(K, g, r)
<1>1. r \in Seq(Cells) /\ Len(r) \in Nat /\ \A i \in Int : Turn(r, g, i) \in All /\ H.owner[Turn(r, g, i)] = g
  BY RingNodes
<1>2. \A c \in Cells : K.owner[c] = g <=> H.owner[c] = g
  BY HeadsAreNotCells
<1>3. \A i \in 0 .. Len(r) : K.nxt[Turn(r, g, i)] = Turn(r, g, i + 1)
  BY <1>1 DEF IsRing
<1> QED
  BY <1>2, <1>3 DEF IsRing

(* How the turns around a list move on with it. *)
LEMMA PutTurns ==
  ASSUME NEW s \in Seq(Cells), NEW h, NEW k \in 0 .. Len(s), NEW x \in Cells
  PROVE  /\ Put(s, k, x) \in Seq(Cells) /\ Len(Put(s, k, x)) = Len(s) + 1
         /\ \A i \in Int : i <= k => Turn(Put(s, k, x), h, i) = Turn(s, h, i)
         /\ Turn(Put(s, k, x), h, k + 1) = x
         /\ \A i \in Int : i > k + 1 => Turn(Put(s, k, x), h, i) = Turn(s, h, i - 1)
<1>1. Len(s) \in Nat /\ \A i \in 1 .. Len(s) : s[i] \in Cells
  OBVIOUS
<1>2. Put(s, k, x) \in [1 .. Len(s) + 1 -> Cells]
  BY <1>1 DEF Put
<1>3. Put(s, k, x) \in Seq(Cells) /\ Len(Put(s, k, x)) = Len(s) + 1
  BY <1>1, <1>2
<1>4. \A i \in 1 .. Len(s) + 1 : Put(s, k, x)[i] = IF i <= k THEN s[i] ELSE IF i = k + 1 THEN x ELSE s[i - 1]
  BY DEF Put
<1> QED
  BY <1>1, <1>3, <1>4 DEF Turn

LEMMA CutTurns ==
  ASSUME NEW s \in Seq(Cells), NEW h, NEW k \in 1 .. Len(s)
  PROVE  /\ Cut(s, k) \in Seq(Cells) /\ Len(Cut(s, k)) = Len(s) - 1
         /\ \A i \in Int : i < k => Turn(Cut(s, k), h, i) = Turn(s, h, i)
         /\ \A i \in Int : i >= k => Turn(Cut(s, k), h, i) = Turn(s, h, i + 1)
<1>1. Len(s) \in Nat /\ \A i \in 1 .. Len(s) : s[i] \in Cells
  OBVIOUS
<1>2. Cut(s, k) \in [1 .. Len(s) - 1 -> Cells]
  BY <1>1 DEF Cut
<1>3. Cut(s, k) \in Seq(Cells) /\ Len(Cut(s, k)) = Len(s) - 1
  BY <1>1, <1>2
<1>4. \A i \in 1 .. Len(s) - 1 : Cut(s, k)[i] = IF i < k THEN s[i] ELSE s[i + 1]
  BY DEF Cut
<1> QED
  BY <1>1, <1>3, <1>4 DEF Turn

(* Insertion behind the node at turn k. *)
LEMMA LinkRing ==
  ASSUME NEW H, NEW O \in SUBSET Heads, Good(H, O), NEW h \in O, NEW s, IsRing(H, h, s),
         NEW k \in 0 .. Len(s), NEW new \in FreeCells(H), NEW it \in Items
  PROVE  IsRing(Link(H, h, new, Turn(s, h, k), it), h, Put(s, k, new))
<1> DEFINE p == Turn(s, h, k)
           q == H.nxt[p]
           K == Link(H, h, new, p, it)
           t == Put(s, k, new)
<1>1. /\ s \in Seq(Cells) /\ Len(s) \in Nat /\ h \notin Cells /\ h \in All
      /\ \A i \in Int : Turn(s, h, i) \in All /\ H.owner[Turn(s, h, i)] = h
      /\ \A i, j \in 0 .. Len(s) : Turn(s, h, i) = Turn(s, h, j) => i = j
  BY RingNodes
<1>2. new \in Cells /\ new \in All /\ H.owner[new] = NULL /\ h # NULL
  BY HeadsAreNotCells DEF FreeCells
<1>3. \A i \in Int : Turn(s, h, i) # new
  BY <1>1, <1>2
<1>4. /\ \A y \in All : K.nxt[y] = IF y = p THEN new ELSE IF y = new THEN q ELSE H.nxt[y]
      /\ \A y \in All : K.owner[y] = IF y = new THEN h ELSE H.owner[y]
  <2>1. p \in All /\ p # new
    BY <1>1, <1>3
  <2>2. K.nxt = [H.nxt EXCEPT ![new] = q, ![p] = new] /\ K.owner = [H.owner EXCEPT ![new] = h]
    BY DEF Link
  <2>3. H.nxt \in [All -> All \cup {NULL}] /\ H.owner \in [All -> Heads \cup {NULL}]
    BY DEF Good, HeapType
  <2> HIDE DEF K, p, q
  <2> QED
    BY <1>2, <2>1, <2>2, <2>3
<1>5. /\ t \in Seq(Cells) /\ Len(t) = Len(s) + 1
      /\ \A i \in Int : i <= k => Turn(t, h, i) = Turn(s, h, i)
      /\ Turn(t, h, k + 1) = new
      /\ \A i \in Int : i > k + 1 => Turn(t, h, i) = Turn(s, h, i - 1)
  BY <1>1, <1>2, PutTurns
<1>6. \A i \in 1 .. Len(t) : Turn(t, h, i) = t[i]
  BY DEF Turn
<1>7. \A i \in 1 .. Len(s) : Turn(s, h, i) = s[i]
  BY DEF Turn
<1> HIDE DEF t, K
<1>8. \A i, j \in 1 .. Len(t) : t[i] = t[j] => i = j
  <2> SUFFICES ASSUME NEW i \in 1 .. Len(t), NEW j \in 1 .. Len(t), Turn(t, h, i) = Turn(t, h, j) PROVE i = j
    BY <1>6
  <2> QED
    BY <1>1, <1>3, <1>5
<1>9. ASSUME NEW c \in Cells PROVE K.owner[c] = h <=> \E i \in 1 .. Len(t) : t[i] = c
  <2>1. H.owner[c] = h <=> \E i \in 1 .. Len(s) : s[i] = c
    BY DEF IsRing
  <2>2. K.owner[c] = h <=> c = new \/ H.owner[c] = h
    BY <1>4, HeadsAreNotCells
  <2>3. ASSUME NEW i \in 1 .. Len(s), s[i] = c PROVE \E j \in 1 .. Len(t) : t[j] = c
    <3> DEFINE j == IF i <= k THEN i ELSE i + 1
    <3>1. j \in 1 .. Len(t) /\ Turn(t, h, j) = Turn(s, h, i)
      BY <1>1, <1>5
    <3> QED
      BY <3>1, <2>3, <1>6, <1>7
  <2>4. ASSUME NEW j \in 1 .. Len(t), t[j] = c PROVE c = new \/ \E i \in 1 .. Len(s) : s[i] = c
    <3>1. CASE j <= k
      BY <3>1, <2>4, <1>1, <1>5, <1>6, <1>7
    <3>2. CASE j = k + 1
      BY <3>2, <2>4, <1>1, <1>5, <1>6
    <3>3. CASE j > k + 1
      <4>1. j - 1 \in 1 .. Len(s) /\ Turn(t, h, j) = Turn(s, h, j - 1)
        BY <3>3, <1>1, <1>5
      <4> QED
        BY <4>1, <2>4, <1>6, <1>7
    <3> QED
      BY <3>1, <3>2, <3>3, <1>1, <1>5
  <2>5. k + 1 \in 1 .. Len(t) /\ t[k + 1] = new
    BY <1>1, <1>5, <1>6
  <2> QED
    BY <2>1, <2>2, <2>3, <2>4, <2>5
<1>10. ASSUME NEW i \in 0 .. Len(t) PROVE K.nxt[Turn(t, h, i)] = Turn(t, h, i + 1)
  <2>0. \A j \in 0 .. Len(s) : H.nxt[Turn(s, h, j)] = Turn(s, h, j + 1)
    BY DEF IsRing
  <2>1. CASE i < k
    <3>1. Turn(t, h, i) = Turn(s, h, i) /\ Turn(t, h, i + 1) = Turn(s, h, i + 1) /\ i \in 0 .. Len(s)
      BY <2>1, <1>1, <1>5
    <3>2. Turn(s, h, i) # p /\ Turn(s, h, i) # new
      BY <2>1, <3>1, <1>1, <1>3
    <3> QED
      BY <3>1, <3>2, <2>0, <1>1, <1>4
  <2>2. CASE i = k
    <3>1. Turn(t, h, i) = p /\ Turn(t, h, i + 1) = new
      BY <2>2, <1>1, <1>5
    <3> QED
      BY <3>1, <1>1, <1>4
  <2>3. CASE i = k + 1
    <3>1. Turn(t, h, i) = new /\ Turn(t, h, i + 1) = Turn(s, h, k + 1)
      BY <2>3, <1>1, <1>5
    <3> QED
      BY <3>1, <2>0, <1>1, <1>2, <1>3, <1>4
  <2>4. CASE i > k + 1
    <3>1. Turn(t, h, i) = Turn(s, h, i - 1) /\ Turn(t, h, i + 1) = Turn(s, h, i) /\ i - 1 \in 0 .. Len(s)
      BY <2>4, <1>1, <1>5
    <3>2. Turn(s, h, i - 1) # p /\ Turn(s, h, i - 1) # new
      BY <2>4, <3>1, <1>1, <1>3
    <3>3. H.nxt[Turn(s, h, i - 1)] = Turn(s, h, i)
      BY <2>0, <3>1, <1>1
    <3> QED
      BY <3>1, <3>2, <3>3, <1>1, <1>4
  <2> QED
    BY <2>1, <2>2, <2>3, <2>4, <1>1
<1> QED
  BY <1>5, <1>8, <1>9, <1>10 DEF IsRing, K, t

(* Deletion of the node at turn k. *)
LEMMA UnlinkRing ==
  ASSUME NEW H, NEW O \in SUBSET Heads, Good(H, O), NEW h \in O, NEW s, IsRing(H, h, s), NEW k \in 1 .. Len(s)
  PROVE  IsRing(Unlink(H, s[k]), h, Cut(s, k))
<1> DEFINE c == s[k]
           p == H.prv[c]
           n == H.nxt[c]
           K == Unlink(H, c)
           t == Cut(s, k)
<1>1. /\ s \in Seq(Cells) /\ Len(s) \in Nat /\ h \notin Cells /\ h \in All /\ h # NULL
      /\ \A i \in Int : Turn(s, h, i) \in All /\ H.owner[Turn(s, h, i)] = h
      /\ \A i, j \in 0 .. Len(s) : Turn(s, h, i) = Turn(s, h, j) => i = j
      /\ \A i \in 0 .. Len(s) : H.prv[Turn(s, h, i + 1)] = Turn(s, h, i)
  BY RingNodes, HeadsAreNotCells
<1>2. \A i \in 0 .. Len(s) : H.nxt[Turn(s, h, i)] = Turn(s, h, i + 1)
  BY DEF IsRing
<1>3. c \in Cells /\ c \in All /\ c = Turn(s, h, k) /\ p = Turn(s, h, k - 1) /\ n = Turn(s, h, k + 1)
  <2>1. c = Turn(s, h, k) /\ c \in Cells
    BY <1>1 DEF Turn
  <2>2. k - 1 \in 0 .. Len(s) /\ k - 1 + 1 = k
    BY <1>1
  <2>3. H.prv[Turn(s, h, k)] = Turn(s, h, k - 1)
    BY <1>1, <2>2
  <2>4. H.nxt[Turn(s, h, k)] = Turn(s, h, k + 1)
    BY <1>1, <1>2
  <2> HIDE DEF c
  <2> QED
    BY <2>1, <2>3, <2>4, HeadsAreNotCells
<1>4. /\ \A y \in All : K.nxt[y] = IF y = c THEN NULL ELSE IF y = p THEN n ELSE H.nxt[y]
      /\ \A y \in All : K.owner[y] = IF y = c THEN NULL ELSE H.owner[y]
  <2>1. p \in All
    BY <1>1, <1>3
  <2>2. K.nxt = [H.nxt EXCEPT ![p] = n, ![c] = NULL] /\ K.owner = [H.owner EXCEPT ![c] = NULL]
    BY DEF Unlink
  <2>3. H.nxt \in [All -> All \cup {NULL}] /\ H.owner \in [All -> Heads \cup {NULL}]
    BY DEF Good, HeapType
  <2> HIDE DEF K, p, n, c
  <2> QED
    BY <1>3, <2>1, <2>2, <2>3
<1>5. /\ t \in Seq(Cells) /\ Len(t) = Len(s) - 1
      /\ \A i \in Int : i < k => Turn(t, h, i) = Turn(s, h, i)
      /\ \A i \in Int : i >= k => Turn(t, h, i) = Turn(s, h, i + 1)
  <2>1. s \in Seq(Cells)
    BY <1>1
  <2> QED
    BY <2>1, CutTurns
<1>6. \A i \in 1 .. Len(t) : Turn(t, h, i) = t[i]
  BY DEF Turn
<1>7. \A i \in 1 .. Len(s) : Turn(s, h, i) = s[i]
  BY DEF Turn
<1> HIDE DEF t, K, c, p, n
<1>0. Len(s) \in Nat /\ k \in 1 .. Len(s) /\ Len(t) = Len(s) - 1
  BY <1>1, <1>5
<1>11. ASSUME NEW i \in Int, i < k PROVE Turn(t, h, i) = Turn(s, h, i)
  BY <1>5, <1>11, Zenon
<1>12. ASSUME NEW i \in Int, i >= k PROVE Turn(t, h, i) = Turn(s, h, i + 1)
  BY <1>5, <1>12, Zenon
<1>8. \A i, j \in 1 .. Len(t) : t[i] = t[j] => i = j
  <2> SUFFICES ASSUME NEW i \in 1 .. Len(t), NEW j \in 1 .. Len(t), Turn(t, h, i) = Turn(t, h, j) PROVE i = j
    BY <1>6
  <2>0. ASSUME NEW a \in 1 .. Len(t)
        PROVE  \E m \in 0 .. Len(s) : m = (IF a < k THEN a ELSE a + 1) /\ Turn(t, h, a) = Turn(s, h, m)
    <3>1. a \in Int /\ a \in 0 .. Len(s) /\ a + 1 \in 0 .. Len(s)
      BY <1>0
    <3>2. CASE a < k
      BY <3>1, <3>2, <1>11
    <3>3. CASE ~(a < k)
      <4>1. a >= k
        BY <3>1, <3>3, <1>0
      <4>2. Turn(t, h, a) = Turn(s, h, a + 1)
        BY <4>1, <3>1, <1>12
      <4> QED
        BY <3>1, <3>3, <4>2
    <3> QED
      BY <3>2, <3>3
  <2>1. PICK m \in 0 .. Len(s) : m = (IF i < k THEN i ELSE i + 1) /\ Turn(t, h, i) = Turn(s, h, m)
    BY <2>0
  <2>2. PICK l \in 0 .. Len(s) : l = (IF j < k THEN j ELSE j + 1) /\ Turn(t, h, j) = Turn(s, h, l)
    BY <2>0
  <2>3. m = l
    BY <1>1, <2>1, <2>2
  <2> QED
    BY <1>0, <2>1, <2>2, <2>3
<1>9. ASSUME NEW y \in Cells PROVE K.owner[y] = h <=> \E i \in 1 .. Len(t) : t[i] = y
  <2>1. H.owner[y] = h <=> \E i \in 1 .. Len(s) : s[i] = y
    BY DEF IsRing
  <2>2. K.owner[y] = h <=> y # c /\ H.owner[y] = h
    BY <1>1, <1>4, HeadsAreNotCells
  <2>3. ASSUME NEW i \in 1 .. Len(s), s[i] = y, y # c PROVE \E j \in 1 .. Len(t) : t[j] = y
    <3> DEFINE j == IF i < k THEN i ELSE i - 1
    <3>0. i # k
      BY <2>3, <1>3, <1>7
    <3>1. j \in 1 .. Len(t) /\ Turn(t, h, j) = Turn(s, h, i)
      <4>1. CASE i < k
        BY <4>1, <1>0, <1>11
      <4>2. CASE i > k
        <5>1. i - 1 \in 1 .. Len(t) /\ i - 1 \in Int /\ i - 1 >= k /\ i - 1 + 1 = i /\ j = i - 1
          BY <4>2, <1>0
        <5>2. Turn(t, h, i - 1) = Turn(s, h, i - 1 + 1)
          BY <5>1, <1>12
        <5> QED
          BY <5>1, <5>2
      <4> QED
        BY <3>0, <4>1, <4>2, <1>0
    <3> QED
      BY <3>1, <2>3, <1>6, <1>7
  <2>4. ASSUME NEW j \in 1 .. Len(t), t[j] = y PROVE y # c /\ \E i \in 1 .. Len(s) : s[i] = y
    <3> DEFINE i == IF j < k THEN j ELSE j + 1
    <3>1. i \in 1 .. Len(s) /\ i # k /\ Turn(t, h, j) = Turn(s, h, i)
      <4>0. i \in 1 .. Len(s) /\ i # k /\ j \in Int
        BY <1>0
      <4>1. CASE j < k
        BY <4>0, <4>1, <1>11
      <4>2. CASE j >= k
        BY <4>0, <4>2, <1>0, <1>12
      <4> QED
        BY <4>0, <4>1, <4>2, <1>0
    <3>2. y = s[i] /\ y = Turn(s, h, i)
      BY <3>1, <2>4, <1>6, <1>7
    <3>3. y # c
      BY <3>1, <3>2, <1>1, <1>3
    <3> HIDE DEF i
    <3> QED
      BY <3>1, <3>2, <3>3
  <2> QED
    BY <2>1, <2>2, <2>3, <2>4
<1>10. ASSUME NEW i \in 0 .. Len(t) PROVE K.nxt[Turn(t, h, i)] = Turn(t, h, i + 1)
  <2>1. CASE i + 1 < k
    <3>0. i \in Int /\ i < k /\ i + 1 \in Int /\ i \in 0 .. Len(s)
      BY <2>1, <1>0
    <3>1. Turn(t, h, i) = Turn(s, h, i) /\ Turn(t, h, i + 1) = Turn(s, h, i + 1) /\ i \in 0 .. Len(s)
      BY <3>0, <2>1, <1>11
    <3>2. Turn(s, h, i) # p /\ Turn(s, h, i) # c
      BY <2>1, <3>1, <1>1, <1>3
    <3> QED
      BY <3>1, <3>2, <1>1, <1>2, <1>4
  <2>2. CASE i + 1 = k
    <3>1. Turn(t, h, i) = p /\ Turn(t, h, i + 1) = n
      <4>1. i = k - 1 /\ Turn(t, h, i) = Turn(s, h, k - 1)
        <5>1. i = k - 1 /\ k - 1 \in Int /\ k - 1 < k
          BY <2>2, <1>0
        <5> QED
          BY <5>1, <1>11
      <4>2. Turn(t, h, i + 1) = Turn(s, h, k + 1)
        <5>1. i + 1 = k /\ k \in Int /\ k >= k
          BY <2>2, <1>0
        <5> QED
          BY <5>1, <1>12
      <4> QED
        BY <4>1, <4>2, <1>3
    <3>2. p # c
      BY <1>1, <1>3
    <3> QED
      BY <3>1, <3>2, <1>1, <1>3, <1>4
  <2>3. CASE i + 1 > k
    <3>1. Turn(t, h, i) = Turn(s, h, i + 1) /\ Turn(t, h, i + 1) = Turn(s, h, i + 2) /\ i + 1 \in 0 .. Len(s)
      BY <2>3, <1>1, <1>5
    <3>2. Turn(s, h, i + 1) # p /\ Turn(s, h, i + 1) # c
      BY <2>3, <3>1, <1>1, <1>3
    <3>3. H.nxt[Turn(s, h, i + 1)] = Turn(s, h, i + 2)
      BY <3>1, <1>1, <1>2
    <3> QED
      BY <3>1, <3>2, <3>3, <1>1, <1>4
  <2> QED
    BY <2>1, <2>2, <2>3, <1>1
<1> QED
  BY <1>5, <1>8, <1>9, <1>10 DEF IsRing, K, t, c
-----------------------------------------------------------------------------
(* The items of a list with cells s; Contents of any heap. *)
Listed(H, s) == [i \in 1 .. Len(s) |-> H.item[s[i]]]

LEMMA ContentsAre ==
  ASSUME NEW H, NEW h, h \notin Cells, NEW s, IsRing(H, h, s)
  PROVE  (LET r == Ring(H.nxt, h) IN [i \in DOMAIN r |-> H.item[r[i]]]) = Listed(H, s)
<1>1. Ring(H.nxt, h) = s
  BY RingIs
<1>2. s \in Seq(Cells) /\ DOMAIN s = 1 .. Len(s)
  BY DEF IsRing
<1> QED
  BY <1>1, <1>2 DEF Listed

(* The items follow the cells. *)
LEMMA ListedPut ==
  ASSUME NEW H, NEW K, NEW s \in Seq(Cells), NEW new \in Cells, NEW k \in 0 .. Len(s),
         \A i \in 1 .. Len(s) : K.item[s[i]] = H.item[s[i]]
  PROVE  Listed(K, Put(s, k, new)) = Put(Listed(H, s), k, K.item[new])
<1>1. Len(s) \in Nat /\ Len(Put(s, k, new)) = Len(s) + 1
  BY DEF Put
<1>2. Len(Listed(H, s)) = Len(s)
  BY <1>1 DEF Listed
<1>3. \A i \in 1 .. Len(s) + 1 : Put(s, k, new)[i] = IF i <= k THEN s[i] ELSE IF i = k + 1 THEN new ELSE s[i - 1]
  BY DEF Put
<1>4. \A i \in 1 .. Len(s) + 1 :
         K.item[Put(s, k, new)[i]] = IF i <= k THEN Listed(H, s)[i] ELSE IF i = k + 1 THEN K.item[new] ELSE Listed(H, s)[i - 1]
  <2> SUFFICES ASSUME NEW i \in 1 .. Len(s) + 1
               PROVE  K.item[Put(s, k, new)[i]] = IF i <= k THEN Listed(H, s)[i] ELSE IF i = k + 1 THEN K.item[new] ELSE Listed(H, s)[i - 1]
    OBVIOUS
  <2>0. \A j \in 1 .. Len(s) : Listed(H, s)[j] = K.item[s[j]]
    BY DEF Listed
  <2>1. CASE i <= k
    BY <2>0, <2>1, <1>1, <1>3
  <2>2. CASE i = k + 1
    BY <2>2, <1>1, <1>3
  <2>3. CASE i > k + 1
    <3>1. i - 1 \in 1 .. Len(s)
      BY <2>3, <1>1
    <3>2. Listed(H, s)[i - 1] = K.item[s[i - 1]]
      BY <3>1, <2>0
    <3>3. Put(s, k, new)[i] = s[i - 1]
      BY <1>1, <1>3, <2>3
    <3> QED
      BY <3>2, <3>3, <2>3, <1>1
  <2> QED
    BY <2>1, <2>2, <2>3, <1>1
<1> QED
  BY <1>1, <1>2, <1>4 DEF Put, Listed

LEMMA ListedCut ==
  ASSUME NEW H, NEW K, NEW s \in Seq(Cells), NEW k \in 1 .. Len(s),
         \A i \in 1 .. Len(s) : i # k => K.item[s[i]] = H.item[s[i]]
  PROVE  Listed(K, Cut(s, k)) = Cut(Listed(H, s), k)
<1>1. Len(s) \in Nat /\ Len(Cut(s, k)) = Len(s) - 1
  BY DEF Cut
<1>2. Len(Listed(H, s)) = Len(s)
  BY <1>1 DEF Listed
<1>3. \A i \in 1 .. Len(s) - 1 : Cut(s, k)[i] = IF i < k THEN s[i] ELSE s[i + 1]
  BY DEF Cut
<1>4. \A i \in 1 .. Len(s) - 1 :
         K.item[Cut(s, k)[i]] = IF i < k THEN Listed(H, s)[i] ELSE Listed(H, s)[i + 1]
  <2> SUFFICES ASSUME NEW i \in 1 .. Len(s) - 1
               PROVE  K.item[Cut(s, k)[i]] = IF i < k THEN Listed(H, s)[i] ELSE Listed(H, s)[i + 1]
    OBVIOUS
  <2>0. \A j \in 1 .. Len(s) : Listed(H, s)[j] = H.item[s[j]]
    BY DEF Listed
  <2>1. CASE i < k
    <3>1. i \in 1 .. Len(s) /\ i # k
      BY <2>1, <1>1
    <3> QED
      BY <3>1, <2>0, <2>1, <1>3
  <2>2. CASE ~(i < k)
    <3>1. i + 1 \in 1 .. Len(s) /\ i + 1 # k
      BY <2>2, <1>1
    <3>2. Listed(H, s)[i + 1] = K.item[s[i + 1]]
      BY <3>1, <2>0
    <3>3. Cut(s, k)[i] = s[i + 1]
      BY <2>2, <1>3
    <3> QED
      BY <3>2, <3>3, <2>2
  <2> QED
    BY <2>1, <2>2
<1> QED
  BY <1>1, <1>2, <1>4 DEF Cut, Listed

(* What those are on any sequence. *)
LEMMA CutIsSeq ==
  ASSUME NEW S, NEW u \in Seq(S), NEW k \in 1 .. Len(u)
  PROVE  /\ Cut(u, k) \in Seq(S) /\ Len(Cut(u, k)) = Len(u) - 1
         /\ \A i \in 1 .. Len(u) - 1 : Cut(u, k)[i] = IF i < k THEN u[i] ELSE u[i + 1]
<1>1. Len(u) \in Nat /\ \A i \in 1 .. Len(u) : u[i] \in S
  OBVIOUS
<1>2. Cut(u, k) \in [1 .. Len(u) - 1 -> S]
  BY <1>1 DEF Cut
<1> QED
  BY <1>1, <1>2 DEF Cut

LEMMA PutEnds ==
  ASSUME NEW S, NEW u \in Seq(S), NEW x \in S
  PROVE  Put(u, 0, x) = <<x>> \o u /\ Put(u, Len(u), x) = Append(u, x)
<1>1. Len(u) \in Nat /\ 0 \in 0 .. Len(u) /\ Len(u) \in 0 .. Len(u)
  OBVIOUS
<1>2. Put(u, 0, x) = <<x>> \o u
  <2>1. <<x>> \in Seq(S) /\ Len(<<x>>) = 1 /\ <<x>>[1] = x
    OBVIOUS
  <2>2. PICK v : v = <<x>> \o u
    OBVIOUS
  <2>3. v \in Seq(S) /\ Len(v) = Len(u) + 1
        /\ \A i \in 1 .. Len(u) + 1 : v[i] = IF i = 1 THEN x ELSE u[i - 1]
    <3>1. PICK y : y = <<x>>
      OBVIOUS
    <3>2. y \in Seq(S) /\ Len(y) = 1 /\ y[1] = x /\ v = y \o u
      BY <2>1, <2>2, <3>1, Zenon
    <3>3. v \in Seq(S) /\ Len(v) = Len(y) + Len(u)
          /\ \A i \in 1 .. Len(y) + Len(u) : v[i] = IF i <= Len(y) THEN y[i] ELSE u[i - Len(y)]
      BY <3>2, ConcatProperties, Zenon
    <3> QED
      BY <1>1, <3>2, <3>3
  <2>4. v = [i \in 1 .. Len(u) + 1 |-> v[i]]
    BY <1>1, <2>3
  <2>0. PICK k : k = 0
    OBVIOUS
  <2>5. \A i \in 1 .. Len(u) + 1 : v[i] = IF i <= k THEN u[i] ELSE IF i = k + 1 THEN x ELSE u[i - 1]
    <3>1. Len(u) \in Nat /\ \A i \in 1 .. Len(u) + 1 : v[i] = IF i = 1 THEN x ELSE u[i - 1]
      BY <1>1, <2>3
    <3> QED
      BY <3>1, <2>0
  <2>6. Put(u, k, x) = [i \in 1 .. Len(u) + 1 |-> v[i]]
    BY <2>5, ZenonT(30) DEF Put
  <2> QED
    BY <2>0, <2>2, <2>4, <2>6
<1>3. Put(u, Len(u), x) = Append(u, x)
  <2>1. PICK v : v = Append(u, x)
    OBVIOUS
  <2>2. v \in Seq(S) /\ Len(v) = Len(u) + 1 /\ (\A i \in 1 .. Len(u) : v[i] = u[i]) /\ v[Len(u) + 1] = x
    BY <2>1, AppendProperties, ZenonT(60)
  <2>3. v = [i \in 1 .. Len(u) + 1 |-> v[i]]
    BY <1>1, <2>2
  <2>4. \A i \in 1 .. Len(u) + 1 : v[i] = IF i <= Len(u) THEN u[i] ELSE IF i = Len(u) + 1 THEN x ELSE u[i - 1]
    BY <1>1, <2>2
  <2>5. Put(u, Len(u), x) = [i \in 1 .. Len(u) + 1 |-> v[i]]
    BY <2>4, ZenonT(30) DEF Put
  <2> QED
    BY <2>1, <2>3, <2>5, Zenon
<1> QED
  BY <1>2, <1>3

LEMMA CutIsRemoveAt ==
  ASSUME NEW S, NEW u \in Seq(S), NEW k \in 1 .. Len(u)
  PROVE  /\ Cut(u, k) = SubSeq(u, 1, k - 1) \o SubSeq(u, k + 1, Len(u))
         /\ k = 1 => Cut(u, k) = Tail(u)
<1>1. Len(u) \in Nat /\ \A i \in 1 .. Len(u) : u[i] \in S
  OBVIOUS
<1>2. PICK c : c = Cut(u, k)
  OBVIOUS
<1>3. c \in Seq(S) /\ Len(c) = Len(u) - 1 /\ \A i \in 1 .. Len(u) - 1 : c[i] = IF i < k THEN u[i] ELSE u[i + 1]
  BY <1>2, CutIsSeq, Zenon
<1>4. c = SubSeq(u, 1, k - 1) \o SubSeq(u, k + 1, Len(u))
  <2>1. PICK v : v = SubSeq(u, 1, k - 1)
    OBVIOUS
  <2>2. PICK w : w = SubSeq(u, k + 1, Len(u))
    OBVIOUS
  <2>3. v \in Seq(S) /\ Len(v) = k - 1 /\ \A i \in 1 .. k - 1 : v[i] = u[i]
    BY <1>1, <2>1
  <2>4. w \in Seq(S) /\ Len(w) = Len(u) - k /\ \A i \in 1 .. Len(u) - k : w[i] = u[k + i]
    BY <1>1, <2>2
  <2>5. PICK e : e = v \o w
    OBVIOUS
  <2>6. e \in Seq(S) /\ Len(e) = Len(v) + Len(w)
        /\ \A i \in 1 .. Len(v) + Len(w) : e[i] = IF i <= Len(v) THEN v[i] ELSE w[i - Len(v)]
    BY <2>3, <2>4, <2>5, ConcatProperties, Zenon
  <2>7. Len(e) = Len(c)
    BY <1>1, <1>3, <2>3, <2>4, <2>6
  <2>8. ASSUME NEW i \in 1 .. Len(e) PROVE e[i] = c[i]
    <3>0. i \in 1 .. Len(u) - 1 /\ i \in 1 .. Len(v) + Len(w)
      BY <1>1, <2>3, <2>4, <2>6
    <3>1. CASE i < k
      BY <3>0, <3>1, <1>3, <2>3, <2>6
    <3>2. CASE ~(i < k)
      <4>1. i - Len(v) \in 1 .. Len(u) - k /\ k + (i - Len(v)) = i + 1
        BY <3>0, <3>2, <2>3, <1>1
      <4>2. w[i - Len(v)] = u[k + (i - Len(v))]
        BY <4>1, <2>4
      <4>3. e[i] = w[i - Len(v)]
        <5>1. ~(i <= Len(v))
          BY <3>0, <3>2, <2>3, <1>1
        <5>2. e[i] = IF i <= Len(v) THEN v[i] ELSE w[i - Len(v)]
          BY <3>0, <2>6, Zenon
        <5> QED
          BY <5>1, <5>2, Zenon
      <4>4. c[i] = u[i + 1]
        BY <3>0, <3>2, <1>3
      <4> QED
        BY <4>1, <4>2, <4>3, <4>4
    <3> QED
      BY <3>1, <3>2
  <2>9. e = c
    BY <1>3, <2>6, <2>7, <2>8, SeqEqual, Zenon
  <2> QED
    BY <2>1, <2>2, <2>5, <2>9
<1>5. ASSUME k = 1 PROVE c = Tail(u)
  <2>1. u # <<>>
    BY <1>1, <1>5
  <2>2. PICK e : e = Tail(u)
    OBVIOUS
  <2>3. e \in Seq(S) /\ Len(e) = Len(u) - 1 /\ \A i \in 1 .. Len(e) : e[i] = u[i + 1]
    BY <2>1, <2>2, HeadTailProperties, Zenon
  <2>4. Len(e) = Len(c) /\ \A i \in 1 .. Len(e) : e[i] = c[i]
    BY <1>1, <1>3, <1>5, <2>3
  <2>5. e = c
    BY <1>3, <2>3, <2>4, SeqEqual, Zenon
  <2> QED
    BY <2>2, <2>5
<1> QED
  BY <1>2, <1>4, <1>5

(* The first item with the id, in the words of ItemLists. *)
LEMMA FirstMatch ==
  ASSUME NEW S, NEW u \in Seq(S), NEW id, NEW k \in 1 .. Len(u), u[k].id = id,
         \A j \in 1 .. k - 1 : u[j].id # id
  PROVE  /\ Promise!FirstWithId(u, id) = u[k]
         /\ Promise!WithoutFirst(u, id) = Cut(u, k)
         /\ Promise!HasId(u, id)
<1> DEFINE I == {i \in 1 .. Len(u) : u[i].id = id}
           m == CHOOSE x \in I : \A y \in I : x <= y
<1>1. k \in I /\ \A y \in I : k <= y
  OBVIOUS
<1>2. m = k
  <2>1. \A x \in I : (\A y \in I : x <= y) => x = k
    BY <1>1
  <2> HIDE DEF I
  <2> QED
    BY <1>1, <2>1
<1>3. Promise!SelectInSeq(u, LAMBDA it : it.id = id) = IF I # {} THEN m ELSE 0
  BY DEF Promise!SelectInSeq, Promise!Min
<1>4. Promise!SelectInSeq(u, LAMBDA it : it.id = id) = k
  BY <1>1, <1>2, <1>3, Zenon
<1>5. Promise!FirstWithId(u, id) = u[k]
  BY <1>4 DEF Promise!FirstWithId
<1>6. Promise!WithoutFirst(u, id) = SubSeq(u, 1, k - 1) \o SubSeq(u, k + 1, Len(u))
  BY <1>4 DEF Promise!WithoutFirst, Promise!RemoveFirstMatch, Promise!RemoveAt
<1>7. Promise!HasId(u, id)
  BY DEF Promise!HasId
<1> QED
  BY <1>5, <1>6, <1>7, CutIsRemoveAt
-----------------------------------------------------------------------------
Mine(H, h) == {x \in All : H.owner[x] = h}

(* A heap on which every list in use is a ring of cells that hold items. *)
Whole(H, O) ==
  /\ Good(H, O)
  /\ \A h \in O : \E s : IsRing(H, h, s)
  /\ \A c \in Cells : H.owner[c] \in O => H.item[c] \in Items

(* What becomes of the other lists when list h is changed: nothing. *)
Edited(H, K, O, h) ==
  /\ \A g \in O \ {h} : \A r : IsRing(H, g, r) => IsRing(K, g, r) /\ Listed(K, r) = Listed(H, r)
  /\ \A g \in Heads \ O : Mine(K, g) = Mine(H, g)

LEMMA ListedItems ==
  ASSUME NEW H, NEW O \in SUBSET Heads, Whole(H, O), NEW h \in O, NEW s, IsRing(H, h, s)
  PROVE  Listed(H, s) \in Seq(Items) /\ Len(Listed(H, s)) = Len(s)
<1>1. s \in Seq(Cells) /\ Len(s) \in Nat /\ \A i \in 1 .. Len(s) : s[i] \in Cells /\ H.owner[s[i]] = h
  BY DEF IsRing
<1>2. \A i \in 1 .. Len(s) : H.item[s[i]] \in Items
  BY <1>1 DEF Whole
<1> QED
  BY <1>1, <1>2 DEF Listed

(* None of the nodes of list g is written, and it gets no other. *)
Untouched(H, K, g) ==
  /\ \A y \in All : H.owner[y] = g => K.owner[y] = g /\ K.nxt[y] = H.nxt[y]
  /\ \A c \in Cells : K.owner[c] = g => H.owner[c] = g
  /\ \A c \in Cells : H.owner[c] = g => K.item[c] = H.item[c]

LEMMA OtherRing ==
  ASSUME NEW H, NEW K, NEW O \in SUBSET Heads, Good(H, O), NEW g \in O, NEW r, IsRing(H, g, r), Untouched(H, K, g)
  PROVE  IsRing(K, g, r) /\ Listed(K, r) = Listed(H, r)
<1>0. \A c \in Cells : H.owner[c] = g => K.item[c] = H.item[c]
  BY DEF Untouched
<1>1. IsRing(K, g, r)
  BY RingFrame DEF Untouched
<1>2. \A i \in 1 .. Len(r) : r[i] \in Cells /\ H.owner[r[i]] = g
  BY DEF IsRing
<1> QED
  BY <1>0, <1>1, <1>2 DEF Listed

(* An insertion, and a deletion, of a whole heap. *)
LEMMA LinkWhole ==
  ASSUME NEW H, NEW O \in SUBSET Heads, Whole(H, O), NEW h \in O, NEW s, IsRing(H, h, s),
         NEW k \in 0 .. Len(s), NEW new \in FreeCells(H), NEW it \in Items,
         NEW K, K = Link(H, h, new, Turn(s, h, k), it)
  PROVE  /\ Whole(K, O) /\ Edited(H, K, O, h) /\ IsRing(K, h, Put(s, k, new))
         /\ Listed(K, Put(s, k, new)) = Put(Listed(H, s), k, it)
<1> DEFINE p == Turn(s, h, k)
           q == H.nxt[p]
<1>1. Good(H, O)
  BY DEF Whole
<1>2. p \in All /\ H.owner[p] = h /\ s \in Seq(Cells)
  BY <1>1, RingNodes
<1>3. Good(K, O)
  BY <1>1, <1>2, LinkGood
<1>4. IsRing(K, h, Put(s, k, new))
  BY <1>1, LinkRing
<1>5. new \in Cells /\ new \in All /\ H.owner[new] = NULL /\ h # NULL /\ NULL \notin O /\ q \in All
  BY <1>1, <1>2, HeadsAreNotCells DEF FreeCells, Good, Sound
<1>6. /\ \A y \in All : K.nxt[y] = IF y = p THEN new ELSE IF y = new THEN q ELSE H.nxt[y]
      /\ \A y \in All : K.owner[y] = IF y = new THEN h ELSE H.owner[y]
      /\ \A c \in Cells : K.item[c] = IF c = new THEN it ELSE H.item[c]
  <2>1. p # new
    BY <1>2, <1>5
  <2>2. K.nxt = [H.nxt EXCEPT ![new] = q, ![p] = new] /\ K.owner = [H.owner EXCEPT ![new] = h]
        /\ K.item = [H.item EXCEPT ![new] = it]
    BY DEF Link
  <2>3. H.nxt \in [All -> All \cup {NULL}] /\ H.owner \in [All -> Heads \cup {NULL}] /\ H.item \in [Cells -> Items \cup {NULL}]
    BY <1>1 DEF Good, HeapType
  <2> HIDE DEF p, q
  <2> QED
    BY <1>2, <1>5, <2>1, <2>2, <2>3
<1> HIDE DEF p, q
<1>7. Edited(H, K, O, h)
  <2>1. ASSUME NEW g \in O \ {h}, NEW r, IsRing(H, g, r) PROVE IsRing(K, g, r) /\ Listed(K, r) = Listed(H, r)
    <3>0. g # NULL
      BY <1>5
    <3>1. \A y \in All : H.owner[y] = g => K.owner[y] = g /\ K.nxt[y] = H.nxt[y]
      BY <1>2, <1>5, <1>6, <3>0
    <3>2. \A c \in Cells : K.owner[c] = g => H.owner[c] = g
      BY <1>6, HeadsAreNotCells
    <3>3. \A c \in Cells : H.owner[c] = g => K.item[c] = H.item[c]
      BY <1>5, <1>6, <3>0
    <3>4. Untouched(H, K, g)
      BY <3>1, <3>2, <3>3, Zenon DEF Untouched
    <3>5. g \in O /\ O \in SUBSET Heads
      OBVIOUS
    <3> QED
      BY <1>1, <2>1, <3>4, <3>5, OtherRing
  <2>2. ASSUME NEW g \in Heads \ O PROVE Mine(K, g) = Mine(H, g)
    <3>1. g # h /\ g # NULL
      BY HeadsAreNotCells
    <3> QED
      BY <1>5, <1>6, <3>1 DEF Mine
  <2> QED
    BY <2>1, <2>2 DEF Edited
<1>8. \A c \in Cells : K.owner[c] \in O => K.item[c] \in Items
  BY <1>6, HeadsAreNotCells DEF Whole
<1>9. \A g \in O : \E r : IsRing(K, g, r)
  BY <1>4, <1>7 DEF Edited, Whole
<1>10. Listed(K, Put(s, k, new)) = Put(Listed(H, s), k, it)
  <2>1. \A i \in 1 .. Len(s) : s[i] \in Cells /\ s[i] # new
    BY <1>2, <1>5 DEF IsRing
  <2>2. \A i \in 1 .. Len(s) : K.item[s[i]] = H.item[s[i]]
    BY <1>6, <2>1
  <2>3. K.item[new] = it
    BY <1>5, <1>6
  <2>4. Listed(K, Put(s, k, new)) = Put(Listed(H, s), k, K.item[new])
    <3>1. s \in Seq(Cells) /\ new \in Cells
      BY <1>2, <1>5
    <3> QED
      BY <3>1, <2>2, ListedPut
  <2> QED
    BY <2>3, <2>4
<1> QED
  BY <1>3, <1>4, <1>7, <1>8, <1>9, <1>10 DEF Whole

LEMMA UnlinkWhole ==
  ASSUME NEW H, NEW O \in SUBSET Heads, Whole(H, O), NEW h \in O, NEW s, IsRing(H, h, s),
         NEW k \in 1 .. Len(s), NEW K, K = Unlink(H, s[k])
  PROVE  /\ Whole(K, O) /\ Edited(H, K, O, h) /\ IsRing(K, h, Cut(s, k))
         /\ Listed(K, Cut(s, k)) = Cut(Listed(H, s), k)
<1> DEFINE c == s[k]
           p == H.prv[c]
           n == H.nxt[c]
<1>1. Good(H, O)
  BY DEF Whole
<1>2. c \in Cells /\ c \in All /\ H.owner[c] = h /\ s \in Seq(Cells)
  BY HeadsAreNotCells DEF IsRing
<1>3. Good(K, O)
  BY <1>1, <1>2, UnlinkGood
<1>4. IsRing(K, h, Cut(s, k))
  BY <1>1, UnlinkRing
<1>5. p \in All /\ n \in All /\ H.owner[p] = h /\ H.owner[n] = h /\ h # NULL /\ NULL \notin O
  BY <1>1, <1>2, HeadsAreNotCells DEF Good, Sound
<1>6. /\ \A y \in All : K.nxt[y] = IF y = c THEN NULL ELSE IF y = p THEN n ELSE H.nxt[y]
      /\ \A y \in All : K.owner[y] = IF y = c THEN NULL ELSE H.owner[y]
      /\ \A y \in Cells : K.item[y] = IF y = c THEN NULL ELSE H.item[y]
  <2>2. K.nxt = [H.nxt EXCEPT ![p] = n, ![c] = NULL] /\ K.owner = [H.owner EXCEPT ![c] = NULL]
        /\ K.item = [H.item EXCEPT ![c] = NULL]
    BY DEF Unlink
  <2>3. H.nxt \in [All -> All \cup {NULL}] /\ H.owner \in [All -> Heads \cup {NULL}] /\ H.item \in [Cells -> Items \cup {NULL}]
    BY <1>1 DEF Good, HeapType
  <2> HIDE DEF p, n, c
  <2> QED
    BY <1>2, <1>5, <2>2, <2>3
<1>0. \A i \in 1 .. Len(s) : i # k => s[i] \in Cells /\ s[i] # c
  BY <1>2 DEF IsRing
<1> HIDE DEF p, n
<1>7. Edited(H, K, O, h)
  <2> HIDE DEF c
  <2>1. ASSUME NEW g \in O \ {h}, NEW r, IsRing(H, g, r) PROVE IsRing(K, g, r) /\ Listed(K, r) = Listed(H, r)
    <3>0. g # NULL
      BY <1>5
    <3>1. \A y \in All : H.owner[y] = g => K.owner[y] = g /\ K.nxt[y] = H.nxt[y]
      BY <1>2, <1>5, <1>6, <3>0
    <3>2. \A y \in Cells : K.owner[y] = g => H.owner[y] = g
      BY <1>6, <3>0, HeadsAreNotCells
    <3>3. \A y \in Cells : H.owner[y] = g => K.item[y] = H.item[y]
      BY <1>2, <1>6, <3>0
    <3>4. Untouched(H, K, g)
      BY <3>1, <3>2, <3>3, Zenon DEF Untouched
    <3>5. g \in O /\ O \in SUBSET Heads
      OBVIOUS
    <3> QED
      BY <1>1, <2>1, <3>4, <3>5, OtherRing
  <2>2. ASSUME NEW g \in Heads \ O PROVE Mine(K, g) = Mine(H, g)
    <3>1. g # h /\ g # NULL
      BY HeadsAreNotCells
    <3> QED
      BY <1>2, <1>6, <3>1 DEF Mine
  <2> QED
    BY <2>1, <2>2 DEF Edited
<1>8. \A y \in Cells : K.owner[y] \in O => K.item[y] \in Items
  <2> HIDE DEF c
  <2> QED
    BY <1>5, <1>6, HeadsAreNotCells DEF Whole
<1>9. \A g \in O : \E r : IsRing(K, g, r)
  BY <1>4, <1>7 DEF Edited, Whole
<1>10. Listed(K, Cut(s, k)) = Cut(Listed(H, s), k)
  <2>1. \A i \in 1 .. Len(s) : i # k => K.item[s[i]] = H.item[s[i]]
    BY <1>0, <1>6
  <2> QED
    BY <1>2, <2>1, ListedCut
<1> QED
  BY <1>3, <1>4, <1>7, <1>8, <1>9, <1>10 DEF Whole

(* A replacement is both, one after the other. *)
LEMMA EditedTwice ==
  ASSUME NEW G, NEW H, NEW K, NEW O, NEW h, Edited(G, H, O, h), Edited(H, K, O, h)
  PROVE  Edited(G, K, O, h)
<1>1. ASSUME NEW g \in O \ {h}, NEW r, IsRing(G, g, r) PROVE IsRing(K, g, r) /\ Listed(K, r) = Listed(G, r)
  <2>1. IsRing(H, g, r) /\ Listed(H, r) = Listed(G, r)
    BY <1>1, Zenon DEF Edited
  <2>2. IsRing(K, g, r) /\ Listed(K, r) = Listed(H, r)
    BY <2>1, Zenon DEF Edited
  <2> QED
    BY <2>1, <2>2
<1>2. \A g \in Heads \ O : Mine(K, g) = Mine(G, g)
  BY Zenon DEF Edited
<1> QED
  BY <1>1, <1>2, Zenon DEF Edited
-----------------------------------------------------------------------------
(* The loop of destroy comes back to the head when no cell is left, or in  *)
(* lib1 one.                                                               *)
Emptied ==
  victim # NULL /\ cur = victim =>
    \E s : IsRing(heap, victim, s) /\ (s = <<>> \/ (file.skips /\ Len(s) = 1))

(* What a list no longer in use still owns. *)
Kept(h) ==
  \/ Mine(heap, h) = {}
  \/ file.skips /\ Cardinality(Mine(heap, h)) = 1
  \/ file.client = "queue" /\ Mine(heap, h) = {h}

RingInv ==
  /\ ListInv
  /\ Whole(heap, open)
  /\ Emptied
  /\ \A h \in Heads \ open : Kept(h)

(* What ItemLists sees of list h. *)
Shown(h) == IF h \in open /\ victim # h THEN Contents(h) ELSE Gone

LEMMA ShownIs ==
  ASSUME Whole(heap, open), open \in SUBSET Heads, NEW h \in open, victim # h, NEW s, IsRing(heap, h, s)
  PROVE  Shown(h) = Listed(heap, s) /\ Shown(h) # Gone
<1>1. h \notin Cells
  BY HeadsAreNotCells
<1>2. Contents(h) = Listed(heap, s)
  BY <1>1, ContentsAre DEF Contents
<1>3. Listed(heap, s) \in Seq(Items)
  BY ListedItems
<1> QED
  BY <1>2, <1>3, ListAssumption DEF Shown

(* The same of the next state. *)
LEMMA ShownNext ==
  ASSUME Whole(heap', open'), open' \in SUBSET Heads, NEW h \in Heads, h \in open', victim' # h, NEW s, IsRing(heap', h, s)
  PROVE  Shown(h)' = Listed(heap', s) /\ Shown(h)' # Gone
<1>1. h \notin Cells
  BY HeadsAreNotCells
<1>2. Contents(h)' = Listed(heap', s)
  BY <1>1, ContentsAre DEF Contents
<1>3. Listed(heap', s) \in Seq(Items)
  BY ListedItems
<1> QED
  BY <1>2, <1>3, ListAssumption DEF Shown

(* The other lists look as before. *)
LEMMA OthersShown ==
  ASSUME Whole(heap, open), open \in SUBSET Heads, Whole(heap', open), open' = open,
         NEW h \in open, Edited(heap, heap', open, h), victim' = victim
  PROVE  \A g \in Heads \ {h} : Shown(g)' = Shown(g)
<1> SUFFICES ASSUME NEW g \in Heads \ {h} PROVE Shown(g)' = Shown(g)
  OBVIOUS
<1>1. CASE g \in open /\ victim # g
  <2>1. PICK r : IsRing(heap, g, r)
    BY <1>1 DEF Whole
  <2>2. IsRing(heap', g, r) /\ Listed(heap', r) = Listed(heap, r)
    BY <1>1, <2>1 DEF Edited
  <2>3. Shown(g) = Listed(heap, r)
    BY <1>1, <2>1, ShownIs
  <2>4. Shown(g)' = Listed(heap', r)
    BY <1>1, <2>2, ShownNext
  <2> QED
    BY <2>2, <2>3, <2>4
<1>2. CASE ~(g \in open /\ victim # g)
  BY <1>2 DEF Shown
<1> QED
  BY <1>1, <1>2

(* What ItemLists lets a call do to the list it is about. *)
AbsCall(u, v) ==
  \/ Promise!Refuse(u, v) \/ Promise!LosePush(u, v) \/ Promise!Insert(u, v) \/ Promise!Replace(u, v)
  \/ Promise!Find(u, v) \/ Promise!Delete(u, v) \/ Promise!Fetch(u, v) \/ Promise!TakeFirst(u, v)

LEMMA AbsStep ==
  ASSUME NEW h \in Heads, NEW u, NEW v, Shown(h) = u, Shown(h)' = v, u # Gone, v # Gone,
         \A g \in Heads \ {h} : Shown(g)' = Shown(g),
         AbsCall(u, v)
  PROVE  Promise!AbsNext
<1>1. \A g \in Heads : [f \in Heads |-> Shown(f)][g] = Shown(g)
  OBVIOUS
<1>2. \A g \in Heads : [f \in Heads |-> Shown(f)]'[g] = Shown(g)'
  OBVIOUS
<1> QED
  BY <1>1, <1>2 DEF Promise!AbsNext, Shown, AbsCall

(* A call on list h, which had cells s and then has cells t. *)
LEMMA CallStep ==
  ASSUME RingInv, ListInv', NEW h \in Heads, Idle(h), UNCHANGED <<file, open, victim, cur>>,
         Whole(heap', open), Edited(heap, heap', open, h),
         NEW s, IsRing(heap, h, s), NEW t, IsRing(heap', h, t),
         AbsCall(Listed(heap, s), Listed(heap', t))
  PROVE  RingInv' /\ Promise!AbsNext
<1>1. h \in open /\ victim = NULL /\ victim' = NULL /\ open' = open /\ file' = file /\ open \in SUBSET Heads /\ victim # h
      /\ Whole(heap, open)
  BY HeadsAreNotCells DEF Idle, RingInv, ListInv, ListTypeOK
<1>2. Whole(heap', open')
  BY <1>1
<1>3. Emptied'
  BY <1>1 DEF Emptied
<1>4. ASSUME NEW g \in Heads \ open' PROVE Kept(g)'
  <2>1. Mine(heap', g) = Mine(heap, g)
    BY <1>1, <1>4 DEF Edited
  <2>2. Kept(g)
    BY <1>1, <1>4 DEF RingInv
  <2> QED
    BY <1>1, <2>1, <2>2 DEF Kept
<1>5. RingInv'
  BY <1>2, <1>3, <1>4 DEF RingInv
<1>6. Shown(h) = Listed(heap, s) /\ Shown(h) # Gone
  BY <1>1, ShownIs
<1>7. Shown(h)' = Listed(heap', t) /\ Shown(h)' # Gone
  BY <1>1, <1>2, ShownNext
<1>8. \A g \in Heads \ {h} : Shown(g)' = Shown(g)
  BY <1>1, <1>2, OthersShown
<1>9. Promise!AbsNext
  <2>1. PICK u : u = Listed(heap, s)
    OBVIOUS
  <2>2. PICK v : v = Listed(heap', t)
    OBVIOUS
  <2>3. AbsCall(u, v) /\ Shown(h) = u /\ Shown(h)' = v /\ u # Gone /\ v # Gone
    BY <1>6, <1>7, <2>1, <2>2
  <2> QED
    BY <1>8, <2>3, AbsStep
<1> QED
  BY <1>5, <1>9

LEMMA SameHeap == ASSUME NEW H, NEW O, NEW h PROVE Edited(H, H, O, h)
  BY DEF Edited

LEMMA RefusedStep ==
  ASSUME RingInv, ListInv', NEW h \in Heads, Idle(h), NEW r \in {"ok", "nomem", "badmode", "duplicate", "missing"}, Refused(r)
  PROVE  RingInv' /\ Promise!AbsNext
<1>1. heap' = heap /\ UNCHANGED <<file, open, victim, cur>> /\ answer' = Result(r, NULL) /\ Whole(heap, open) /\ h \in open
  BY DEF Refused, Reply, Answer, RingInv, Idle
<1>2. PICK s : IsRing(heap, h, s)
  BY <1>1 DEF Whole
<1>3. PICK u : u = Listed(heap, s)
  OBVIOUS
<1>4. AbsCall(u, u)
  <2>1. CASE r = "ok"
    <3>1. Promise!LosePush(u, u)
      BY <1>1, <2>1 DEF Promise!LosePush, Promise!Returns, Result
    <3> QED
      BY <3>1 DEF AbsCall
  <2>2. CASE r # "ok"
    <3>1. Promise!Refuse(u, u)
      BY <1>1, <2>2 DEF Promise!Refuse, Promise!Refusals, Promise!Returns, Result
    <3> QED
      BY <3>1 DEF AbsCall
  <2> QED
    BY <2>1, <2>2
<1>5. Listed(heap', s) = u /\ IsRing(heap', h, s) /\ Whole(heap', open) /\ Edited(heap, heap', open, h)
  BY <1>1, <1>2, <1>3, SameHeap
<1> QED
  BY <1>1, <1>2, <1>3, <1>4, <1>5, CallStep

LEMMA InsertStep ==
  ASSUME RingInv, ListInv', NEW h \in Heads, Idle(h), NEW p \in {HEADINSERT(h), TAILINSERT(h)},
         NEW it \in Items, InsertAfter(h, p, it)
  PROVE  RingInv' /\ Promise!AbsNext
<1>1. Whole(heap, open) /\ h \in open /\ open \in SUBSET Heads
  BY DEF RingInv, Idle, ListInv, ListTypeOK
<1>2. PICK s : IsRing(heap, h, s)
  BY <1>1 DEF Whole
<1>3. s \in Seq(Cells) /\ Len(s) \in Nat /\ heap.prv[h] = Turn(s, h, Len(s)) /\ Turn(s, h, 0) = h
  BY <1>1, <1>2, RingNodes DEF Whole, Turn
<1>4. PICK k \in {0, Len(s)} : p = Turn(s, h, k)
  BY <1>3 DEF HEADINSERT, TAILINSERT
<1>5. k \in 0 .. Len(s)
  BY <1>3, <1>4
<1>6. ASSUME NEW new \in FreeCells(heap), heap' = Link(heap, h, new, p, it), Reply("ok")
      PROVE  RingInv' /\ Promise!AbsNext
  <2>1. PICK K : K = heap'
    OBVIOUS
  <2>2. K = Link(heap, h, new, Turn(s, h, k), it)
    BY <1>4, <1>6, <2>1
  <2>3. /\ Whole(K, open) /\ Edited(heap, K, open, h) /\ IsRing(K, h, Put(s, k, new))
        /\ Listed(K, Put(s, k, new)) = Put(Listed(heap, s), k, it)
    BY <1>1, <1>2, <1>5, <2>2, LinkWhole
  <2>4. PICK u : u = Listed(heap, s)
    OBVIOUS
  <2>5. PICK v : v = Listed(K, Put(s, k, new))
    OBVIOUS
  <2>6. u \in Seq(Items) /\ Len(u) = Len(s) /\ v = Put(u, k, it)
    BY <1>1, <1>2, <2>3, <2>4, <2>5, ListedItems
  <2>7. Put(u, 0, it) = <<it>> \o u /\ Put(u, Len(u), it) = Append(u, it)
    BY <2>6, PutEnds
  <2>8. v = <<it>> \o u \/ v = Append(u, it)
    BY <1>4, <2>6, <2>7
  <2>9. AbsCall(u, v)
    <3>1. answer' = Promise!Returns("ok")
      BY <1>6 DEF Reply, Answer, Result, Promise!Returns
    <3>2. Promise!Insert(u, v)
      BY <2>8, <3>1 DEF Promise!Insert
    <3> QED
      BY <3>2 DEF AbsCall
  <2>10. UNCHANGED <<file, open, victim, cur>>
    BY <1>6 DEF Reply, Answer
  <2> QED
    BY <1>2, <2>1, <2>3, <2>4, <2>5, <2>9, <2>10, CallStep
<1>7. CASE Refused("nomem")
  BY <1>7, RefusedStep
<1> QED
  BY <1>6, <1>7 DEF InsertAfter

LEMMA PushStep ==
  ASSUME RingInv, ListInv', NEW h \in Heads, NEW it \in Items, stack_push(h, it)
  PROVE  RingInv' /\ Promise!AbsNext
<1>1. Idle(h)
  BY DEF stack_push
<1>2. CASE Refused("ok")
  BY <1>1, <1>2, RefusedStep
<1>3. CASE ~Refused("ok")
  BY <1>1, <1>3, InsertStep DEF stack_push, InsertAfter
<1> QED
  BY <1>2, <1>3

(* What _find returns is the first cell with the id. *)
LEMMA FoundIsFirst ==
  ASSUME NEW h \in Heads, NEW s, IsRing(heap, h, s), NEW id, NEW c \in Found(h, id)
  PROVE  \E k \in 1 .. Len(s) :
           /\ s[k] = c /\ Listed(heap, s)[k] = heap.item[c] /\ heap.item[c].id = id
           /\ \A j \in 1 .. k - 1 : Listed(heap, s)[j].id # id
<1>0. s \in Seq(Cells) /\ Len(s) \in Nat /\ DOMAIN s = 1 .. Len(s)
  BY DEF IsRing
<1>1. Ring(heap.nxt, h) = s
  BY RingIs, HeadsAreNotCells
<1>2. PICK k \in 1 .. Len(s) : s[k] = c /\ heap.item[c].id = id /\ \A j \in 1 .. k - 1 : heap.item[s[j]].id # id
  BY <1>0, <1>1 DEF Found
<1>3. \A j \in 1 .. Len(s) : Listed(heap, s)[j] = heap.item[s[j]]
  BY DEF Listed
<1>4. \A j \in 1 .. k - 1 : j \in 1 .. Len(s)
  BY <1>0, <1>2
<1> QED
  BY <1>2, <1>3, <1>4

(* The items of the list, and the first with the id among them. *)
LEMMA FoundItems ==
  ASSUME RingInv, NEW h \in Heads, h \in open, NEW s, IsRing(heap, h, s), NEW id, NEW c \in Found(h, id)
  PROVE  \E k \in 1 .. Len(s), u \in Seq(Items) :
           /\ s[k] = c /\ u = Listed(heap, s) /\ Len(u) = Len(s)
           /\ k \in DOMAIN u /\ u[k] = heap.item[c] /\ u[k].id = id
           /\ Promise!FirstWithId(u, id) = u[k]
           /\ Promise!WithoutFirst(u, id) = Cut(u, k)
           /\ Promise!HasId(u, id)
<1>1. PICK k \in 1 .. Len(s) :
           /\ s[k] = c /\ Listed(heap, s)[k] = heap.item[c] /\ heap.item[c].id = id
           /\ \A j \in 1 .. k - 1 : Listed(heap, s)[j].id # id
  BY FoundIsFirst
<1>2. PICK u : u = Listed(heap, s)
  OBVIOUS
<1>3. Whole(heap, open) /\ open \in SUBSET Heads
  BY DEF RingInv, ListInv, ListTypeOK
<1>4. u \in Seq(Items) /\ Len(u) = Len(s)
  BY <1>2, <1>3, ListedItems
<1>5. k \in 1 .. Len(u) /\ DOMAIN u = 1 .. Len(u) /\ u[k] = heap.item[c] /\ u[k].id = id /\ \A j \in 1 .. k - 1 : u[j].id # id
  BY <1>1, <1>2, <1>4
<1>6. /\ Promise!FirstWithId(u, id) = u[k]
      /\ Promise!WithoutFirst(u, id) = Cut(u, k)
      /\ Promise!HasId(u, id)
  BY <1>4, <1>5, FirstMatch
<1> QED
  BY <1>1, <1>2, <1>4, <1>5, <1>6

LEMMA FindStep ==
  ASSUME RingInv, ListInv', NEW h \in Heads, NEW id, list_find(h, id)
  PROVE  RingInv' /\ Promise!AbsNext
<1>1. Idle(h) /\ h \in open /\ Whole(heap, open)
  BY DEF list_find, Idle, RingInv
<1>2. ASSUME NEW c \in Found(h, id), Answer("ok", heap.item[c]), heap' = heap
      PROVE  RingInv' /\ Promise!AbsNext
  <2>1. PICK s : IsRing(heap, h, s)
    BY <1>1 DEF Whole
  <2>2. PICK k \in 1 .. Len(s), u \in Seq(Items) :
           /\ s[k] = c /\ u = Listed(heap, s) /\ Len(u) = Len(s)
           /\ k \in DOMAIN u /\ u[k] = heap.item[c] /\ u[k].id = id
           /\ Promise!FirstWithId(u, id) = u[k]
           /\ Promise!WithoutFirst(u, id) = Cut(u, k)
           /\ Promise!HasId(u, id)
    BY <1>1, <2>1, FoundItems
  <2>3. answer' = Promise!Delivers(u[k])
    BY <1>2, <2>2 DEF Answer, Result, Promise!Delivers
  <2>4. Promise!Find(u, u)
    BY <2>2, <2>3 DEF Promise!Find
  <2>5. AbsCall(u, u)
    BY <2>4 DEF AbsCall
  <2>6. Listed(heap', s) = u /\ IsRing(heap', h, s) /\ Whole(heap', open) /\ Edited(heap, heap', open, h)
    BY <1>1, <1>2, <2>1, <2>2, SameHeap
  <2>7. UNCHANGED <<file, open, victim, cur>>
    BY <1>2 DEF Answer
  <2> QED
    BY <1>1, <2>1, <2>2, <2>5, <2>6, <2>7, CallStep
<1>3. CASE Refused("missing")
  BY <1>1, <1>3, RefusedStep
<1> QED
  BY <1>2, <1>3 DEF list_find

LEMMA DeleteStep ==
  ASSUME RingInv, ListInv', NEW h \in Heads, NEW id, list_delete(h, id) \/ list_fetch(h, id)
  PROVE  RingInv' /\ Promise!AbsNext
<1>1. Idle(h) /\ h \in open /\ Whole(heap, open) /\ open \in SUBSET Heads
  BY DEF list_delete, list_fetch, Idle, RingInv, ListInv, ListTypeOK
<1>2. ASSUME NEW c \in Found(h, id), heap' = Unlink(heap, c), Answer("ok", NULL) \/ Answer("ok", heap.item[c])
      PROVE  RingInv' /\ Promise!AbsNext
  <2>1. PICK s : IsRing(heap, h, s)
    BY <1>1 DEF Whole
  <2>2. PICK k \in 1 .. Len(s), u \in Seq(Items) :
           /\ s[k] = c /\ u = Listed(heap, s) /\ Len(u) = Len(s)
           /\ k \in DOMAIN u /\ u[k] = heap.item[c] /\ u[k].id = id
           /\ Promise!FirstWithId(u, id) = u[k]
           /\ Promise!WithoutFirst(u, id) = Cut(u, k)
           /\ Promise!HasId(u, id)
    BY <1>1, <2>1, FoundItems
  <2>3. PICK K : K = heap'
    OBVIOUS
  <2>4. K = Unlink(heap, s[k])
    BY <1>2, <2>2, <2>3
  <2>5. /\ Whole(K, open) /\ Edited(heap, K, open, h) /\ IsRing(K, h, Cut(s, k))
        /\ Listed(K, Cut(s, k)) = Cut(Listed(heap, s), k)
    BY <1>1, <2>1, <2>2, <2>4, UnlinkWhole
  <2>6. PICK v : v = Listed(K, Cut(s, k))
    OBVIOUS
  <2>7. v = Promise!WithoutFirst(u, id)
    BY <2>2, <2>5, <2>6
  <2>8. AbsCall(u, v)
    <3>1. CASE Answer("ok", NULL)
      <4>1. answer' = Promise!Returns("ok")
        BY <3>1 DEF Answer, Result, Promise!Returns
      <4>2. Promise!Delete(u, v)
        BY <4>1, <2>2, <2>7 DEF Promise!Delete
      <4> QED
        BY <4>2 DEF AbsCall
    <3>2. CASE Answer("ok", heap.item[c])
      <4>1. answer' = Promise!Delivers(u[k])
        BY <3>2, <2>2 DEF Answer, Result, Promise!Delivers
      <4>2. Promise!Fetch(u, v)
        BY <4>1, <2>2, <2>7 DEF Promise!Fetch
      <4> QED
        BY <4>2 DEF AbsCall
    <3> QED
      BY <1>2, <3>1, <3>2
  <2>9. UNCHANGED <<file, open, victim, cur>>
    BY <1>2 DEF Answer
  <2> QED
    BY <1>1, <2>1, <2>2, <2>3, <2>5, <2>6, <2>8, <2>9, CallStep
<1>3. CASE Refused("missing")
  BY <1>1, <1>3, RefusedStep
<1> QED
  BY <1>2, <1>3 DEF list_delete, list_fetch, Reply

LEMMA PopStep ==
  ASSUME RingInv, ListInv', NEW h \in Heads, Idle(h), llist_pop(h)
  PROVE  RingInv' /\ Promise!AbsNext
<1>1. h \in open /\ Whole(heap, open) /\ open \in SUBSET Heads
  BY DEF Idle, RingInv, ListInv, ListTypeOK
<1>2. CASE heap.nxt[h] = h
  BY <1>2, RefusedStep DEF llist_pop
<1>3. CASE heap.nxt[h] # h
  <2>1. PICK s : IsRing(heap, h, s)
    BY <1>1 DEF Whole
  <2>2. Len(s) \in Nat /\ s \in Seq(Cells) /\ heap.nxt[h] = Turn(s, h, 1)
    <3>1. Len(s) \in Nat /\ s \in Seq(Cells)
      BY <2>1 DEF IsRing
    <3>2. Turn(s, h, 0) = h /\ 0 \in 0 .. Len(s) /\ 0 + 1 = 1
      BY <3>1 DEF Turn
    <3> QED
      BY <2>1, <3>1, <3>2 DEF IsRing
  <2>3. 1 \in 1 .. Len(s) /\ heap.nxt[h] = s[1]
    BY <2>2, <1>3 DEF Turn
  <2>4. PICK k \in 1 .. Len(s) : k = 1
    BY <2>3
  <2>5. PICK K : K = heap'
    OBVIOUS
  <2>6. K = Unlink(heap, s[k]) /\ Answer("ok", heap.item[s[k]])
    BY <1>3, <2>3, <2>4, <2>5 DEF llist_pop
  <2>7. /\ Whole(K, open) /\ Edited(heap, K, open, h) /\ IsRing(K, h, Cut(s, k))
        /\ Listed(K, Cut(s, k)) = Cut(Listed(heap, s), k)
    BY <1>1, <2>1, <2>4, <2>6, UnlinkWhole
  <2>8. PICK u : u = Listed(heap, s)
    OBVIOUS
  <2>9. PICK v : v = Listed(K, Cut(s, k))
    OBVIOUS
  <2>10. u \in Seq(Items) /\ Len(u) = Len(s) /\ u[1] = heap.item[s[1]]
    <3>1. u \in Seq(Items) /\ Len(u) = Len(s)
      BY <1>1, <2>1, <2>8, ListedItems
    <3> QED
      BY <3>1, <2>3, <2>8 DEF Listed
  <2>11. u # <<>> /\ Head(u) = u[1] /\ k \in 1 .. Len(u)
    BY <2>3, <2>4, <2>10
  <2>12. v = Tail(u)
    BY <2>4, <2>7, <2>8, <2>9, <2>10, <2>11, CutIsRemoveAt
  <2>13. answer' = Promise!Delivers(Head(u))
    BY <2>4, <2>6, <2>10, <2>11 DEF Answer, Result, Promise!Delivers
  <2>14. AbsCall(u, v)
    <3>1. Promise!TakeFirst(u, v)
      BY <2>11, <2>12, <2>13 DEF Promise!TakeFirst
    <3> QED
      BY <3>1 DEF AbsCall
  <2>15. UNCHANGED <<file, open, victim, cur>>
    BY <2>6 DEF Answer
  <2> QED
    BY <1>1, <2>1, <2>5, <2>7, <2>8, <2>9, <2>14, <2>15, CallStep
<1> QED
  BY <1>2, <1>3

LEMMA ReplaceStep ==
  ASSUME RingInv, ListInv', NEW h \in Heads, Idle(h), NEW it \in Items, NEW c \in Found(h, it.id), ReplaceIn(h, c, it)
  PROVE  RingInv' /\ Promise!AbsNext
<1>1. h \in open /\ Whole(heap, open) /\ open \in SUBSET Heads
  BY DEF Idle, RingInv, ListInv, ListTypeOK
<1>2. PICK s : IsRing(heap, h, s)
  BY <1>1 DEF Whole
<1>3. PICK k \in 1 .. Len(s), u \in Seq(Items) :
           /\ s[k] = c /\ u = Listed(heap, s) /\ Len(u) = Len(s)
           /\ k \in DOMAIN u /\ u[k] = heap.item[c] /\ u[k].id = it.id
           /\ Promise!FirstWithId(u, it.id) = u[k]
           /\ Promise!WithoutFirst(u, it.id) = Cut(u, k)
           /\ Promise!HasId(u, it.id)
  BY <1>1, <1>2, FoundItems
<1>4. PICK H : H = Unlink(heap, s[k])
  OBVIOUS
<1>5. PICK t : t = Cut(s, k)
  OBVIOUS
<1>6. /\ Whole(H, open) /\ Edited(heap, H, open, h) /\ IsRing(H, h, t)
      /\ Listed(H, t) = Cut(Listed(heap, s), k)
  BY <1>1, <1>2, <1>3, <1>4, <1>5, UnlinkWhole
<1>7. PICK w : w = Listed(H, t)
  OBVIOUS
<1>8. w = Promise!WithoutFirst(u, it.id) /\ w \in Seq(Items) /\ Len(w) = Len(t)
  BY <1>1, <1>3, <1>6, <1>7, ListedItems
<1>9. t \in Seq(Cells) /\ Len(t) \in Nat /\ H.prv[h] = Turn(t, h, Len(t))
  BY <1>1, <1>6, RingNodes DEF Whole
<1>10. ASSUME NEW new \in FreeCells(H), heap' = Link(H, h, new, H.prv[h], it), Reply("ok")
       PROVE  RingInv' /\ Promise!AbsNext
  <2>1. PICK K : K = heap'
    OBVIOUS
  <2>2. PICK m \in 0 .. Len(t) : m = Len(t)
    BY <1>9
  <2>3. K = Link(H, h, new, Turn(t, h, m), it)
    BY <1>9, <1>10, <2>1, <2>2
  <2>4. /\ Whole(K, open) /\ Edited(H, K, open, h) /\ IsRing(K, h, Put(t, m, new))
        /\ Listed(K, Put(t, m, new)) = Put(Listed(H, t), m, it)
    BY <1>1, <1>6, <2>2, <2>3, LinkWhole
  <2>5. PICK v : v = Listed(K, Put(t, m, new))
    OBVIOUS
  <2>6. v = Put(w, Len(w), it)
    BY <1>7, <1>8, <2>2, <2>4, <2>5
  <2>7. v = Append(w, it)
    BY <1>8, <2>6, PutEnds
  <2>8. AbsCall(u, v)
    <3>1. answer' = Promise!Returns("ok")
      BY <1>10 DEF Reply, Answer, Result, Promise!Returns
    <3>2. Promise!Replace(u, v)
      BY <1>3, <1>8, <2>7, <3>1 DEF Promise!Replace
    <3> QED
      BY <3>2 DEF AbsCall
  <2>9. Edited(heap, K, open, h)
    BY <1>6, <2>4, EditedTwice
  <2>10. UNCHANGED <<file, open, victim, cur>>
    BY <1>10 DEF Reply, Answer
  <2> QED
    BY <1>1, <1>2, <1>3, <2>1, <2>4, <2>5, <2>8, <2>9, <2>10, CallStep
<1>11. CASE heap' = H /\ Reply("nomem")
  <2>1. answer' = Promise!Returns("nomem")
    BY <1>11 DEF Reply, Answer, Result, Promise!Returns
  <2>2. Promise!Replace(u, w)
    BY <1>3, <1>8, <2>1 DEF Promise!Replace
  <2>3. AbsCall(u, w)
    BY <2>2 DEF AbsCall
  <2>4. UNCHANGED <<file, open, victim, cur>>
    BY <1>11 DEF Reply, Answer
  <2> QED
    BY <1>1, <1>2, <1>3, <1>6, <1>7, <1>11, <2>3, <2>4, CallStep
<1> QED
  BY <1>3, <1>4, <1>10, <1>11 DEF ReplaceIn

LEMMA TableStep ==
  ASSUME RingInv, ListInv', NEW it \in Items, htable_insert(it)
  PROVE  RingInv' /\ Promise!AbsNext
<1> DEFINE h == Bucket(it)
<1>1. h \in Heads /\ Idle(h)
  BY InvIsGood DEF htable_insert, Idle, RingInv
<1> HIDE DEF h
<1>2. ASSUME NEW c \in Found(h, it.id), ReplaceIn(h, c, it) PROVE RingInv' /\ Promise!AbsNext
  BY <1>1, <1>2, ReplaceStep
<1>3. CASE Refused("duplicate") \/ Refused("badmode")
  BY <1>1, <1>3, RefusedStep
<1>4. CASE InsertAfter(h, TAILINSERT(h), it)
  BY <1>1, <1>4, InsertStep
<1> QED
  BY <1>2, <1>3, <1>4 DEF htable_insert, h
-----------------------------------------------------------------------------
(* All lists begin empty. *)
LEMMA InitRing == ListInit => RingInv /\ Promise!AbsInit
<1> SUFFICES ASSUME ListInit PROVE RingInv /\ Promise!AbsInit
  OBVIOUS
<1>1. ListInv
  BY InitInv
<1>2. heap.nxt = [x \in All |-> IF x \in Heads THEN x ELSE NULL] /\ heap.owner = heap.nxt
      /\ open = Heads /\ victim = NULL /\ answer = Result("none", NULL)
  BY DEF ListInit
<1>3. \A c \in Cells : heap.owner[c] = NULL
  BY <1>2, HeadsAreNotCells
<1>4. ASSUME NEW h \in Heads PROVE IsRing(heap, h, <<>>)
  <2>1. Len(<<>>) = 0 /\ <<>> \in Seq(Cells) /\ (\A i : Turn(<<>>, h, i) = h) /\ heap.nxt[h] = h /\ h # NULL
    BY <1>2, HeadsAreNotCells DEF Turn
  <2> QED
    BY <1>3, <2>1 DEF IsRing
<1>5. Whole(heap, open)
  BY <1>1, <1>2, <1>3, <1>4, InvIsGood, HeadsAreNotCells DEF Whole
<1>6. RingInv
  BY <1>1, <1>2, <1>5 DEF RingInv, Emptied
<1>7. ASSUME NEW h \in Heads PROVE Shown(h) = <<>>
  <2>1. Shown(h) = Listed(heap, <<>>)
    BY <1>2, <1>4, <1>5, <1>7, HeadsAreNotCells, ShownIs
  <2>2. Listed(heap, <<>>) = <<>>
    BY DEF Listed
  <2> QED
    BY <2>1, <2>2
<1>8. Promise!AbsInit
  BY <1>2, <1>7 DEF Promise!AbsInit, Promise!Returns, Result, Shown
<1> QED
  BY <1>6, <1>8

(* The nodes of a list in use are its head and the cells of its ring. *)
LEMMA MineIs ==
  ASSUME NEW H, NEW O \in SUBSET Heads, Good(H, O), NEW h \in O, NEW s, IsRing(H, h, s)
  PROVE  Mine(H, h) = {h} \cup {s[i] : i \in DOMAIN s}
<1>1. s \in Seq(Cells) /\ DOMAIN s = 1 .. Len(s) /\ h \in All /\ H.owner[h] = h /\ h # NULL
  BY HeadsAreNotCells DEF IsRing, Good, Rooted
<1>2. \A c \in Cells : c \in All /\ (H.owner[c] = h <=> c \in {s[i] : i \in DOMAIN s})
  BY <1>1, HeadsAreNotCells DEF IsRing
<1>3. \A g \in Heads : H.owner[g] = h => g = h
  BY <1>1 DEF Good, Rooted
<1>4. \A i \in DOMAIN s : s[i] \in Cells
  BY <1>1
<1> QED
  BY <1>1, <1>2, <1>3, <1>4 DEF Mine, All

(* list_destroy gives the list up at once, as its callers see it ... *)
LEMMA DestroyStep ==
  ASSUME RingInv, ListInv', NEW h \in Heads, list_destroy(h)
  PROVE  RingInv' /\ Promise!AbsNext
<1>1. /\ h \in open /\ victim = NULL /\ heap' = heap /\ file' = file /\ answer' = Result("ok", NULL)
      /\ Whole(heap, open) /\ open \in SUBSET Heads /\ victim # h /\ h # NULL
  BY HeadsAreNotCells DEF list_destroy, Idle, RingInv, ListInv, ListTypeOK
<1>2. PICK s : IsRing(heap, h, s)
  BY <1>1 DEF Whole
<1>3. Len(s) \in Nat /\ s \in Seq(Cells) /\ heap.nxt[h] = Turn(s, h, 1)
  <2>1. Len(s) \in Nat /\ s \in Seq(Cells)
    BY <1>2 DEF IsRing
  <2>2. Turn(s, h, 0) = h /\ 0 \in 0 .. Len(s) /\ 0 + 1 = 1
    BY <2>1 DEF Turn
  <2> QED
    BY <1>2, <2>1, <2>2 DEF IsRing
<1>4. heap.nxt[h] = h => s = <<>>
  <2> SUFFICES ASSUME heap.nxt[h] = h, Len(s) # 0 PROVE FALSE
    BY <1>3
  <2>1. Turn(s, h, 1) \in Cells
    BY <1>3 DEF Turn
  <2> QED
    BY <1>3, <2>1, HeadsAreNotCells
<1>5. \A g \in Heads \ open : Kept(g)
  BY DEF RingInv
<1>6. Shown(h) # Gone
  BY <1>1, <1>2, ShownIs
<1>7. CASE file.client = "queue" /\ heap.nxt[h] = h /\ open' = open \ {h} /\ UNCHANGED <<victim, cur>>
  <2>1. Good(heap', open')
    BY InvIsGood DEF ListInv, ListTypeOK, Good, HeapType
  <2>2. Whole(heap', open')
    BY <1>1, <1>7, <2>1 DEF Whole
  <2>3. Emptied'
    BY <1>1, <1>7 DEF Emptied
  <2>4. Mine(heap, h) = {h}
    <3>1. Mine(heap, h) = {h} \cup {s[i] : i \in DOMAIN s} /\ Good(heap, open)
      BY <1>1, <1>2, MineIs DEF Whole
    <3>2. s = <<>>
      BY <1>4, <1>7
    <3>3. DOMAIN s = {}
      BY <3>2
    <3> QED
      BY <3>1, <3>3
  <2>5. \A g \in Heads \ open' : Kept(g)'
    BY <1>1, <1>5, <1>7, <2>4 DEF Kept
  <2>6. RingInv'
    BY <2>2, <2>3, <2>5 DEF RingInv
  <2>7. Shown(h)' = Gone /\ \A g \in Heads \ {h} : Shown(g)' = Shown(g)
    BY <1>1, <1>7 DEF Shown, Contents
  <2> QED
    BY <1>1, <1>6, <2>6, <2>7 DEF Promise!AbsNext, Promise!Drop, Promise!Returns, Result, Shown
<1>8. CASE victim' = h /\ cur' = heap.nxt[h] /\ open' = open
  <2>2. Whole(heap', open')
    BY <1>1, <1>8
  <2>3. Emptied'
    <3>1. ASSUME cur' = h PROVE IsRing(heap', victim', s) /\ s = <<>>
      BY <1>1, <1>2, <1>4, <1>8, <3>1
    <3>2. ASSUME cur' = victim'
          PROVE  \E r : IsRing(heap', victim', r) /\ (r = <<>> \/ (file'.skips /\ Len(r) = 1))
      <4>1. cur' = h
        BY <1>8, <3>2
      <4>2. IsRing(heap', victim', s) /\ s = <<>>
        BY <3>1, <4>1
      <4> QED
        BY <4>2, Zenon
    <3> QED
      BY <3>2, Zenon DEF Emptied
  <2>5. \A g \in Heads \ open' : Kept(g)'
    BY <1>1, <1>5, <1>8 DEF Kept
  <2>6. RingInv'
    BY <2>2, <2>3, <2>5 DEF RingInv
  <2>7. Shown(h)' = Gone /\ \A g \in Heads \ {h} : Shown(g)' = Shown(g)
    BY <1>1, <1>8, HeadsAreNotCells DEF Shown, Contents
  <2> QED
    BY <1>1, <1>6, <2>6, <2>7 DEF Promise!AbsNext, Promise!Drop, Promise!Returns, Result, Shown
<1> QED
  BY <1>7, <1>8 DEF list_destroy

(* ... and frees its nodes in steps that no caller sees. *)
LEMMA StutterIs ==
  ASSUME answer' = answer, \A g \in Heads : Shown(g)' = Shown(g)
  PROVE  UNCHANGED Promise!absVars
  BY DEF Promise!absVars, Shown

LEMMA DestroyCellStep ==
  ASSUME RingInv, ListInv', DestroyCell
  PROVE  RingInv' /\ UNCHANGED Promise!absVars
<1>0. PICK v : v = victim
  OBVIOUS
<1>1. /\ v # NULL /\ v \in open /\ v \in Heads /\ cur \in All /\ heap.owner[cur] = v /\ cur # v
      /\ Whole(heap, open) /\ Good(heap, open) /\ open \in SUBSET Heads
      /\ UNCHANGED <<file, open, victim, answer>>
  BY <1>0, InvIsGood DEF DestroyCell, RingInv, ListInv, ListTypeOK, OnVictim
<1>2. cur \in Cells
  BY <1>1 DEF Good, Rooted, All
<1>3. PICK s : IsRing(heap, v, s)
  BY <1>1 DEF Whole
<1>4. PICK k \in 1 .. Len(s) : s[k] = cur
  BY <1>1, <1>2, <1>3 DEF IsRing
<1>5. PICK K : K = heap'
  OBVIOUS
<1>6. K = Unlink(heap, s[k]) /\ cur' = IF file.skips THEN K.nxt[K.nxt[v]] ELSE K.nxt[v]
  BY <1>0, <1>4, <1>5 DEF DestroyCell
<1>7. PICK t : t = Cut(s, k)
  OBVIOUS
<1>8. Whole(K, open) /\ Edited(heap, K, open, v) /\ IsRing(K, v, t)
  BY <1>1, <1>3, <1>6, <1>7, UnlinkWhole
<1>9. /\ Len(t) \in Nat /\ t \in Seq(Cells)
      /\ \A i \in 0 .. Len(t) : K.nxt[Turn(t, v, i)] = Turn(t, v, i + 1)
  BY <1>8 DEF IsRing
<1>18. Len(t) \in Nat /\ t \in Seq(Cells)
  BY <1>9
<1>10. K.nxt[v] = Turn(t, v, 1)
  <2>1. Turn(t, v, 0) = v /\ 0 \in 0 .. Len(t) /\ 0 + 1 = 1
    BY <1>9 DEF Turn
  <2> QED
    BY <1>9, <2>1
<1>11. ASSUME cur' = v PROVE t = <<>> \/ (file.skips /\ Len(t) = 1)
  <2>1. CASE Len(t) = 0
    <3>1. t = <<>>
      BY <1>18, <2>1
    <3> QED
      BY <3>1, Zenon
  <2>2. CASE Len(t) = 1
    <3>1. Turn(t, v, 1) \in Cells
      BY <1>9, <2>2 DEF Turn
    <3> QED
      BY <1>1, <1>6, <1>10, <1>11, <2>2, <3>1, HeadsAreNotCells
  <2>3. CASE Len(t) > 1
    <3>1. Turn(t, v, 1) \in Cells /\ Turn(t, v, 2) \in Cells /\ 1 \in 0 .. Len(t) /\ 1 + 1 = 2
      BY <1>9, <2>3 DEF Turn
    <3>2. K.nxt[K.nxt[v]] = Turn(t, v, 2)
      BY <1>9, <1>10, <3>1
    <3> QED
      BY <1>1, <1>6, <1>10, <1>11, <3>1, <3>2, HeadsAreNotCells
  <2>4. \A n \in Nat : n = 0 \/ n = 1 \/ n > 1
    OBVIOUS
  <2> QED
    BY <1>18, <2>1, <2>2, <2>3, <2>4, Zenon
<1>12. Emptied'
  BY <1>0, <1>1, <1>5, <1>8, <1>11 DEF Emptied
<1>13. \A g \in Heads \ open' : Kept(g)'
  <2>1. \A g \in Heads \ open : Kept(g)
    BY DEF RingInv
  <2>2. \A g \in Heads \ open : Mine(heap', g) = Mine(heap, g)
    BY <1>5, <1>8 DEF Edited
  <2> QED
    BY <1>1, <2>1, <2>2 DEF Kept
<1>14. Whole(heap', open')
  BY <1>1, <1>5, <1>8
<1>15. RingInv'
  BY <1>12, <1>13, <1>14 DEF RingInv
<1>16. \A g \in Heads \ {v} : Shown(g)' = Shown(g)
  <2>1. Whole(heap', open) /\ Edited(heap, heap', open, v)
    BY <1>5, <1>8
  <2> QED
    BY <1>1, <2>1, OthersShown
<1>17. Shown(v)' = Shown(v)
  BY <1>0, <1>1 DEF Shown
<1>19. ASSUME NEW g \in Heads PROVE Shown(g)' = Shown(g)
  <2>1. CASE g = v
    BY <1>17, <2>1
  <2>2. CASE g # v
    BY <1>16, <2>2
  <2> QED
    BY <2>1, <2>2
<1>20. UNCHANGED Promise!absVars
  BY <1>1, <1>19, StutterIs
<1> QED
  BY <1>15, <1>20

(* The head goes last; what the ring still had is what lib1 forgets. *)
LEMMA DestroyHeadStep ==
  ASSUME RingInv, ListInv', DestroyHead
  PROVE  RingInv' /\ UNCHANGED Promise!absVars
<1>0. PICK v : v = victim
  OBVIOUS
<1>1. /\ v # NULL /\ v \in open /\ v \in Heads /\ v \in All /\ v \notin Cells /\ cur = v
      /\ Whole(heap, open) /\ Good(heap, open) /\ open \in SUBSET Heads
      /\ file' = file /\ answer' = answer /\ open' = open \ {v} /\ victim' = NULL
  BY <1>0, InvIsGood, HeadsAreNotCells DEF DestroyHead, RingInv, ListInv, ListTypeOK
<1>2. PICK K : K = heap'
  OBVIOUS
<1>3. /\ \A y \in All : y # v => K.owner[y] = heap.owner[y] /\ K.nxt[y] = heap.nxt[y]
      /\ K.owner[v] = NULL /\ K.item = heap.item
  <2>1. heap \in HeapType
    BY <1>1 DEF Good
  <2>2. K = [heap EXCEPT !.owner[v] = NULL, !.nxt[v] = NULL, !.prv[v] = NULL]
    BY <1>0, <1>2 DEF DestroyHead
  <2> QED
    BY <1>1, <2>1, <2>2 DEF HeapType
<1>4. PICK s : IsRing(heap, v, s) /\ (s = <<>> \/ (file.skips /\ Len(s) = 1))
  BY <1>0, <1>1 DEF RingInv, Emptied
<1>5. Mine(heap, v) = {v} \cup {s[i] : i \in DOMAIN s}
  BY <1>1, <1>4, MineIs
<1>6. Mine(K, v) = {s[i] : i \in DOMAIN s}
  <2>1. \A i \in DOMAIN s : s[i] \in Cells
    BY <1>4 DEF IsRing
  <2>2. \A y \in All : y \in Mine(K, v) <=> y # v /\ y \in Mine(heap, v)
    BY <1>1, <1>3 DEF Mine
  <2>3. Mine(K, v) \subseteq All /\ Mine(heap, v) \subseteq All
    BY DEF Mine
  <2> QED
    BY <1>1, <1>5, <2>1, <2>2, <2>3, HeadsAreNotCells
<1>7. Mine(K, v) = {} \/ (file.skips /\ Cardinality(Mine(K, v)) = 1)
  <2>1. CASE s = <<>>
    <3>1. DOMAIN s = {}
      BY <2>1
    <3>2. {s[i] : i \in DOMAIN s} = {}
      BY <3>1
    <3>3. Mine(K, v) = {}
      BY <1>6, <3>2
    <3> QED
      BY <3>3, Zenon
  <2>2. CASE file.skips /\ Len(s) = 1
    <3>1. DOMAIN s = {1}
      BY <1>4, <2>2 DEF IsRing
    <3>2. Mine(K, v) = {s[1]}
      BY <1>6, <3>1
    <3> QED
      BY <2>2, <3>2, FS_Singleton
  <2> QED
    BY <1>4, <2>1, <2>2
<1>8. ASSUME NEW g \in open \ {v} PROVE \E r : IsRing(K, g, r) /\ Shown(g) = Listed(K, r)
  <2>1. PICK r : IsRing(heap, g, r)
    BY <1>1 DEF Whole
  <2>2. Untouched(heap, K, g)
    <3>0. heap.owner[v] = v /\ g # v /\ g # NULL
      BY <1>1, HeadsAreNotCells DEF Good, Rooted
    <3>1. \A y \in All : heap.owner[y] = g => K.owner[y] = g /\ K.nxt[y] = heap.nxt[y]
      BY <1>3, <3>0
    <3>2. \A c \in Cells : K.owner[c] = g => heap.owner[c] = g
      BY <1>1, <1>3, HeadsAreNotCells
    <3> QED
      BY <1>3, <3>1, <3>2 DEF Untouched
  <2>3. IsRing(K, g, r) /\ Listed(K, r) = Listed(heap, r)
    BY <1>1, <2>1, <2>2, OtherRing
  <2>4. Shown(g) = Listed(heap, r)
    BY <1>0, <1>1, <2>1, ShownIs
  <2> QED
    BY <2>3, <2>4
<1>9. Whole(heap', open')
  <2>1. Good(heap', open')
    BY DEF ListInv, ListTypeOK, Good, HeapType
  <2>2. \A g \in open' : \E r : IsRing(heap', g, r)
    BY <1>1, <1>2, <1>8
  <2>3. \A c \in Cells : heap'.owner[c] \in open' => heap'.item[c] \in Items
    BY <1>1, <1>2, <1>3, HeadsAreNotCells DEF Whole
  <2> QED
    BY <2>1, <2>2, <2>3 DEF Whole
<1>10. Emptied'
  BY <1>1 DEF Emptied
<1>11. ASSUME NEW g \in Heads \ open' PROVE Kept(g)'
  <2>1. CASE g = v
    BY <1>1, <1>2, <1>7, <2>1 DEF Kept
  <2>2. CASE g # v
    <3>1. Kept(g) /\ g # NULL
      BY <1>1, <1>11, <2>2, HeadsAreNotCells DEF RingInv
    <3>2. Mine(K, g) = Mine(heap, g)
      <4>1. heap.owner[v] = v
        BY <1>1 DEF Good, Rooted
      <4> QED
        BY <1>1, <1>3, <2>2, <3>1, <4>1 DEF Mine
    <3> QED
      BY <1>1, <1>2, <3>1, <3>2 DEF Kept
  <2> QED
    BY <2>1, <2>2
<1>12. RingInv'
  BY <1>9, <1>10, <1>11 DEF RingInv
<1>13. ASSUME NEW g \in Heads PROVE Shown(g)' = Shown(g)
  <2>1. CASE g \in open \ {v}
    <3>1. PICK r : IsRing(K, g, r) /\ Shown(g) = Listed(K, r)
      BY <1>8, <2>1
    <3>2. open' \in SUBSET Heads /\ g \in open' /\ victim' # g /\ IsRing(heap', g, r)
      BY <1>1, <1>2, <2>1, <3>1, HeadsAreNotCells
    <3>3. Shown(g)' = Listed(heap', r)
      BY <1>9, <3>2, ShownNext
    <3> QED
      BY <1>2, <3>1, <3>3
  <2>2. CASE g \notin open \ {v}
    BY <1>0, <1>1, <2>2 DEF Shown
  <2> QED
    BY <2>1, <2>2
<1> QED
  BY <1>1, <1>12, <1>13, StutterIs

(* One step of the pointer code is one step of the sequences, or none. *)
LEMMA RingNext == RingInv /\ [ListNext]_listVars => RingInv' /\ [Promise!AbsNext]_(Promise!absVars)
<1> SUFFICES ASSUME RingInv, [ListNext]_listVars PROVE RingInv' /\ [Promise!AbsNext]_(Promise!absVars)
  OBVIOUS
<1>0. ListInv'
  BY NextInv DEF RingInv
<1> DEFINE Goal == RingInv' /\ [Promise!AbsNext]_(Promise!absVars)
<1>1. ASSUME NEW h \in Heads, NEW it \in Items,
             list_insert(h, it) \/ stack_push(h, it) \/ queue_en(h, it)
      PROVE  Goal
  <2>1. CASE list_insert(h, it)
    BY <1>0, <2>1, InsertStep, RefusedStep DEF list_insert
  <2>2. CASE stack_push(h, it)
    BY <1>0, <2>2, PushStep
  <2>3. CASE queue_en(h, it)
    BY <1>0, <2>3, InsertStep DEF queue_en
  <2> QED
    BY <1>1, <2>1, <2>2, <2>3
<1>2. ASSUME NEW h \in Heads, NEW id \in Ids,
             list_find(h, id) \/ list_delete(h, id) \/ list_fetch(h, id)
      PROVE  Goal
  BY <1>0, <1>2, FindStep, DeleteStep
<1>3. ASSUME NEW h \in Heads, stack_pop(h) \/ queue_de(h) PROVE Goal
  BY <1>0, <1>3, PopStep DEF stack_pop, queue_de
<1>4. ASSUME NEW h \in Heads, list_destroy(h) PROVE Goal
  BY <1>0, <1>4, DestroyStep
<1>5. ASSUME NEW it \in Items, htable_insert(it) PROVE Goal
  BY <1>0, <1>5, TableStep
<1>6. CASE DestroyCell \/ DestroyHead
  BY <1>0, <1>6, DestroyCellStep, DestroyHeadStep
<1>7. CASE UNCHANGED listVars
  <2>1. RingInv'
    BY <1>0, <1>7 DEF RingInv, Emptied, Kept, listVars
  <2>2. UNCHANGED Promise!absVars
    BY <1>7 DEF Promise!absVars, Contents, listVars
  <2> QED
    BY <2>1, <2>2
<1> QED
  BY <1>1, <1>2, <1>3, <1>4, <1>5, <1>6, <1>7 DEF ListNext

LEMMA RingAlways == ListSpec => []RingInv
  BY InitRing, RingNext, PTL DEF ListSpec

(* What is owned is what the ring passes. *)
LEMMA RingImpliesKept == RingInv => NothingLeaks
<1> SUFFICES ASSUME RingInv, NEW h \in Heads
             PROVE  LET mine == {x \in All : heap.owner[x] = h}
                    IN IF h \in open
                       THEN LET r == Ring(heap.nxt, h) IN mine = {h} \cup {r[i] : i \in DOMAIN r}
                       ELSE \/ mine = {}
                            \/ file.skips /\ Cardinality(mine) = 1
                            \/ file.client = "queue" /\ mine = {h}
  BY DEF NothingLeaks
<1>1. CASE h \in open
  <2>1. Whole(heap, open) /\ Good(heap, open) /\ open \in SUBSET Heads /\ h \notin Cells
    BY HeadsAreNotCells DEF RingInv, Whole, ListInv, ListTypeOK
  <2>2. PICK s : IsRing(heap, h, s)
    BY <1>1, <2>1 DEF Whole
  <2>3. Ring(heap.nxt, h) = s
    BY <2>1, <2>2, RingIs
  <2>4. Mine(heap, h) = {h} \cup {s[i] : i \in DOMAIN s}
    BY <1>1, <2>1, <2>2, MineIs
  <2> QED
    BY <1>1, <2>3, <2>4 DEF Mine
<1>2. CASE h \notin open
  BY <1>2 DEF RingInv, Kept, Mine
<1> QED
  BY <1>1, <1>2

(* No list file leaks or loses a node but the two that are known to: the   *)
(* cells allocated for a list are those reached from its head, and after   *)
(* list_destroy none is left, except lib1's one and the empty queue's head.*)
THEOREM NothingIsLost == ListSpec => []NothingLeaks
  BY RingAlways, RingImpliesKept, PTL

(* Every operation of every list file, and of the stack, the queue and the *)
(* hash table upon them, is to its caller an operation on a sequence of    *)
(* items: the pointer code implements ItemLists.                            *)
THEOREM ListsImplementSequences == ListSpec => ListsAreSequences
<1>1. ListInit => Promise!AbsInit
  BY InitRing
<1>2. RingInv /\ [ListNext]_listVars => [Promise!AbsNext]_(Promise!absVars)
  BY RingNext
<1> QED
  BY <1>1, <1>2, RingAlways, PTL DEF ListSpec, ListsAreSequences, Promise!AbsSpec
-----------------------------------------------------------------------------
(***************************************************************************)
(* The nodes of the tree are numbered from left to right: pos[x] is the    *)
(* number of x, and the nodes from x downwards have numbers from lo[x] to  *)
(* hi[x].  The variable tree counts as the left side of a node behind all. *)
(***************************************************************************)
Named == Students \cup {NoNode}
Numbers == [Named -> Int]

(* The numbers for place p. *)
From(pos, lo, p) == IF p[2] = "l" THEN lo[p[1]] ELSE pos[p[1]] + 1
Upto(pos, hi, p) == IF p[2] = "l" THEN pos[p[1]] - 1 ELSE hi[p[1]]

Arms(T) == {Tree} \cup (T \X Sides)

Within(T, pos, lo, hi) ==
  /\ lo[NoNode] = 1 /\ pos[NoNode] >= 1
  /\ \A x \in T : 1 <= lo[x] /\ lo[x] <= pos[x] /\ pos[x] <= hi[x] /\ hi[x] < pos[NoNode]

Apart(T, pos) == \A x, y \in T : pos[x] = pos[y] => x = y

(* Of two nodes, one is left of the other with one in between, or below it. *)
Nested(T, pos, lo, hi) ==
  \A x, y \in T : pos[x] < pos[y] =>
    \/ hi[x] + 1 < lo[y]
    \/ pos[x] < lo[y] /\ hi[y] <= hi[x]
    \/ hi[x] < pos[y] /\ lo[y] <= lo[x]

Closed2(c, T) == \A p \in Arms(T) : c[p] \in T \cup {NoNode}
Vacant(c, T, pos, lo, hi) ==
  \A p \in Arms(T), x \in T :
    c[p] = NoNode => pos[x] < From(pos, lo, p) \/ Upto(pos, hi, p) < pos[x]
Filled(c, T, pos, lo, hi) ==
  \A p \in Arms(T) :
    c[p] # NoNode => lo[c[p]] = From(pos, lo, p) /\ hi[c[p]] = Upto(pos, hi, p)
OneArm(c, T) == \A p, q \in Arms(T) : c[p] = c[q] /\ c[p] # NoNode => p = q
Ascending(T, pos) == \A x, y \in T : pos[x] < pos[y] => x.id <= y.id

Trees == [Places -> Students \cup {NoNode}]

Numbered(c, T, pos, lo, hi) ==
  /\ c \in Trees /\ T \subseteq Students
  /\ pos \in Numbers /\ lo \in Numbers /\ hi \in Numbers
  /\ Within(T, pos, lo, hi) /\ Apart(T, pos) /\ Nested(T, pos, lo, hi)
  /\ Closed2(c, T) /\ Vacant(c, T, pos, lo, hi) /\ Filled(c, T, pos, lo, hi) /\ OneArm(c, T)
  /\ Ascending(T, pos)

IsTree(c, T) == \E pos, lo, hi \in Numbers : Numbered(c, T, pos, lo, hi)

(***************************************************************************)
(* What is below a place is what its numbers say.                          *)
(***************************************************************************)
Inside(T, pos, lo, hi, p) == {x \in T : From(pos, lo, p) <= pos[x] /\ pos[x] <= Upto(pos, hi, p)}

LEMMA NumberedTypes ==
  ASSUME NEW c, NEW T, NEW pos, NEW lo, NEW hi, Numbered(c, T, pos, lo, hi)
  PROVE  /\ NoNode \notin Students /\ IsFiniteSet(Students)
         /\ \A x \in Students : x.id \in Int
         /\ \A x \in T : /\ x \in Students /\ x # NoNode /\ x.id \in Int
                         /\ pos[x] \in Int /\ lo[x] \in Int /\ hi[x] \in Int
                         /\ 1 <= lo[x] /\ lo[x] <= pos[x] /\ pos[x] <= hi[x] /\ hi[x] < pos[NoNode]
         /\ lo[NoNode] = 1 /\ pos[NoNode] \in Int /\ hi[NoNode] \in Int /\ pos[NoNode] >= 1
         /\ \A p \in Arms(T) : /\ p \in Places /\ c[p] \in T \cup {NoNode}
                               /\ From(pos, lo, p) \in Int /\ Upto(pos, hi, p) \in Int
                               /\ 1 <= From(pos, lo, p) /\ Upto(pos, hi, p) < pos[NoNode]
                               /\ From(pos, lo, p) <= Upto(pos, hi, p) + 1
         /\ Tree \in Arms(T) /\ Tree[1] = NoNode /\ Tree[2] = "l"
         /\ \A x \in T, d \in Sides : /\ <<x, d>> \in Arms(T)
                                      /\ <<x, d>>[1] = x /\ <<x, d>>[2] = d
<1> USE TreeAssumption
<1>1. NoNode \notin Students /\ IsFiniteSet(Students) /\ \A x \in Students : x.id \in Int
  OBVIOUS
<1>2. \A x \in T : /\ x \in Students /\ x # NoNode /\ x.id \in Int
                   /\ pos[x] \in Int /\ lo[x] \in Int /\ hi[x] \in Int
                   /\ 1 <= lo[x] /\ lo[x] <= pos[x] /\ pos[x] <= hi[x] /\ hi[x] < pos[NoNode]
  BY <1>1 DEF Numbered, Numbers, Named, Within
<1>3. lo[NoNode] = 1 /\ pos[NoNode] \in Int /\ hi[NoNode] \in Int /\ pos[NoNode] >= 1
  BY DEF Numbered, Numbers, Named, Within
<1>4. Tree \in Arms(T) /\ Tree[1] = NoNode /\ Tree[2] = "l"
  BY DEF Tree, Arms
<1>5. \A x \in T, d \in Sides : <<x, d>> \in Arms(T) /\ <<x, d>>[1] = x /\ <<x, d>>[2] = d
  BY DEF Arms
<1>6. ASSUME NEW p \in Arms(T)
      PROVE  /\ p \in Places /\ c[p] \in T \cup {NoNode}
             /\ From(pos, lo, p) \in Int /\ Upto(pos, hi, p) \in Int
             /\ 1 <= From(pos, lo, p) /\ Upto(pos, hi, p) < pos[NoNode]
             /\ From(pos, lo, p) <= Upto(pos, hi, p) + 1
  <2>1. c[p] \in T \cup {NoNode} /\ T \subseteq Students
    BY DEF Numbered, Closed2
  <2>2. CASE p = Tree
    BY <2>1, <2>2, <1>3, <1>4 DEF Places, From, Upto
  <2>3. CASE p \in T \X Sides
    <3>1. PICK x \in T, d \in Sides : p = <<x, d>>
      BY <2>3
    <3> QED BY <3>1, <2>1, <1>2, <1>3 DEF Places, From, Upto, Sides
  <2> QED BY <2>2, <2>3 DEF Arms
<1> QED BY <1>1, <1>2, <1>3, <1>4, <1>5, <1>6

LEMMA ArmCases ==
  ASSUME NEW T, NEW p \in Arms(T)
  PROVE  p = Tree \/ \E x \in T : p = <<x, "l">> \/ p = <<x, "r">>
  BY DEF Arms, Sides

(* What numbers below a node lie in say where its sides do. *)
LEMMA NestedIn ==
  ASSUME NEW c, NEW T, NEW pos, NEW lo, NEW hi, Numbered(c, T, pos, lo, hi),
         NEW x \in T, NEW y \in T, lo[x] <= pos[y], pos[y] <= hi[x]
  PROVE  lo[x] <= lo[y] /\ hi[y] <= hi[x]
<1>1. \A z \in T : pos[z] \in Int /\ lo[z] \in Int /\ hi[z] \in Int
                   /\ lo[z] <= pos[z] /\ pos[z] <= hi[z]
  BY NumberedTypes
<1>2. CASE pos[x] = pos[y]
  BY <1>1, <1>2 DEF Numbered, Apart
<1>3. CASE pos[x] < pos[y]
  <2>1. \/ hi[x] + 1 < lo[y]
        \/ pos[x] < lo[y] /\ hi[y] <= hi[x]
        \/ hi[x] < pos[y] /\ lo[y] <= lo[x]
    BY <1>3 DEF Numbered, Nested
  <2> QED BY <1>1, <2>1
<1>4. CASE pos[y] < pos[x]
  <2>1. \/ hi[y] + 1 < lo[x]
        \/ pos[y] < lo[x] /\ hi[x] <= hi[y]
        \/ hi[y] < pos[x] /\ lo[x] <= lo[y]
    BY <1>4 DEF Numbered, Nested
  <2> QED BY <1>1, <2>1
<1> QED BY <1>1, <1>2, <1>3, <1>4

(* A side that has numbers of nodes has a node, and what is below it.      *)
LEMMA Descend ==
  ASSUME NEW c, NEW T, NEW pos, NEW lo, NEW hi, Numbered(c, T, pos, lo, hi),
         NEW p \in Arms(T), NEW y \in Inside(T, pos, lo, hi, p)
  PROVE  c[p] \in T /\ lo[c[p]] = From(pos, lo, p) /\ hi[c[p]] = Upto(pos, hi, p)
<1>1. c[p] # NoNode
  BY NumberedTypes DEF Numbered, Vacant, Inside
<1> QED BY <1>1, NumberedTypes DEF Numbered, Filled

LEMMA BelowIs ==
  ASSUME NEW c, NEW T, NEW pos, NEW lo, NEW hi, Numbered(c, T, pos, lo, hi), NEW p \in Arms(T)
  PROVE  Below(c, p) = Inside(T, pos, lo, hi, p)
<1> DEFINE D == Inside(T, pos, lo, hi, p)
           IsClosed(X) == \A x \in X, d \in Sides : c[<<x, d>>] \in X \cup {NoNode}
<1>0. /\ T \subseteq Students /\ NoNode \notin Students
      /\ \A x \in T : pos[x] \in Int /\ lo[x] \in Int /\ hi[x] \in Int
                      /\ lo[x] <= pos[x] /\ pos[x] <= hi[x]
      /\ From(pos, lo, p) \in Int /\ Upto(pos, hi, p) \in Int /\ c[p] \in T \cup {NoNode}
      /\ \A x \in T, d \in Sides : <<x, d>> \in Arms(T) /\ c[<<x, d>>] \in T \cup {NoNode}
  BY NumberedTypes DEF Numbered
<1>1. Below(c, p) = {m \in Students : c[p] # NoNode /\ \A X \in SUBSET Students :
                                         IsClosed(X) => (c[p] \in X => m \in X)}
  BY DEF Below
<1>2. CASE c[p] = NoNode
  <2>1. Below(c, p) = {}
    BY <1>1, <1>2
  <2>2. D = {}
    BY <1>2, <1>0, Descend
  <2> QED BY <2>1, <2>2
<1>3. CASE c[p] # NoNode
  <2>1. /\ c[p] \in T /\ lo[c[p]] = From(pos, lo, p) /\ hi[c[p]] = Upto(pos, hi, p)
    BY <1>3, <1>0 DEF Numbered, Filled
  <2>2. ASSUME NEW x \in D, NEW d \in Sides PROVE c[<<x, d>>] \in D \cup {NoNode}
    <3>0. x \in T /\ lo[c[p]] <= pos[x] /\ pos[x] <= hi[c[p]]
      BY <2>1 DEF Inside
    <3>1. lo[c[p]] <= lo[x] /\ hi[x] <= hi[c[p]]
      BY <2>1, <3>0, NestedIn
    <3> DEFINE y == c[<<x, d>>]
    <3>2. SUFFICES ASSUME y # NoNode PROVE y \in D
      OBVIOUS
    <3>3. <<x, d>> \in Arms(T) /\ y \in T
      BY <3>0, <3>2, <1>0
    <3>4. lo[y] = From(pos, lo, <<x, d>>) /\ hi[y] = Upto(pos, hi, <<x, d>>)
      BY <3>2, <3>3 DEF Numbered, Filled
    <3>5. (lo[y] = lo[x] /\ hi[y] = pos[x] - 1) \/ (lo[y] = pos[x] + 1 /\ hi[y] = hi[x])
      BY <3>4 DEF Sides, From, Upto
    <3> HIDE DEF y
    <3>6. lo[c[p]] <= pos[y] /\ pos[y] <= hi[c[p]]
      BY <3>5, <3>1, <3>0, <3>3, <2>1, <1>0
    <3> QED BY <3>6, <3>3, <2>1 DEF Inside
  <2>3. D \subseteq Students /\ IsClosed(D) /\ c[p] \in D
    BY <2>1, <2>2, <1>0 DEF Inside
  <2>4. Below(c, p) \subseteq D
    BY <1>1, <2>3
  <2>5. ASSUME NEW x \in D, NEW X \in SUBSET Students, IsClosed(X), c[p] \in X, x \notin X
        PROVE  FALSE
    <3> DEFINE Round == {y \in X \cap T : lo[y] <= pos[x] /\ pos[x] <= hi[y]}
               Sizes == {hi[y] - lo[y] : y \in Round}
    <3>0. x \in T /\ pos[x] \in Int
      BY <1>0 DEF Inside
    <3>1. c[p] \in Round
      BY <2>1, <2>5 DEF Inside
    <3>2. Sizes \in SUBSET Nat /\ Sizes # {}
      BY <3>1, <3>0, <1>0
    <3>3. PICK k \in Sizes : \A j \in Sizes : k <= j
      BY <3>2, LeastNumber
    <3>4. PICK y \in Round : k = hi[y] - lo[y]
      BY <3>3
    <3>5. ASSUME NEW d \in Sides, x \in Inside(T, pos, lo, hi, <<y, d>>)
          PROVE  FALSE
      <4> DEFINE z == c[<<y, d>>]
      <4>1. /\ <<y, d>> \in Arms(T) /\ z \in T
            /\ lo[z] = From(pos, lo, <<y, d>>) /\ hi[z] = Upto(pos, hi, <<y, d>>)
        BY <3>5, <1>0, Descend
      <4>2. z \in X
        BY <2>5, <4>1, <1>0
      <4>3. (lo[z] = lo[y] /\ hi[z] = pos[y] - 1) \/ (lo[z] = pos[y] + 1 /\ hi[z] = hi[y])
        BY <4>1 DEF Sides, From, Upto
      <4>4. lo[z] <= pos[x] /\ pos[x] <= hi[z]
        BY <3>5, <4>1 DEF Inside
      <4>5. z \in Round
        BY <4>1, <4>2, <4>4
      <4> HIDE DEF z
      <4>6. hi[z] - lo[z] \in Sizes
        BY <4>5
      <4>7. k <= hi[z] - lo[z]
        BY <3>3, <4>6
      <4> QED BY <4>7, <4>3, <4>1, <3>4, <1>0
    <3>6. CASE pos[x] < pos[y]
      <4>1. x \in Inside(T, pos, lo, hi, <<y, "l">>)
        BY <3>6, <3>4, <3>0, <1>0 DEF Inside, From, Upto
      <4> QED BY <4>1, <3>5 DEF Sides
    <3>7. CASE pos[y] < pos[x]
      <4>1. x \in Inside(T, pos, lo, hi, <<y, "r">>)
        BY <3>7, <3>4, <3>0, <1>0 DEF Inside, From, Upto
      <4> QED BY <4>1, <3>5 DEF Sides
    <3>8. CASE pos[y] = pos[x]
      BY <3>8, <3>4, <3>0, <2>5 DEF Numbered, Apart
    <3> QED BY <3>6, <3>7, <3>8, <3>0, <1>0
  <2>6. D \subseteq Below(c, p)
    BY <1>1, <1>3, <2>3, <2>5
  <2> QED BY <2>4, <2>6
<1> QED BY <1>2, <1>3

(***************************************************************************)
(* Walks.  A walk along links that lead from a node to a child of its own  *)
(* ends.                                                                   *)
(***************************************************************************)
LEMMA AlongLeast ==
  ASSUME NEW link, NEW W \in SUBSET Students, NEW n \in W,
         \A x \in W : link[x] \in W \cup {NoNode}
  PROVE  /\ Along(link, n) \subseteq W /\ n \in Along(link, n)
         /\ \A x \in Along(link, n) : link[x] \in Along(link, n) \cup {NoNode}
<1> DEFINE IsClosed(X) == n \in X /\ \A x \in X : link[x] \in X \cup {NoNode}
<1>1. Along(link, n) = {m \in Students : \A X \in SUBSET Students : IsClosed(X) => m \in X}
  BY DEF Along
<1>2. Along(link, n) \subseteq W
  BY <1>1
<1>3. n \in Along(link, n)
  BY <1>1
<1>4. ASSUME NEW x \in Along(link, n), link[x] # NoNode PROVE link[x] \in Along(link, n)
  <2>1. link[x] \in Students
    BY <1>2, <1>4
  <2>2. \A X \in SUBSET Students : IsClosed(X) => link[x] \in X
    BY <1>1, <1>4
  <2> QED BY <1>1, <2>1, <2>2
<1> QED BY <1>2, <1>3, <1>4

LeadsDown(c, link, W) ==
  \A x \in W : \/ link[x] = NoNode
               \/ link[x] \in W /\ \E d \in Sides : link[x] = c[<<x, d>>]

LEMMA WalkEnds ==
  ASSUME NEW c, NEW T, NEW pos, NEW lo, NEW hi, Numbered(c, T, pos, lo, hi),
         NEW link, NEW W \in SUBSET T, NEW n \in W, LeadsDown(c, link, W)
  PROVE  /\ LastOf(link, n) \in Along(link, n) /\ Along(link, n) \subseteq W
         /\ link[LastOf(link, n)] = NoNode
<1> DEFINE A == Along(link, n)
           Sizes == {hi[y] - lo[y] : y \in A}
<1>0. /\ T \subseteq Students /\ NoNode \notin Students
      /\ \A x \in T : pos[x] \in Int /\ lo[x] \in Int /\ hi[x] \in Int
                      /\ lo[x] <= pos[x] /\ pos[x] <= hi[x]
      /\ \A x \in T, d \in Sides : <<x, d>> \in Arms(T)
  BY NumberedTypes DEF Numbered
<1>1. A \subseteq W /\ n \in A /\ \A x \in A : link[x] \in A \cup {NoNode}
  BY <1>0, AlongLeast DEF LeadsDown
<1> HIDE DEF A
<1>2. Sizes \in SUBSET Nat /\ Sizes # {}
  BY <1>0, <1>1
<1>3. PICK k \in Sizes : \A j \in Sizes : k <= j
  BY <1>2, LeastNumber
<1>4. PICK y \in A : k = hi[y] - lo[y]
  BY <1>3
<1>5. link[y] = NoNode
  <2> SUFFICES ASSUME link[y] # NoNode PROVE FALSE
    OBVIOUS
  <2>1. PICK d \in Sides : link[y] = c[<<y, d>>]
    BY <1>1, <1>4 DEF LeadsDown
  <2> DEFINE z == link[y]
  <2>2. z \in A /\ z \in T /\ y \in T
    BY <1>1, <1>4
  <2>3. z # NoNode
    BY <2>2, <1>0
  <2>4. lo[z] = From(pos, lo, <<y, d>>) /\ hi[z] = Upto(pos, hi, <<y, d>>)
    BY <2>1, <2>2, <2>3, <1>0 DEF Numbered, Filled
  <2>5. (lo[z] = lo[y] /\ hi[z] = pos[y] - 1) \/ (lo[z] = pos[y] + 1 /\ hi[z] = hi[y])
    BY <2>4 DEF Sides, From, Upto
  <2> HIDE DEF z
  <2>6. k <= hi[z] - lo[z]
    BY <1>3, <2>2
  <2> QED BY <2>6, <2>5, <2>2, <1>4, <1>0
<1>6. LastOf(link, n) \in A /\ link[LastOf(link, n)] = NoNode
  BY <1>4, <1>5 DEF LastOf, A
<1> QED BY <1>1, <1>6 DEF A

(* Two trees with the same links at the nodes from n downwards. *)
LEMMA FindMin ==
  ASSUME NEW c, NEW T, NEW pos, NEW lo, NEW hi, Numbered(c, T, pos, lo, hi),
         NEW u, NEW n \in T,
         \A x \in T : lo[n] <= pos[x] /\ pos[x] <= hi[n] => u[<<x, "l">>] = c[<<x, "l">>]
  PROVE  LET m == find_min(u, n)
         IN /\ m \in T /\ lo[m] = lo[n] /\ lo[n] <= pos[m] /\ pos[m] <= hi[n]
            /\ c[<<m, "l">>] = NoNode
<1> DEFINE link == [x \in Students |-> u[<<x, "l">>]]
           W == {x \in T : lo[x] = lo[n] /\ pos[x] <= hi[n]}
<1>0. /\ T \subseteq Students /\ NoNode \notin Students
      /\ \A x \in T : pos[x] \in Int /\ lo[x] \in Int /\ hi[x] \in Int
                      /\ lo[x] <= pos[x] /\ pos[x] <= hi[x]
                      /\ <<x, "l">> \in Arms(T) /\ c[<<x, "l">>] \in T \cup {NoNode}
  <2>1. T \subseteq Students /\ NoNode \notin Students
    BY NumberedTypes DEF Numbered
  <2>2. \A x \in T : pos[x] \in Int /\ lo[x] \in Int /\ hi[x] \in Int /\ lo[x] <= pos[x] /\ pos[x] <= hi[x]
    BY NumberedTypes
  <2>3. "l" \in Sides
    BY DEF Sides
  <2>4. \A x \in T : <<x, "l">> \in Arms(T)
    BY <2>3, NumberedTypes
  <2>5. \A q \in Arms(T) : c[q] \in T \cup {NoNode}
    BY NumberedTypes
  <2> QED BY <2>1, <2>2, <2>4, <2>5
<1>1. n \in W /\ W \in SUBSET T
  BY <1>0
<1>2. ASSUME NEW x \in W
      PROVE  \/ link[x] = NoNode
             \/ link[x] \in W /\ \E d \in Sides : link[x] = c[<<x, d>>]
  <2>1. link[x] = c[<<x, "l">>]
    BY <1>0, <1>2
  <2> SUFFICES ASSUME c[<<x, "l">>] # NoNode PROVE c[<<x, "l">>] \in W
    BY <2>1 DEF Sides
  <2> DEFINE z == c[<<x, "l">>]
  <2>2. x \in T /\ <<x, "l">> \in Arms(T) /\ z \in T /\ z # NoNode
    BY <1>0, <1>2
  <2>3. lo[z] = From(pos, lo, <<x, "l">>) /\ hi[z] = Upto(pos, hi, <<x, "l">>)
    BY <2>2 DEF Numbered, Filled
  <2>4. lo[z] = lo[x] /\ hi[z] = pos[x] - 1
    BY <2>3 DEF From, Upto
  <2> HIDE DEF z
  <2>5. z \in W
    <3>1. pos[z] \in Int /\ hi[z] \in Int /\ lo[z] <= pos[z] /\ pos[z] <= hi[z]
      BY <2>2, <1>0
    <3>2. pos[x] \in Int /\ lo[x] \in Int /\ lo[x] <= pos[x] /\ pos[x] <= hi[x] /\ hi[n] \in Int /\ lo[n] \in Int
      BY <2>2, <1>0
    <3>3. lo[x] = lo[n] /\ pos[x] <= hi[n]
      BY <1>2
    <3>4. lo[z] = lo[n] /\ pos[z] <= hi[n]
      BY <3>1, <3>2, <3>3, <2>4
    <3> QED BY <3>4, <2>2
  <2> QED BY <2>5, <2>1 DEF z, Sides
<1> HIDE DEF W, link
<1>3. LastOf(link, n) \in W /\ link[LastOf(link, n)] = NoNode
  <2>1. LeadsDown(c, link, W)
    BY <1>2 DEF LeadsDown
  <2>2. /\ LastOf(link, n) \in Along(link, n) /\ Along(link, n) \subseteq W
        /\ link[LastOf(link, n)] = NoNode
    BY <1>1, <2>1, WalkEnds
  <2> QED BY <2>2
<1> DEFINE m == find_min(u, n)
<1>4. m \in W /\ link[m] = NoNode
  BY <1>3 DEF find_min, link
<1> HIDE DEF m
<1>5. m \in T /\ lo[m] = lo[n] /\ pos[m] <= hi[n]
  BY <1>4 DEF W
<1>6. c[<<m, "l">>] = NoNode
  BY <1>0, <1>4, <1>5 DEF link
<1> QED BY <1>5, <1>6, <1>0 DEF m

LEMMA FindMax ==
  ASSUME NEW c, NEW T, NEW pos, NEW lo, NEW hi, Numbered(c, T, pos, lo, hi),
         NEW u, NEW n \in T,
         \A x \in T : lo[n] <= pos[x] /\ pos[x] <= hi[n] => u[<<x, "r">>] = c[<<x, "r">>]
  PROVE  LET m == find_max(u, n)
         IN /\ m \in T /\ hi[m] = hi[n] /\ lo[n] <= pos[m] /\ pos[m] <= hi[n]
            /\ c[<<m, "r">>] = NoNode
<1> DEFINE link == [x \in Students |-> u[<<x, "r">>]]
           W == {x \in T : hi[x] = hi[n] /\ lo[n] <= pos[x]}
<1>0. /\ T \subseteq Students /\ NoNode \notin Students
      /\ \A x \in T : pos[x] \in Int /\ lo[x] \in Int /\ hi[x] \in Int
                      /\ lo[x] <= pos[x] /\ pos[x] <= hi[x]
                      /\ <<x, "r">> \in Arms(T) /\ c[<<x, "r">>] \in T \cup {NoNode}
  <2>1. T \subseteq Students /\ NoNode \notin Students
    BY NumberedTypes DEF Numbered
  <2>2. \A x \in T : pos[x] \in Int /\ lo[x] \in Int /\ hi[x] \in Int /\ lo[x] <= pos[x] /\ pos[x] <= hi[x]
    BY NumberedTypes
  <2>3. "r" \in Sides
    BY DEF Sides
  <2>4. \A x \in T : <<x, "r">> \in Arms(T)
    BY <2>3, NumberedTypes
  <2>5. \A q \in Arms(T) : c[q] \in T \cup {NoNode}
    BY NumberedTypes
  <2> QED BY <2>1, <2>2, <2>4, <2>5
<1>1. n \in W /\ W \in SUBSET T
  BY <1>0
<1>2. ASSUME NEW x \in W
      PROVE  \/ link[x] = NoNode
             \/ link[x] \in W /\ \E d \in Sides : link[x] = c[<<x, d>>]
  <2>1. link[x] = c[<<x, "r">>]
    BY <1>0, <1>2
  <2> SUFFICES ASSUME c[<<x, "r">>] # NoNode PROVE c[<<x, "r">>] \in W
    BY <2>1 DEF Sides
  <2> DEFINE z == c[<<x, "r">>]
  <2>2. x \in T /\ <<x, "r">> \in Arms(T) /\ z \in T /\ z # NoNode
    BY <1>0, <1>2
  <2>3. lo[z] = From(pos, lo, <<x, "r">>) /\ hi[z] = Upto(pos, hi, <<x, "r">>)
    BY <2>2 DEF Numbered, Filled
  <2>4. lo[z] = pos[x] + 1 /\ hi[z] = hi[x]
    BY <2>3 DEF From, Upto
  <2> HIDE DEF z
  <2>5. z \in W
    <3>1. pos[z] \in Int /\ hi[z] \in Int /\ lo[z] <= pos[z] /\ pos[z] <= hi[z]
      BY <2>2, <1>0
    <3>2. pos[x] \in Int /\ lo[x] \in Int /\ lo[x] <= pos[x] /\ pos[x] <= hi[x] /\ hi[n] \in Int /\ lo[n] \in Int
      BY <2>2, <1>0
    <3>3. hi[x] = hi[n] /\ lo[n] <= pos[x]
      BY <1>2
    <3>4. hi[z] = hi[n] /\ lo[n] <= pos[z]
      BY <3>1, <3>2, <3>3, <2>4
    <3> QED BY <3>4, <2>2
  <2> QED BY <2>5, <2>1 DEF z, Sides
<1> HIDE DEF W, link
<1>3. LastOf(link, n) \in W /\ link[LastOf(link, n)] = NoNode
  <2>1. LeadsDown(c, link, W)
    BY <1>2 DEF LeadsDown
  <2>2. /\ LastOf(link, n) \in Along(link, n) /\ Along(link, n) \subseteq W
        /\ link[LastOf(link, n)] = NoNode
    BY <1>1, <2>1, WalkEnds
  <2> QED BY <2>2
<1> DEFINE m == find_max(u, n)
<1>4. m \in W /\ link[m] = NoNode
  BY <1>3 DEF find_max, link
<1> HIDE DEF m
<1>5. m \in T /\ hi[m] = hi[n] /\ lo[n] <= pos[m]
  BY <1>4 DEF W
<1>6. c[<<m, "r">>] = NoNode
  BY <1>0, <1>4, <1>5 DEF link
<1> QED BY <1>5, <1>6, <1>0 DEF m

(***************************************************************************)
(* Turning left: the node n in p goes below the leftmost node m of its     *)
(* right side r, which comes into p.  The numbers of nodes stay.           *)
(***************************************************************************)
LEMMA TurnedLeft ==
  ASSUME NEW c, NEW T, NEW pos, NEW lo, NEW hi, Numbered(c, T, pos, lo, hi),
         NEW p \in Arms(T), NEW n \in T, c[p] = n,
         NEW r \in T, c[<<n, "r">>] = r,
         NEW m \in T, lo[m] = lo[r], pos[m] <= hi[r], c[<<m, "l">>] = NoNode,
         NEW lo2, lo2 = [x \in Named |-> IF x \in T /\ lo[x] = pos[n] + 1 THEN lo[n] ELSE lo[x]],
         NEW hi2, hi2 = [hi EXCEPT ![n] = pos[m] - 1],
         NEW c2, c2 = [[c EXCEPT ![p] = r, ![<<n, "r">>] = NoNode] EXCEPT ![<<m, "l">>] = n]
  PROVE  Numbered(c2, T, pos, lo2, hi2)
<1>1. /\ T \subseteq Students /\ NoNode \notin T /\ NoNode \in Named /\ Tree \in Arms(T)
      /\ \A x \in T : /\ x \in Named /\ x # NoNode
                      /\ pos[x] \in Int /\ lo[x] \in Int /\ hi[x] \in Int
                      /\ 1 <= lo[x] /\ lo[x] <= pos[x] /\ pos[x] <= hi[x] /\ hi[x] < pos[NoNode]
      /\ lo[NoNode] = 1 /\ pos[NoNode] \in Int /\ hi[NoNode] \in Int /\ pos[NoNode] >= 1
      /\ \A q \in Arms(T) : q \in Places /\ c[q] \in T \cup {NoNode}
      /\ \A x \in T : <<x, "l">> \in Arms(T) /\ <<x, "r">> \in Arms(T)
      /\ c \in Trees /\ pos \in Numbers /\ lo \in Numbers /\ hi \in Numbers
  BY NumberedTypes DEF Numbered, Named, Sides
<1>2. /\ lo[n] = From(pos, lo, p) /\ hi[n] = Upto(pos, hi, p)
      /\ lo[r] = pos[n] + 1 /\ hi[r] = hi[n]
  <2>1. lo[n] = From(pos, lo, p) /\ hi[n] = Upto(pos, hi, p)
    BY <1>1 DEF Numbered, Filled
  <2>2. lo[r] = From(pos, lo, <<n, "r">>) /\ hi[r] = Upto(pos, hi, <<n, "r">>)
    BY <1>1 DEF Numbered, Filled
  <2> QED BY <2>1, <2>2 DEF From, Upto
<1>3. p # <<n, "r">> /\ p # <<m, "l">> /\ p # <<n, "l">>
  BY <1>1, <1>2 DEF From, Upto
<1>4. \A q \in Arms(T) : c2[q] = IF q = <<m, "l">> THEN n
                                 ELSE IF q = <<n, "r">> THEN NoNode
                                 ELSE IF q = p THEN r ELSE c[q]
  BY <1>1, <1>3 DEF Trees
<1>5. /\ \A x \in T : /\ lo2[x] = IF lo[x] = pos[n] + 1 THEN lo[n] ELSE lo[x]
                      /\ hi2[x] = IF x = n THEN pos[m] - 1 ELSE hi[x]
      /\ lo2[NoNode] = 1
      /\ lo2 \in Numbers /\ hi2 \in Numbers
  <2>1. lo2 \in Numbers /\ hi2 \in Numbers
    BY <1>1 DEF Numbers, Named
  <2>2. \A x \in T : /\ lo2[x] = IF lo[x] = pos[n] + 1 THEN lo[n] ELSE lo[x]
                     /\ hi2[x] = IF x = n THEN pos[m] - 1 ELSE hi[x]
    BY <1>1 DEF Numbers
  <2> QED BY <2>1, <2>2, <1>1
<1>6. c2 \in Trees
  <2>1. c \in Trees /\ n \in Students /\ r \in Students
    BY <1>1
  <2> QED BY <2>1 DEF Trees
<1> HIDE DEF Numbered
<1>7. \A q \in Arms(T) : q # p => c[q] # n
  BY <1>1 DEF Numbered, OneArm
<1>8. \A q \in Arms(T) : q # <<n, "r">> => c[q] # r
  BY <1>1 DEF Numbered, OneArm
<1>9. \A x, y \in T : pos[x] = pos[y] => x = y
  BY DEF Numbered, Apart
<1>10. \A x \in T : pos[x] < lo[m] \/ pos[m] - 1 < pos[x]
  BY <1>1 DEF Numbered, Vacant, From, Upto
<1>11. Within(T, pos, lo2, hi2)
  <2> SUFFICES ASSUME NEW x \in T
               PROVE  1 <= lo2[x] /\ lo2[x] <= pos[x] /\ pos[x] <= hi2[x] /\ hi2[x] < pos[NoNode]
    BY <1>1, <1>5 DEF Within
  <2> QED BY <1>1, <1>2, <1>5
<1>12. Nested(T, pos, lo2, hi2)
  <2> SUFFICES ASSUME NEW x \in T, NEW y \in T, pos[x] < pos[y]
               PROVE  \/ hi2[x] + 1 < lo2[y]
                      \/ pos[x] < lo2[y] /\ hi2[y] <= hi2[x]
                      \/ hi2[x] < pos[y] /\ lo2[y] <= lo2[x]
    BY DEF Nested
  <2>1. \A u, v \in T : pos[u] < pos[v] =>
           \/ hi[u] + 1 < lo[v]
           \/ pos[u] < lo[v] /\ hi[v] <= hi[u]
           \/ hi[u] < pos[v] /\ lo[v] <= lo[u]
    BY DEF Numbered, Nested
  <2> DEFINE Rel(u, v) == \/ hi[u] + 1 < lo[v]
                          \/ pos[u] < lo[v] /\ hi[v] <= hi[u]
                          \/ hi[u] < pos[v] /\ lo[v] <= lo[u]
  <2>2. Rel(x, y)
    BY <2>1
  <2>3. /\ pos[n] < pos[y] => Rel(n, y)
        /\ pos[x] < pos[n] => Rel(x, n)
        /\ pos[n] < pos[x] => Rel(n, x)
        /\ pos[y] < pos[n] => Rel(y, n)
        /\ pos[m] < pos[y] => Rel(m, y)
        /\ pos[m] < pos[x] => Rel(m, x)
    BY <2>1
  <2>4. /\ pos[n] = pos[x] => x = n
        /\ pos[n] = pos[y] => y = n
        /\ pos[m] = pos[x] => x = m
        /\ pos[m] = pos[y] => y = m
    BY <1>9
  <2>5. CASE y = n
    BY <2>2, <2>5, <1>1, <1>2, <1>5
  <2>6. CASE x = n
    BY <2>2, <2>3, <2>4, <2>6, <1>1, <1>2, <1>5, <1>10
  <2>7. CASE x # n /\ y # n
    BY <2>2, <2>3, <2>4, <2>7, <1>1, <1>2, <1>5
  <2> QED BY <2>5, <2>6, <2>7
<1>13. Closed2(c2, T)
  BY <1>1, <1>4 DEF Closed2
<1>14. ASSUME NEW q \in Arms(T), c2[q] # NoNode
       PROVE  lo2[c2[q]] = From(pos, lo2, q) /\ hi2[c2[q]] = Upto(pos, hi2, q)
  <2>1. CASE q = p
    <3>1. c2[q] = r
      BY <2>1, <1>3, <1>4
    <3>2. lo2[r] = lo[n] /\ hi2[r] = hi[n]
      BY <1>1, <1>2, <1>5
    <3>3. CASE p = Tree
      BY <3>1, <3>2, <3>3, <2>1, <1>1, <1>2, <1>5 DEF From, Upto, Tree
    <3>4. ASSUME NEW x \in T, p = <<x, "l">> PROVE From(pos, lo2, q) = lo[n] /\ Upto(pos, hi2, q) = hi[n]
      BY <3>4, <2>1, <1>1, <1>2, <1>5 DEF From, Upto
    <3>5. ASSUME NEW x \in T, p = <<x, "r">> PROVE From(pos, lo2, q) = lo[n] /\ Upto(pos, hi2, q) = hi[n]
      BY <3>5, <2>1, <1>1, <1>2, <1>3, <1>5 DEF From, Upto
    <3> QED BY <3>1, <3>2, <3>3, <3>4, <3>5, ArmCases
  <2>2. CASE q = <<m, "l">>
    <3>1. c2[q] = n
      BY <2>2, <1>4
    <3> QED BY <3>1, <2>2, <1>1, <1>2, <1>5 DEF From, Upto
  <2>3. CASE q # p /\ q # <<m, "l">>
    <3>1. c2[q] = c[q] /\ c[q] # NoNode /\ q # <<n, "r">> /\ c[q] \in T
      BY <2>3, <1>1, <1>4, <1>14
    <3> DEFINE z == c[q]
    <3>2. z # n /\ z \in T
      BY <3>1, <2>3, <1>7
    <3>3. lo[z] = From(pos, lo, q) /\ hi[z] = Upto(pos, hi, q)
      BY <3>1 DEF Numbered, Filled
    <3> HIDE DEF z
    <3>4. ASSUME q = Tree PROVE lo2[z] = From(pos, lo2, q) /\ hi2[z] = Upto(pos, hi2, q)
      <4>1. /\ From(pos, lo, q) = lo[NoNode] /\ Upto(pos, hi, q) = pos[NoNode] - 1
            /\ From(pos, lo2, q) = lo2[NoNode] /\ Upto(pos, hi2, q) = pos[NoNode] - 1
        BY <3>4 DEF From, Upto, Tree
      <4> QED BY <4>1, <3>2, <3>3, <1>1, <1>5
    <3>5. ASSUME NEW x \in T, q = <<x, "l">>
          PROVE  lo2[z] = From(pos, lo2, q) /\ hi2[z] = Upto(pos, hi2, q)
      BY <3>2, <3>3, <3>5, <1>1, <1>5 DEF From, Upto
    <3>6. ASSUME NEW x \in T, q = <<x, "r">>
          PROVE  lo2[z] = From(pos, lo2, q) /\ hi2[z] = Upto(pos, hi2, q)
      <4>1. x # n /\ pos[x] # pos[n]
        BY <3>1, <3>6, <1>9
      <4> QED BY <4>1, <3>2, <3>3, <3>6, <1>1, <1>5 DEF From, Upto
    <3>7. q = Tree \/ \E x \in T : q = <<x, "l">> \/ q = <<x, "r">>
      BY ArmCases
    <3>8. lo2[z] = From(pos, lo2, q) /\ hi2[z] = Upto(pos, hi2, q)
      BY <3>4, <3>5, <3>6, <3>7
    <3> QED BY <3>1, <3>8 DEF z
  <2> QED BY <2>1, <2>2, <2>3
<1>15. ASSUME NEW q \in Arms(T), NEW x \in T, c2[q] = NoNode
       PROVE  pos[x] < From(pos, lo2, q) \/ Upto(pos, hi2, q) < pos[x]
  <2>1. CASE q = <<n, "r">>
    BY <2>1, <1>1, <1>2, <1>5, <1>10 DEF From, Upto
  <2>2. CASE q # <<n, "r">>
    <3>1. c[q] = NoNode /\ q # p /\ q # <<m, "l">>
      BY <2>2, <1>1, <1>4, <1>15
    <3>2. \A y \in T : pos[y] < From(pos, lo, q) \/ Upto(pos, hi, q) < pos[y]
      BY <3>1 DEF Numbered, Vacant
    <3>3. CASE q = Tree
      BY <3>2, <3>3, <1>1, <1>5 DEF From, Upto, Tree
    <3>4. ASSUME NEW y \in T, q = <<y, "l">>
          PROVE  pos[x] < From(pos, lo2, q) \/ Upto(pos, hi2, q) < pos[x]
      <4>1. y # m /\ pos[y] # pos[m]
        BY <3>1, <3>4, <1>9
      <4>2. \A z \in T : pos[z] < lo[y] \/ pos[y] - 1 < pos[z]
        BY <3>2, <3>4 DEF From, Upto
      <4>3. lo[y] # pos[n] + 1
        <5>1. pos[m] < lo[y] \/ pos[y] - 1 < pos[m]
          BY <4>2
        <5>2. pos[y] < lo[m] \/ pos[m] - 1 < pos[y]
          BY <1>10
        <5> QED BY <5>1, <5>2, <4>1, <1>1, <1>2
      <4>4. lo2[y] = lo[y]
        BY <4>3, <1>5
      <4> QED BY <4>2, <4>4, <3>4 DEF From, Upto
    <3>5. ASSUME NEW y \in T, q = <<y, "r">>
          PROVE  pos[x] < From(pos, lo2, q) \/ Upto(pos, hi2, q) < pos[x]
      BY <3>2, <3>5, <2>2, <1>5 DEF From, Upto
    <3> QED BY <3>3, <3>4, <3>5, ArmCases
  <2> QED BY <2>1, <2>2
<1>16. OneArm(c2, T)
  <2> SUFFICES ASSUME NEW q \in Arms(T), NEW s \in Arms(T), c2[q] = c2[s], c2[q] # NoNode
               PROVE  q = s
    BY DEF OneArm
  <2>1. c[q] = c[s] /\ c[q] # NoNode => q = s
    BY DEF Numbered, OneArm
  <2>2. n # r
    BY <1>1, <1>2
  <2>3. /\ q # p => c[q] # n
        /\ s # p => c[s] # n
    BY <1>7
  <2>4. /\ q # <<n, "r">> => c[q] # r
        /\ s # <<n, "r">> => c[s] # r
    BY <1>8
  <2>5. /\ c2[q] = IF q = <<m, "l">> THEN n ELSE IF q = <<n, "r">> THEN NoNode ELSE IF q = p THEN r ELSE c[q]
        /\ c2[s] = IF s = <<m, "l">> THEN n ELSE IF s = <<n, "r">> THEN NoNode ELSE IF s = p THEN r ELSE c[s]
    BY <1>4
  <2>6. CASE q = <<m, "l">>
    BY <2>2, <2>3, <2>5, <2>6, <1>3
  <2>7. CASE q = p
    BY <2>2, <2>4, <2>5, <2>7, <1>3
  <2>8. CASE q # <<m, "l">> /\ q # p
    BY <2>1, <2>2, <2>3, <2>4, <2>5, <2>8, <1>3
  <2> QED BY <2>6, <2>7, <2>8
<1> QED
  BY <1>1, <1>5, <1>6, <1>11, <1>12, <1>13, <1>14, <1>15, <1>16 DEF Numbered, Filled, Vacant

(***************************************************************************)
(* Turning right: n goes below the rightmost node m of its left side r,    *)
(* which comes into p.                                                     *)
(***************************************************************************)
LEMMA TurnedRight ==
  ASSUME NEW c, NEW T, NEW pos, NEW lo, NEW hi, Numbered(c, T, pos, lo, hi),
         NEW p \in Arms(T), NEW n \in T, c[p] = n,
         NEW r \in T, c[<<n, "l">>] = r,
         NEW m \in T, hi[m] = hi[r], lo[r] <= pos[m], c[<<m, "r">>] = NoNode,
         NEW lo2, lo2 = [lo EXCEPT ![n] = pos[m] + 1],
         NEW hi2, hi2 = [x \in Named |-> IF x \in T /\ hi[x] = pos[n] - 1 THEN hi[n] ELSE hi[x]],
         NEW c2, c2 = [[c EXCEPT ![p] = r, ![<<n, "l">>] = NoNode] EXCEPT ![<<m, "r">>] = n]
  PROVE  Numbered(c2, T, pos, lo2, hi2)
<1>1. /\ T \subseteq Students /\ NoNode \notin T /\ NoNode \in Named /\ Tree \in Arms(T)
      /\ \A x \in T : /\ x \in Named /\ x # NoNode
                      /\ pos[x] \in Int /\ lo[x] \in Int /\ hi[x] \in Int
                      /\ 1 <= lo[x] /\ lo[x] <= pos[x] /\ pos[x] <= hi[x] /\ hi[x] < pos[NoNode]
      /\ lo[NoNode] = 1 /\ pos[NoNode] \in Int /\ hi[NoNode] \in Int /\ pos[NoNode] >= 1
      /\ \A q \in Arms(T) : q \in Places /\ c[q] \in T \cup {NoNode}
      /\ \A x \in T : <<x, "l">> \in Arms(T) /\ <<x, "r">> \in Arms(T)
      /\ c \in Trees /\ pos \in Numbers /\ lo \in Numbers /\ hi \in Numbers
  BY NumberedTypes DEF Numbered, Named, Sides
<1>2. /\ lo[n] = From(pos, lo, p) /\ hi[n] = Upto(pos, hi, p)
      /\ lo[r] = lo[n] /\ hi[r] = pos[n] - 1
  <2>1. lo[n] = From(pos, lo, p) /\ hi[n] = Upto(pos, hi, p)
    BY <1>1 DEF Numbered, Filled
  <2>2. lo[r] = From(pos, lo, <<n, "l">>) /\ hi[r] = Upto(pos, hi, <<n, "l">>)
    BY <1>1 DEF Numbered, Filled
  <2> QED BY <2>1, <2>2 DEF From, Upto
<1>3. p # <<n, "l">> /\ p # <<m, "r">> /\ p # <<n, "r">>
  BY <1>1, <1>2 DEF From, Upto
<1>4. \A q \in Arms(T) : c2[q] = IF q = <<m, "r">> THEN n
                                 ELSE IF q = <<n, "l">> THEN NoNode
                                 ELSE IF q = p THEN r ELSE c[q]
  BY <1>1, <1>3 DEF Trees
<1>5. /\ \A x \in T : /\ lo2[x] = IF x = n THEN pos[m] + 1 ELSE lo[x]
                      /\ hi2[x] = IF hi[x] = pos[n] - 1 THEN hi[n] ELSE hi[x]
      /\ lo2[NoNode] = 1
      /\ lo2 \in Numbers /\ hi2 \in Numbers
  <2>1. lo2 \in Numbers /\ hi2 \in Numbers
    BY <1>1 DEF Numbers, Named
  <2>2. \A x \in T : /\ lo2[x] = IF x = n THEN pos[m] + 1 ELSE lo[x]
                     /\ hi2[x] = IF hi[x] = pos[n] - 1 THEN hi[n] ELSE hi[x]
    BY <1>1 DEF Numbers
  <2>3. lo2[NoNode] = 1
    BY <1>1 DEF Numbers
  <2> QED BY <2>1, <2>2, <2>3
<1>6. c2 \in Trees
  <2>1. c \in Trees /\ n \in Students /\ r \in Students
    BY <1>1
  <2> QED BY <2>1 DEF Trees
<1> HIDE DEF Numbered
<1>7. \A q \in Arms(T) : q # p => c[q] # n
  BY <1>1 DEF Numbered, OneArm
<1>8. \A q \in Arms(T) : q # <<n, "l">> => c[q] # r
  BY <1>1 DEF Numbered, OneArm
<1>9. \A x, y \in T : pos[x] = pos[y] => x = y
  BY DEF Numbered, Apart
<1>10. \A x \in T : pos[x] < pos[m] + 1 \/ hi[m] < pos[x]
  BY <1>1 DEF Numbered, Vacant, From, Upto
<1>11. Within(T, pos, lo2, hi2)
  <2> SUFFICES ASSUME NEW x \in T
               PROVE  1 <= lo2[x] /\ lo2[x] <= pos[x] /\ pos[x] <= hi2[x] /\ hi2[x] < pos[NoNode]
    BY <1>1, <1>5 DEF Within
  <2> QED BY <1>1, <1>2, <1>5
<1>12. Nested(T, pos, lo2, hi2)
  <2> SUFFICES ASSUME NEW x \in T, NEW y \in T, pos[x] < pos[y]
               PROVE  \/ hi2[x] + 1 < lo2[y]
                      \/ pos[x] < lo2[y] /\ hi2[y] <= hi2[x]
                      \/ hi2[x] < pos[y] /\ lo2[y] <= lo2[x]
    BY DEF Nested
  <2>1. \A u, v \in T : pos[u] < pos[v] =>
           \/ hi[u] + 1 < lo[v]
           \/ pos[u] < lo[v] /\ hi[v] <= hi[u]
           \/ hi[u] < pos[v] /\ lo[v] <= lo[u]
    BY DEF Numbered, Nested
  <2> DEFINE Rel(u, v) == \/ hi[u] + 1 < lo[v]
                          \/ pos[u] < lo[v] /\ hi[v] <= hi[u]
                          \/ hi[u] < pos[v] /\ lo[v] <= lo[u]
  <2>2. Rel(x, y)
    BY <2>1
  <2>3. /\ pos[n] < pos[y] => Rel(n, y)
        /\ pos[x] < pos[n] => Rel(x, n)
        /\ pos[n] < pos[x] => Rel(n, x)
        /\ pos[y] < pos[n] => Rel(y, n)
        /\ pos[x] < pos[m] => Rel(x, m)
        /\ pos[y] < pos[m] => Rel(y, m)
    BY <2>1
  <2>4. /\ pos[n] = pos[x] => x = n
        /\ pos[n] = pos[y] => y = n
        /\ pos[m] = pos[x] => x = m
        /\ pos[m] = pos[y] => y = m
    BY <1>9
  <2>5. CASE x = n
    BY <2>2, <2>5, <1>1, <1>2, <1>5
  <2>6. CASE y = n
    BY <2>2, <2>3, <2>4, <2>6, <1>1, <1>2, <1>5, <1>10
  <2>7. CASE x # n /\ y # n
    BY <2>2, <2>3, <2>4, <2>7, <1>1, <1>2, <1>5
  <2> QED BY <2>5, <2>6, <2>7
<1>13. Closed2(c2, T)
  BY <1>1, <1>4 DEF Closed2
<1>14. ASSUME NEW q \in Arms(T), c2[q] # NoNode
       PROVE  lo2[c2[q]] = From(pos, lo2, q) /\ hi2[c2[q]] = Upto(pos, hi2, q)
  <2>1. CASE q = p
    <3>1. c2[q] = r
      BY <2>1, <1>3, <1>4
    <3>2. lo2[r] = lo[n] /\ hi2[r] = hi[n]
      BY <1>1, <1>2, <1>5
    <3>3. CASE p = Tree
      BY <3>1, <3>2, <3>3, <2>1, <1>1, <1>2, <1>5 DEF From, Upto, Tree
    <3>4. ASSUME NEW x \in T, p = <<x, "l">> PROVE From(pos, lo2, q) = lo[n] /\ Upto(pos, hi2, q) = hi[n]
      BY <3>4, <2>1, <1>1, <1>2, <1>3, <1>5 DEF From, Upto
    <3>5. ASSUME NEW x \in T, p = <<x, "r">> PROVE From(pos, lo2, q) = lo[n] /\ Upto(pos, hi2, q) = hi[n]
      BY <3>5, <2>1, <1>1, <1>2, <1>3, <1>5 DEF From, Upto
    <3> QED BY <3>1, <3>2, <3>3, <3>4, <3>5, ArmCases
  <2>2. CASE q = <<m, "r">>
    <3>1. c2[q] = n
      BY <2>2, <1>4
    <3> QED BY <3>1, <2>2, <1>1, <1>2, <1>5 DEF From, Upto
  <2>3. CASE q # p /\ q # <<m, "r">>
    <3>1. c2[q] = c[q] /\ c[q] # NoNode /\ q # <<n, "l">> /\ c[q] \in T
      BY <2>3, <1>1, <1>4, <1>14
    <3> DEFINE z == c[q]
    <3>2. z # n /\ z \in T
      BY <3>1, <2>3, <1>7
    <3>3. lo[z] = From(pos, lo, q) /\ hi[z] = Upto(pos, hi, q)
      BY <3>1 DEF Numbered, Filled
    <3> HIDE DEF z
    <3>4. ASSUME q = Tree PROVE lo2[z] = From(pos, lo2, q) /\ hi2[z] = Upto(pos, hi2, q)
      <4>1. /\ From(pos, lo, q) = lo[NoNode] /\ Upto(pos, hi, q) = pos[NoNode] - 1
            /\ From(pos, lo2, q) = lo2[NoNode] /\ Upto(pos, hi2, q) = pos[NoNode] - 1
        BY <3>4 DEF From, Upto, Tree
      <4> QED BY <4>1, <3>2, <3>3, <1>1, <1>5
    <3>5. ASSUME NEW x \in T, q = <<x, "r">>
          PROVE  lo2[z] = From(pos, lo2, q) /\ hi2[z] = Upto(pos, hi2, q)
      BY <3>2, <3>3, <3>5, <1>1, <1>5 DEF From, Upto
    <3>6. ASSUME NEW x \in T, q = <<x, "l">>
          PROVE  lo2[z] = From(pos, lo2, q) /\ hi2[z] = Upto(pos, hi2, q)
      <4>1. x # n /\ pos[x] # pos[n]
        BY <3>1, <3>6, <1>9
      <4> QED BY <4>1, <3>2, <3>3, <3>6, <1>1, <1>5 DEF From, Upto
    <3>7. q = Tree \/ \E x \in T : q = <<x, "l">> \/ q = <<x, "r">>
      BY ArmCases
    <3>8. lo2[z] = From(pos, lo2, q) /\ hi2[z] = Upto(pos, hi2, q)
      BY <3>4, <3>5, <3>6, <3>7
    <3> QED BY <3>1, <3>8 DEF z
  <2> QED BY <2>1, <2>2, <2>3
<1>15. ASSUME NEW q \in Arms(T), NEW x \in T, c2[q] = NoNode
       PROVE  pos[x] < From(pos, lo2, q) \/ Upto(pos, hi2, q) < pos[x]
  <2>1. CASE q = <<n, "l">>
    BY <2>1, <1>1, <1>2, <1>5, <1>10 DEF From, Upto
  <2>2. CASE q # <<n, "l">>
    <3>1. c[q] = NoNode /\ q # p /\ q # <<m, "r">>
      BY <2>2, <1>1, <1>4, <1>15
    <3>2. \A y \in T : pos[y] < From(pos, lo, q) \/ Upto(pos, hi, q) < pos[y]
      BY <3>1 DEF Numbered, Vacant
    <3>3. CASE q = Tree
      BY <3>2, <3>3, <1>1, <1>5 DEF From, Upto, Tree
    <3>4. ASSUME NEW y \in T, q = <<y, "r">>
          PROVE  pos[x] < From(pos, lo2, q) \/ Upto(pos, hi2, q) < pos[x]
      <4>1. y # m /\ pos[y] # pos[m]
        BY <3>1, <3>4, <1>9
      <4>2. \A z \in T : pos[z] < pos[y] + 1 \/ hi[y] < pos[z]
        BY <3>2, <3>4 DEF From, Upto
      <4>3. hi[y] # pos[n] - 1
        <5>1. pos[m] < pos[y] + 1 \/ hi[y] < pos[m]
          BY <4>2
        <5>2. pos[y] < pos[m] + 1 \/ hi[m] < pos[y]
          BY <1>10
        <5> QED BY <5>1, <5>2, <4>1, <1>1, <1>2
      <4>4. hi2[y] = hi[y]
        BY <4>3, <1>5
      <4> QED BY <4>2, <4>4, <3>4 DEF From, Upto
    <3>5. ASSUME NEW y \in T, q = <<y, "l">>
          PROVE  pos[x] < From(pos, lo2, q) \/ Upto(pos, hi2, q) < pos[x]
      BY <3>2, <3>5, <2>2, <1>5 DEF From, Upto
    <3> QED BY <3>3, <3>4, <3>5, ArmCases
  <2> QED BY <2>1, <2>2
<1>16. OneArm(c2, T)
  <2> SUFFICES ASSUME NEW q \in Arms(T), NEW s \in Arms(T), c2[q] = c2[s], c2[q] # NoNode
               PROVE  q = s
    BY DEF OneArm
  <2>1. c[q] = c[s] /\ c[q] # NoNode => q = s
    BY DEF Numbered, OneArm
  <2>2. n # r
    BY <1>1, <1>2
  <2>3. /\ q # p => c[q] # n
        /\ s # p => c[s] # n
    BY <1>7
  <2>4. /\ q # <<n, "l">> => c[q] # r
        /\ s # <<n, "l">> => c[s] # r
    BY <1>8
  <2>5. /\ c2[q] = IF q = <<m, "r">> THEN n ELSE IF q = <<n, "l">> THEN NoNode ELSE IF q = p THEN r ELSE c[q]
        /\ c2[s] = IF s = <<m, "r">> THEN n ELSE IF s = <<n, "l">> THEN NoNode ELSE IF s = p THEN r ELSE c[s]
    BY <1>4
  <2>6. CASE q = <<m, "r">>
    BY <2>2, <2>3, <2>5, <2>6, <1>3
  <2>7. CASE q = p
    BY <2>2, <2>4, <2>5, <2>7, <1>3
  <2>8. CASE q # <<m, "r">> /\ q # p
    BY <2>1, <2>2, <2>3, <2>4, <2>5, <2>8, <1>3
  <2> QED BY <2>6, <2>7, <2>8
<1> QED
  BY <1>1, <1>5, <1>6, <1>11, <1>12, <1>13, <1>14, <1>15, <1>16 DEF Numbered, Filled, Vacant

(***************************************************************************)
(* Deleting the node n in p: its left side r comes into p, and its right   *)
(* side f, if any, below the rightmost node m of the left one.             *)
(***************************************************************************)
LEMMA GraftedBoth ==
  ASSUME NEW c, NEW T, NEW pos, NEW lo, NEW hi, Numbered(c, T, pos, lo, hi),
         NEW p \in Arms(T), NEW n \in T, c[p] = n,
         NEW r \in T, c[<<n, "l">>] = r, NEW f, c[<<n, "r">>] = f,
         NEW m \in T, hi[m] = hi[r], lo[r] <= pos[m], c[<<m, "r">>] = NoNode
  PROVE  IsTree(Cleared([[c EXCEPT ![p] = r] EXCEPT ![<<m, "r">>] = f], n), T \ {n})
<1> DEFINE lo2 == [x \in Named |-> IF x \in T /\ lo[x] = pos[n] + 1 THEN pos[m] + 1 ELSE lo[x]]
           hi2 == [x \in Named |-> IF x \in T /\ hi[x] = pos[n] - 1 THEN hi[n] ELSE hi[x]]
           c2 == Cleared([[c EXCEPT ![p] = r] EXCEPT ![<<m, "r">>] = f], n)
<1>1. /\ T \subseteq Students /\ NoNode \notin T /\ NoNode \in Named /\ Tree \in Arms(T)
      /\ \A x \in T : /\ x \in Named /\ x # NoNode
                      /\ pos[x] \in Int /\ lo[x] \in Int /\ hi[x] \in Int
                      /\ 1 <= lo[x] /\ lo[x] <= pos[x] /\ pos[x] <= hi[x] /\ hi[x] < pos[NoNode]
      /\ lo[NoNode] = 1 /\ pos[NoNode] \in Int /\ hi[NoNode] \in Int /\ pos[NoNode] >= 1
      /\ \A q \in Arms(T) : q \in Places /\ c[q] \in T \cup {NoNode}
      /\ \A x \in T : /\ <<x, "l">> \in Arms(T) /\ <<x, "r">> \in Arms(T)
                      /\ <<x, "l">> \in Places /\ <<x, "r">> \in Places
      /\ c \in Trees /\ pos \in Numbers /\ lo \in Numbers /\ hi \in Numbers
      /\ f # NoNode => f \in T
  BY NumberedTypes DEF Numbered, Named, Sides
<1> DEFINE U == T \ {n}
<1>0. U \subseteq T /\ Arms(U) \subseteq Arms(T) /\ \A q \in Arms(U) : q # <<n, "l">> /\ q # <<n, "r">>
  BY <1>1 DEF Arms, Tree
<1>2. /\ lo[n] = From(pos, lo, p) /\ hi[n] = Upto(pos, hi, p)
      /\ lo[r] = lo[n] /\ hi[r] = pos[n] - 1
      /\ f # NoNode => lo[f] = pos[n] + 1 /\ hi[f] = hi[n]
  <2>1. lo[n] = From(pos, lo, p) /\ hi[n] = Upto(pos, hi, p)
    BY <1>1 DEF Numbered, Filled
  <2>2. lo[r] = From(pos, lo, <<n, "l">>) /\ hi[r] = Upto(pos, hi, <<n, "l">>)
    BY <1>1 DEF Numbered, Filled
  <2>3. f # NoNode => lo[f] = From(pos, lo, <<n, "r">>) /\ hi[f] = Upto(pos, hi, <<n, "r">>)
    BY <1>1 DEF Numbered, Filled
  <2> QED BY <2>1, <2>2, <2>3 DEF From, Upto
<1>3. p # <<n, "l">> /\ p # <<m, "r">> /\ p # <<n, "r">> /\ m # n /\ r # n /\ f # n /\ f # r
  BY <1>1, <1>2 DEF From, Upto
<1>4. \A q \in Arms(U) : c2[q] = IF q = <<m, "r">> THEN f ELSE IF q = p THEN r ELSE c[q]
  BY <1>1, <1>0, <1>3 DEF Trees, Cleared
<1>5. /\ \A x \in T : /\ lo2[x] = IF lo[x] = pos[n] + 1 THEN pos[m] + 1 ELSE lo[x]
                      /\ hi2[x] = IF hi[x] = pos[n] - 1 THEN hi[n] ELSE hi[x]
      /\ lo2[NoNode] = 1
      /\ lo2 \in Numbers /\ hi2 \in Numbers
  <2>1. lo2 \in Numbers /\ hi2 \in Numbers
    BY <1>1 DEF Numbers, Named
  <2>2. \A x \in T : /\ lo2[x] = IF lo[x] = pos[n] + 1 THEN pos[m] + 1 ELSE lo[x]
                     /\ hi2[x] = IF hi[x] = pos[n] - 1 THEN hi[n] ELSE hi[x]
    BY <1>1 DEF Numbers
  <2>3. lo2[NoNode] = 1
    BY <1>1 DEF Numbers
  <2> QED BY <2>1, <2>2, <2>3
<1>6. c2 \in Trees
  BY <1>1 DEF Trees, Cleared
<1> HIDE DEF Numbered
<1> HIDE DEF lo2, hi2, c2
<1>7. \A q \in Arms(T) : q # p => c[q] # n
  BY <1>1 DEF Numbered, OneArm
<1>8. \A q \in Arms(U) : f # NoNode => c[q] # f
  BY <1>1, <1>0 DEF Numbered, OneArm
<1>9. \A x, y \in T : pos[x] = pos[y] => x = y
  BY DEF Numbered, Apart
<1>10. \A x \in T : pos[x] < pos[m] + 1 \/ hi[m] < pos[x]
  BY <1>1 DEF Numbered, Vacant, From, Upto
<1>11. Within(U, pos, lo2, hi2)
  <2> SUFFICES ASSUME NEW x \in U
               PROVE  1 <= lo2[x] /\ lo2[x] <= pos[x] /\ pos[x] <= hi2[x] /\ hi2[x] < pos[NoNode]
    BY <1>1, <1>5 DEF Within
  <2>1. x \in T /\ x # n /\ pos[x] # pos[n]
    BY <1>9
  <2> QED BY <2>1, <1>1, <1>2, <1>5
<1>12. Nested(U, pos, lo2, hi2)
  <2> SUFFICES ASSUME NEW x \in U, NEW y \in U, pos[x] < pos[y]
               PROVE  \/ hi2[x] + 1 < lo2[y]
                      \/ pos[x] < lo2[y] /\ hi2[y] <= hi2[x]
                      \/ hi2[x] < pos[y] /\ lo2[y] <= lo2[x]
    BY DEF Nested
  <2>0. x \in T /\ x # n /\ y \in T /\ y # n
    OBVIOUS
  <2>1. \A u, v \in T : pos[u] < pos[v] =>
           \/ hi[u] + 1 < lo[v]
           \/ pos[u] < lo[v] /\ hi[v] <= hi[u]
           \/ hi[u] < pos[v] /\ lo[v] <= lo[u]
    BY DEF Numbered, Nested
  <2> DEFINE Rel(u, v) == \/ hi[u] + 1 < lo[v]
                          \/ pos[u] < lo[v] /\ hi[v] <= hi[u]
                          \/ hi[u] < pos[v] /\ lo[v] <= lo[u]
  <2>2. Rel(x, y)
    BY <2>0, <2>1
  <2>3. /\ pos[n] < pos[y] => Rel(n, y)
        /\ pos[x] < pos[n] => Rel(x, n)
        /\ pos[n] < pos[x] => Rel(n, x)
        /\ pos[y] < pos[n] => Rel(y, n)
    BY <2>0, <2>1
  <2>4. /\ pos[x] < pos[m] => Rel(x, m)
        /\ pos[y] < pos[m] => Rel(y, m)
    BY <2>0, <2>1
  <2>5. /\ pos[x] # pos[n] /\ pos[y] # pos[n]
        /\ pos[m] = pos[x] => x = m
        /\ pos[m] = pos[y] => y = m
    BY <2>0, <1>9
  <2> HIDE DEF U
  <2>6. CASE pos[y] < pos[n]
    BY <2>0, <2>2, <2>3, <2>4, <2>5, <2>6, <1>1, <1>2, <1>5, <1>10
  <2>7. CASE pos[n] < pos[x]
    BY <2>0, <2>2, <2>3, <2>4, <2>5, <2>7, <1>1, <1>2, <1>5, <1>10
  <2>8. CASE pos[x] < pos[n] /\ pos[n] < pos[y]
    BY <2>0, <2>2, <2>3, <2>4, <2>5, <2>8, <1>1, <1>2, <1>5, <1>10
  <2> QED BY <2>0, <2>5, <2>6, <2>7, <2>8, <1>1
<1>13. Closed2(c2, U)
  BY <1>1, <1>0, <1>3, <1>4, <1>7 DEF Closed2
<1>14. ASSUME NEW q \in Arms(U), c2[q] # NoNode
       PROVE  lo2[c2[q]] = From(pos, lo2, q) /\ hi2[c2[q]] = Upto(pos, hi2, q)
  <2>0. q \in Arms(T) /\ q # <<n, "l">> /\ q # <<n, "r">>
    BY <1>0
  <2>1. CASE q = p
    <3>1. c2[q] = r
      BY <2>1, <1>3, <1>4
    <3>2. lo2[r] = lo[n] /\ hi2[r] = hi[n]
      BY <1>1, <1>2, <1>5
    <3>3. CASE p = Tree
      BY <3>1, <3>2, <3>3, <2>1, <1>1, <1>2, <1>5 DEF From, Upto, Tree
    <3>4. ASSUME NEW x \in T, p = <<x, "l">> PROVE From(pos, lo2, q) = lo[n] /\ Upto(pos, hi2, q) = hi[n]
      BY <3>4, <2>1, <1>1, <1>2, <1>3, <1>5 DEF From, Upto
    <3>5. ASSUME NEW x \in T, p = <<x, "r">> PROVE From(pos, lo2, q) = lo[n] /\ Upto(pos, hi2, q) = hi[n]
      BY <3>5, <2>1, <1>1, <1>2, <1>3, <1>5 DEF From, Upto
    <3> QED BY <3>1, <3>2, <3>3, <3>4, <3>5, ArmCases
  <2>2. CASE q = <<m, "r">>
    <3>1. c2[q] = f /\ f \in T
      BY <2>2, <1>1, <1>4, <1>14
    <3> QED BY <3>1, <2>2, <1>1, <1>2, <1>5, <1>14 DEF From, Upto
  <2>3. CASE q # p /\ q # <<m, "r">>
    <3>1. c2[q] = c[q] /\ c[q] # NoNode /\ c[q] \in T
      BY <2>0, <2>3, <1>1, <1>4, <1>14
    <3> DEFINE z == c[q]
    <3>2. z \in T
      BY <3>1
    <3>3. lo[z] = From(pos, lo, q) /\ hi[z] = Upto(pos, hi, q)
      BY <2>0, <3>1 DEF Numbered, Filled
    <3> HIDE DEF z
    <3>4. ASSUME q = Tree PROVE lo2[z] = From(pos, lo2, q) /\ hi2[z] = Upto(pos, hi2, q)
      <4>1. /\ From(pos, lo, q) = lo[NoNode] /\ Upto(pos, hi, q) = pos[NoNode] - 1
            /\ From(pos, lo2, q) = lo2[NoNode] /\ Upto(pos, hi2, q) = pos[NoNode] - 1
        BY <3>4 DEF From, Upto, Tree
      <4> QED BY <4>1, <3>2, <3>3, <1>1, <1>5
    <3>5. ASSUME NEW x \in T, q = <<x, "r">>
          PROVE  lo2[z] = From(pos, lo2, q) /\ hi2[z] = Upto(pos, hi2, q)
      <4>1. x # n /\ pos[x] # pos[n]
        BY <2>0, <3>5, <1>9
      <4> QED BY <4>1, <3>2, <3>3, <3>5, <1>1, <1>5 DEF From, Upto
    <3>6. ASSUME NEW x \in T, q = <<x, "l">>
          PROVE  lo2[z] = From(pos, lo2, q) /\ hi2[z] = Upto(pos, hi2, q)
      <4>1. x # n /\ pos[x] # pos[n]
        BY <2>0, <3>6, <1>9
      <4> QED BY <4>1, <3>2, <3>3, <3>6, <1>1, <1>5 DEF From, Upto
    <3>7. q = Tree \/ \E x \in T : q = <<x, "l">> \/ q = <<x, "r">>
      BY <2>0, ArmCases
    <3>8. lo2[z] = From(pos, lo2, q) /\ hi2[z] = Upto(pos, hi2, q)
      BY <3>4, <3>5, <3>6, <3>7
    <3> QED BY <3>1, <3>8 DEF z
  <2> QED BY <2>1, <2>2, <2>3
<1>15. ASSUME NEW q \in Arms(U), NEW x \in U, c2[q] = NoNode
       PROVE  pos[x] < From(pos, lo2, q) \/ Upto(pos, hi2, q) < pos[x]
  <2>0. /\ q \in Arms(T) /\ q # <<n, "l">> /\ q # <<n, "r">>
        /\ x \in T /\ x # n /\ pos[x] # pos[n]
    BY <1>0, <1>9
  <2> HIDE DEF U
  <2>1. CASE q = <<m, "r">>
    <3>1. f = NoNode
      BY <2>1, <1>4, <1>15
    <3>2. pos[x] < pos[n] + 1 \/ hi[n] < pos[x]
      BY <3>1, <2>0, <1>1 DEF Numbered, Vacant, From, Upto
    <3>3. From(pos, lo2, q) = pos[m] + 1 /\ Upto(pos, hi2, q) = hi[n]
      BY <2>1, <1>2, <1>5 DEF From, Upto
    <3> QED BY <3>2, <3>3, <2>0, <1>1, <1>2, <1>10
  <2>2. CASE q # <<m, "r">>
    <3>1. c[q] = NoNode /\ q # p
      BY <2>0, <2>2, <1>1, <1>4, <1>15
    <3>2. \A y \in T : pos[y] < From(pos, lo, q) \/ Upto(pos, hi, q) < pos[y]
      BY <2>0, <3>1 DEF Numbered, Vacant
    <3>3. CASE q = Tree
      BY <2>0, <3>2, <3>3, <1>1, <1>5 DEF From, Upto, Tree
    <3>4. ASSUME NEW y \in T, q = <<y, "r">>
          PROVE  pos[x] < From(pos, lo2, q) \/ Upto(pos, hi2, q) < pos[x]
      <4>1. y # m /\ pos[y] # pos[m]
        BY <2>2, <3>4, <1>9
      <4>2. \A z \in T : pos[z] < pos[y] + 1 \/ hi[y] < pos[z]
        BY <3>2, <3>4 DEF From, Upto
      <4>3. hi[y] # pos[n] - 1
        <5>1. pos[m] < pos[y] + 1 \/ hi[y] < pos[m]
          BY <4>2
        <5>2. pos[y] < pos[m] + 1 \/ hi[m] < pos[y]
          BY <1>10
        <5> QED BY <5>1, <5>2, <4>1, <1>1, <1>2
      <4>4. hi2[y] = hi[y]
        BY <4>3, <1>5
      <4> QED BY <2>0, <4>2, <4>4, <3>4 DEF From, Upto
    <3>5. ASSUME NEW y \in T, q = <<y, "l">>
          PROVE  pos[x] < From(pos, lo2, q) \/ Upto(pos, hi2, q) < pos[x]
      <4>1. pos[x] < lo[y] \/ pos[y] - 1 < pos[x]
        BY <2>0, <3>2, <3>5 DEF From, Upto
      <4>2. From(pos, lo2, q) = lo2[y] /\ Upto(pos, hi2, q) = pos[y] - 1
        BY <3>5 DEF From, Upto
      <4> QED BY <4>1, <4>2, <2>0, <1>1, <1>2, <1>5, <1>10
    <3> QED BY <2>0, <3>3, <3>4, <3>5, ArmCases
  <2> QED BY <2>1, <2>2
<1>16. OneArm(c2, U)
  <2> SUFFICES ASSUME NEW q \in Arms(U), NEW s \in Arms(U), c2[q] = c2[s], c2[q] # NoNode
               PROVE  q = s
    BY DEF OneArm
  <2>1. c[q] = c[s] /\ c[q] # NoNode => q = s
    BY <1>0 DEF Numbered, OneArm
  <2>2. c[q] # r /\ c[s] # r
    BY <1>1, <1>0 DEF Numbered, OneArm
  <2>3. f # NoNode => c[q] # f /\ c[s] # f
    BY <1>8
  <2> QED BY <2>1, <2>2, <2>3, <1>3, <1>4
<1>17. Apart(U, pos) /\ Ascending(U, pos)
  BY <1>0 DEF Numbered, Apart, Ascending
<1>18. U \subseteq Students
  BY <1>1
<1>19. Numbered(c2, U, pos, lo2, hi2)
  BY <1>1, <1>5, <1>6, <1>11, <1>12, <1>13, <1>14, <1>15, <1>16, <1>17, <1>18 DEF Numbered, Filled, Vacant
<1> QED BY <1>19, <1>1, <1>5 DEF IsTree, c2

(* The same without a left side: the right one comes into p. *)
LEMMA GraftedOne ==
  ASSUME NEW c, NEW T, NEW pos, NEW lo, NEW hi, Numbered(c, T, pos, lo, hi),
         NEW p \in Arms(T), NEW n \in T, c[p] = n,
         c[<<n, "l">>] = NoNode, NEW f, c[<<n, "r">>] = f
  PROVE  IsTree(Cleared([c EXCEPT ![p] = f], n), T \ {n})
<1> DEFINE lo2 == [x \in Named |-> IF x \in T /\ lo[x] = pos[n] + 1 THEN lo[n] ELSE lo[x]]
           hi2 == hi
           c2 == Cleared([c EXCEPT ![p] = f], n)
<1>1. /\ T \subseteq Students /\ NoNode \notin T /\ NoNode \in Named /\ Tree \in Arms(T)
      /\ \A x \in T : /\ x \in Named /\ x # NoNode
                      /\ pos[x] \in Int /\ lo[x] \in Int /\ hi[x] \in Int
                      /\ 1 <= lo[x] /\ lo[x] <= pos[x] /\ pos[x] <= hi[x] /\ hi[x] < pos[NoNode]
      /\ lo[NoNode] = 1 /\ pos[NoNode] \in Int /\ hi[NoNode] \in Int /\ pos[NoNode] >= 1
      /\ \A q \in Arms(T) : q \in Places /\ c[q] \in T \cup {NoNode}
      /\ \A x \in T : /\ <<x, "l">> \in Arms(T) /\ <<x, "r">> \in Arms(T)
                      /\ <<x, "l">> \in Places /\ <<x, "r">> \in Places
      /\ c \in Trees /\ pos \in Numbers /\ lo \in Numbers /\ hi \in Numbers
      /\ f # NoNode => f \in T
  BY NumberedTypes DEF Numbered, Named, Sides
<1> DEFINE U == T \ {n}
<1>0. U \subseteq T /\ Arms(U) \subseteq Arms(T) /\ \A q \in Arms(U) : q # <<n, "l">> /\ q # <<n, "r">>
  BY <1>1 DEF Arms, Tree
<1>2. /\ lo[n] = From(pos, lo, p) /\ hi[n] = Upto(pos, hi, p)
      /\ f # NoNode => lo[f] = pos[n] + 1 /\ hi[f] = hi[n]
  <2>1. lo[n] = From(pos, lo, p) /\ hi[n] = Upto(pos, hi, p)
    BY <1>1 DEF Numbered, Filled
  <2>3. f # NoNode => lo[f] = From(pos, lo, <<n, "r">>) /\ hi[f] = Upto(pos, hi, <<n, "r">>)
    BY <1>1 DEF Numbered, Filled
  <2> QED BY <2>1, <2>3 DEF From, Upto
<1>3. p # <<n, "l">> /\ p # <<n, "r">> /\ f # n
  BY <1>1, <1>2 DEF From, Upto
<1>4. \A q \in Arms(U) : c2[q] = IF q = p THEN f ELSE c[q]
  BY <1>1, <1>0, <1>3 DEF Trees, Cleared
<1>5. /\ \A x \in T : /\ lo2[x] = IF lo[x] = pos[n] + 1 THEN lo[n] ELSE lo[x]
                      /\ hi2[x] = hi[x]
      /\ lo2[NoNode] = 1
      /\ lo2 \in Numbers /\ hi2 \in Numbers
  <2>1. lo2 \in Numbers /\ hi2 \in Numbers
    BY <1>1 DEF Numbers, Named
  <2>2. \A x \in T : /\ lo2[x] = IF lo[x] = pos[n] + 1 THEN lo[n] ELSE lo[x]
                     /\ hi2[x] = hi[x]
    BY <1>1 DEF Numbers
  <2>3. lo2[NoNode] = 1
    BY <1>1 DEF Numbers
  <2> QED BY <2>1, <2>2, <2>3
<1>6. c2 \in Trees
  <2>1. f \in Students \cup {NoNode}
    BY <1>1
  <2> QED BY <2>1, <1>1 DEF Trees, Cleared
<1> HIDE DEF Numbered
<1> HIDE DEF lo2, hi2, c2
<1>7. \A q \in Arms(T) : q # p => c[q] # n
  BY <1>1 DEF Numbered, OneArm
<1>8. \A q \in Arms(U) : f # NoNode => c[q] # f
  BY <1>1, <1>0 DEF Numbered, OneArm
<1>9. \A x, y \in T : pos[x] = pos[y] => x = y
  BY DEF Numbered, Apart
<1>10. \A x \in T : pos[x] < lo[n] \/ pos[n] - 1 < pos[x]
  BY <1>1 DEF Numbered, Vacant, From, Upto
<1>11. Within(U, pos, lo2, hi2)
  <2> SUFFICES ASSUME NEW x \in U
               PROVE  1 <= lo2[x] /\ lo2[x] <= pos[x] /\ pos[x] <= hi2[x] /\ hi2[x] < pos[NoNode]
    BY <1>1, <1>5 DEF Within
  <2>1. x \in T /\ x # n /\ pos[x] # pos[n]
    BY <1>9
  <2> QED BY <2>1, <1>1, <1>2, <1>5
<1>12. Nested(U, pos, lo2, hi2)
  <2> SUFFICES ASSUME NEW x \in U, NEW y \in U, pos[x] < pos[y]
               PROVE  \/ hi2[x] + 1 < lo2[y]
                      \/ pos[x] < lo2[y] /\ hi2[y] <= hi2[x]
                      \/ hi2[x] < pos[y] /\ lo2[y] <= lo2[x]
    BY DEF Nested
  <2>0. x \in T /\ x # n /\ y \in T /\ y # n
    OBVIOUS
  <2>1. \A u, v \in T : pos[u] < pos[v] =>
           \/ hi[u] + 1 < lo[v]
           \/ pos[u] < lo[v] /\ hi[v] <= hi[u]
           \/ hi[u] < pos[v] /\ lo[v] <= lo[u]
    BY DEF Numbered, Nested
  <2> DEFINE Rel(u, v) == \/ hi[u] + 1 < lo[v]
                          \/ pos[u] < lo[v] /\ hi[v] <= hi[u]
                          \/ hi[u] < pos[v] /\ lo[v] <= lo[u]
  <2>2. Rel(x, y)
    BY <2>0, <2>1
  <2>3. /\ pos[n] < pos[y] => Rel(n, y)
        /\ pos[x] < pos[n] => Rel(x, n)
        /\ pos[n] < pos[x] => Rel(n, x)
        /\ pos[y] < pos[n] => Rel(y, n)
    BY <2>0, <2>1
  <2>5. pos[x] # pos[n] /\ pos[y] # pos[n]
    BY <2>0, <1>9
  <2> HIDE DEF U
  <2> QED BY <2>0, <2>2, <2>3, <2>5, <1>1, <1>2, <1>5, <1>10
<1>13. Closed2(c2, U)
  BY <1>1, <1>0, <1>3, <1>4, <1>7 DEF Closed2
<1>14. ASSUME NEW q \in Arms(U), c2[q] # NoNode
       PROVE  lo2[c2[q]] = From(pos, lo2, q) /\ hi2[c2[q]] = Upto(pos, hi2, q)
  <2>0. q \in Arms(T) /\ q # <<n, "l">> /\ q # <<n, "r">>
    BY <1>0
  <2>1. CASE q = p
    <3>1. c2[q] = f /\ f \in T
      BY <2>1, <1>1, <1>4, <1>14
    <3>2. lo2[f] = lo[n] /\ hi2[f] = hi[n]
      BY <3>1, <1>1, <1>2, <1>5, <1>14
    <3>3. CASE p = Tree
      BY <3>1, <3>2, <3>3, <2>1, <1>1, <1>2, <1>5 DEF From, Upto, Tree
    <3>4. ASSUME NEW x \in T, p = <<x, "l">> PROVE From(pos, lo2, q) = lo[n] /\ Upto(pos, hi2, q) = hi[n]
      BY <3>4, <2>1, <1>1, <1>2, <1>3, <1>5 DEF From, Upto
    <3>5. ASSUME NEW x \in T, p = <<x, "r">> PROVE From(pos, lo2, q) = lo[n] /\ Upto(pos, hi2, q) = hi[n]
      BY <3>5, <2>1, <1>1, <1>2, <1>3, <1>5 DEF From, Upto
    <3> QED BY <3>1, <3>2, <3>3, <3>4, <3>5, ArmCases
  <2>3. CASE q # p
    <3>1. c2[q] = c[q] /\ c[q] # NoNode /\ c[q] \in T
      BY <2>0, <2>3, <1>1, <1>4, <1>14
    <3> DEFINE z == c[q]
    <3>2. z \in T
      BY <3>1
    <3>3. lo[z] = From(pos, lo, q) /\ hi[z] = Upto(pos, hi, q)
      BY <2>0, <3>1 DEF Numbered, Filled
    <3> HIDE DEF z
    <3>4. ASSUME q = Tree PROVE lo2[z] = From(pos, lo2, q) /\ hi2[z] = Upto(pos, hi2, q)
      <4>1. /\ From(pos, lo, q) = lo[NoNode] /\ Upto(pos, hi, q) = pos[NoNode] - 1
            /\ From(pos, lo2, q) = lo2[NoNode] /\ Upto(pos, hi2, q) = pos[NoNode] - 1
        BY <3>4 DEF From, Upto, Tree
      <4> QED BY <4>1, <3>2, <3>3, <1>1, <1>5
    <3>5. ASSUME NEW x \in T, q = <<x, "r">>
          PROVE  lo2[z] = From(pos, lo2, q) /\ hi2[z] = Upto(pos, hi2, q)
      <4>1. x # n /\ pos[x] # pos[n]
        BY <2>0, <3>5, <1>9
      <4> QED BY <4>1, <3>2, <3>3, <3>5, <1>1, <1>5 DEF From, Upto
    <3>6. ASSUME NEW x \in T, q = <<x, "l">>
          PROVE  lo2[z] = From(pos, lo2, q) /\ hi2[z] = Upto(pos, hi2, q)
      BY <3>2, <3>3, <3>6, <1>1, <1>5 DEF From, Upto
    <3>7. q = Tree \/ \E x \in T : q = <<x, "l">> \/ q = <<x, "r">>
      BY <2>0, ArmCases
    <3>8. lo2[z] = From(pos, lo2, q) /\ hi2[z] = Upto(pos, hi2, q)
      BY <3>4, <3>5, <3>6, <3>7
    <3> QED BY <3>1, <3>8 DEF z
  <2> QED BY <2>1, <2>3
<1>15. ASSUME NEW q \in Arms(U), NEW x \in U, c2[q] = NoNode
       PROVE  pos[x] < From(pos, lo2, q) \/ Upto(pos, hi2, q) < pos[x]
  <2>0. /\ q \in Arms(T) /\ q # <<n, "l">> /\ q # <<n, "r">>
        /\ x \in T /\ x # n /\ pos[x] # pos[n]
    BY <1>0, <1>9
  <2> HIDE DEF U
  <2>1. CASE q = p
    <3>1. f = NoNode
      BY <2>1, <1>4, <1>15
    <3>2. pos[x] < pos[n] + 1 \/ hi[n] < pos[x]
      BY <3>1, <2>0, <1>1 DEF Numbered, Vacant, From, Upto
    <3>3. pos[x] < lo[n] \/ hi[n] < pos[x]
      BY <3>2, <2>0, <1>1, <1>10
    <3>4. CASE p = Tree
      BY <3>3, <3>4, <2>1, <1>1, <1>2, <1>5 DEF From, Upto, Tree
    <3>5. ASSUME NEW y \in T, p = <<y, "l">> PROVE From(pos, lo2, q) = lo[n] /\ Upto(pos, hi2, q) = hi[n]
      BY <3>5, <2>1, <1>1, <1>2, <1>3, <1>5 DEF From, Upto
    <3>6. ASSUME NEW y \in T, p = <<y, "r">> PROVE From(pos, lo2, q) = lo[n] /\ Upto(pos, hi2, q) = hi[n]
      BY <3>6, <2>1, <1>1, <1>2, <1>3, <1>5 DEF From, Upto
    <3> QED BY <3>3, <3>4, <3>5, <3>6, ArmCases
  <2>2. CASE q # p
    <3>1. c[q] = NoNode
      BY <2>0, <2>2, <1>1, <1>4, <1>15
    <3>2. \A y \in T : pos[y] < From(pos, lo, q) \/ Upto(pos, hi, q) < pos[y]
      BY <2>0, <3>1 DEF Numbered, Vacant
    <3>3. CASE q = Tree
      BY <2>0, <3>2, <3>3, <1>1, <1>5 DEF From, Upto, Tree
    <3>4. ASSUME NEW y \in T, q = <<y, "r">>
          PROVE  pos[x] < From(pos, lo2, q) \/ Upto(pos, hi2, q) < pos[x]
      BY <2>0, <3>2, <3>4, <1>5 DEF From, Upto
    <3>5. ASSUME NEW y \in T, q = <<y, "l">>
          PROVE  pos[x] < From(pos, lo2, q) \/ Upto(pos, hi2, q) < pos[x]
      <4>1. pos[x] < lo[y] \/ pos[y] - 1 < pos[x]
        BY <2>0, <3>2, <3>5 DEF From, Upto
      <4>2. From(pos, lo2, q) = lo2[y] /\ Upto(pos, hi2, q) = pos[y] - 1
        BY <3>5 DEF From, Upto
      <4> QED BY <4>1, <4>2, <2>0, <1>1, <1>2, <1>5, <1>10
    <3> QED BY <2>0, <3>3, <3>4, <3>5, ArmCases
  <2> QED BY <2>1, <2>2
<1>16. OneArm(c2, U)
  <2> SUFFICES ASSUME NEW q \in Arms(U), NEW s \in Arms(U), c2[q] = c2[s], c2[q] # NoNode
               PROVE  q = s
    BY DEF OneArm
  <2>1. c[q] = c[s] /\ c[q] # NoNode => q = s
    BY <1>0 DEF Numbered, OneArm
  <2>3. f # NoNode => c[q] # f /\ c[s] # f
    BY <1>8
  <2> QED BY <2>1, <2>3, <1>3, <1>4
<1>17. Apart(U, pos) /\ Ascending(U, pos)
  BY <1>0 DEF Numbered, Apart, Ascending
<1>18. U \subseteq Students
  BY <1>1
<1>19. Numbered(c2, U, pos, lo2, hi2)
  BY <1>1, <1>5, <1>6, <1>11, <1>12, <1>13, <1>14, <1>15, <1>16, <1>17, <1>18 DEF Numbered, Filled, Vacant
<1> QED BY <1>19, <1>1, <1>5 DEF IsTree, c2

(***************************************************************************)
(* An empty place among the numbers: how each node stands to it, and that  *)
(* no two are in the same gap.                                             *)
(***************************************************************************)
LEMMA GapPlace ==
  ASSUME NEW c, NEW T, NEW pos, NEW lo, NEW hi, Numbered(c, T, pos, lo, hi),
         NEW q \in Arms(T), c[q] = NoNode, NEW x \in T
  PROVE  \/ hi[x] + 1 < From(pos, lo, q)
         \/ Upto(pos, hi, q) + 1 < lo[x]
         \/ pos[x] < From(pos, lo, q) /\ Upto(pos, hi, q) <= hi[x]
         \/ Upto(pos, hi, q) < pos[x] /\ lo[x] <= From(pos, lo, q)
<1>1. /\ \A y \in T : /\ pos[y] \in Int /\ lo[y] \in Int /\ hi[y] \in Int
                      /\ 1 <= lo[y] /\ lo[y] <= pos[y] /\ pos[y] <= hi[y] /\ hi[y] < pos[NoNode]
      /\ lo[NoNode] = 1 /\ pos[NoNode] \in Int
  BY NumberedTypes
<1>2. \A y \in T : pos[y] < From(pos, lo, q) \/ Upto(pos, hi, q) < pos[y]
  BY DEF Numbered, Vacant
<1>3. \A y, z \in T : pos[y] = pos[z] => y = z
  BY DEF Numbered, Apart
<1>4. \A u, v \in T : pos[u] < pos[v] =>
         \/ hi[u] + 1 < lo[v]
         \/ pos[u] < lo[v] /\ hi[v] <= hi[u]
         \/ hi[u] < pos[v] /\ lo[v] <= lo[u]
  BY DEF Numbered, Nested
<1> HIDE DEF Numbered
<1>5. CASE q = Tree
  BY <1>1, <1>2, <1>5 DEF From, Upto, Tree
<1>6. ASSUME NEW m \in T, q = <<m, "l">> \/ q = <<m, "r">>
      PROVE  \/ hi[x] + 1 < From(pos, lo, q)
             \/ Upto(pos, hi, q) + 1 < lo[x]
             \/ pos[x] < From(pos, lo, q) /\ Upto(pos, hi, q) <= hi[x]
             \/ Upto(pos, hi, q) < pos[x] /\ lo[x] <= From(pos, lo, q)
  <2>1. \/ From(pos, lo, q) = lo[m] /\ Upto(pos, hi, q) = pos[m] - 1
        \/ From(pos, lo, q) = pos[m] + 1 /\ Upto(pos, hi, q) = hi[m]
    BY <1>6 DEF From, Upto
  <2>2. CASE x = m
    BY <2>1, <2>2, <1>1
  <2>3. CASE x # m
    <3>1. pos[x] # pos[m]
      BY <2>3, <1>3
    <3>2. CASE pos[x] < pos[m]
      <4>1. \/ hi[x] + 1 < lo[m]
            \/ pos[x] < lo[m] /\ hi[m] <= hi[x]
            \/ hi[x] < pos[m] /\ lo[m] <= lo[x]
        BY <3>2, <1>4
      <4> QED BY <4>1, <3>2, <2>1, <1>1, <1>2
    <3>3. CASE pos[m] < pos[x]
      <4>1. \/ hi[m] + 1 < lo[x]
            \/ pos[m] < lo[x] /\ hi[x] <= hi[m]
            \/ hi[m] < pos[x] /\ lo[x] <= lo[m]
        BY <3>3, <1>4
      <4> QED BY <4>1, <3>3, <2>1, <1>1, <1>2
    <3> QED BY <3>1, <3>2, <3>3, <1>1
  <2> QED BY <2>2, <2>3
<1>7. q = Tree \/ \E m \in T : q = <<m, "l">> \/ q = <<m, "r">>
  BY ArmCases
<1> QED BY <1>5, <1>6, <1>7

LEMMA GapsDiffer ==
  ASSUME NEW c, NEW T, NEW pos, NEW lo, NEW hi, Numbered(c, T, pos, lo, hi),
         NEW q \in Arms(T), c[q] = NoNode, NEW s \in Arms(T), c[s] = NoNode, s # q
  PROVE  From(pos, lo, q) < From(pos, lo, s) \/ Upto(pos, hi, s) + 1 < From(pos, lo, q)
<1>1. /\ \A y \in T : /\ pos[y] \in Int /\ lo[y] \in Int /\ hi[y] \in Int
                      /\ 1 <= lo[y] /\ lo[y] <= pos[y] /\ pos[y] <= hi[y] /\ hi[y] < pos[NoNode]
      /\ lo[NoNode] = 1 /\ pos[NoNode] \in Int
  BY NumberedTypes
<1>2. \A y \in T : pos[y] < From(pos, lo, q) \/ Upto(pos, hi, q) < pos[y]
  BY DEF Numbered, Vacant
<1>3. \A y \in T : pos[y] < From(pos, lo, s) \/ Upto(pos, hi, s) < pos[y]
  BY DEF Numbered, Vacant
<1>4. q # Tree /\ s # Tree
  <2>1. ASSUME NEW t \in Arms(T), t = Tree, \A y \in T : pos[y] < From(pos, lo, t) \/ Upto(pos, hi, t) < pos[y]
        PROVE  T = {}
    BY <2>1, <1>1 DEF From, Upto, Tree
  <2>2. T = {} => q = Tree /\ s = Tree
    BY DEF Arms
  <2>3. s = Tree => FALSE
    BY <2>1, <2>2, <1>3
  <2>4. q = Tree => FALSE
    BY <2>1, <2>2, <1>2
  <2> QED BY <2>3, <2>4
<1>5. PICK m \in T : q = <<m, "l">> \/ q = <<m, "r">>
  BY <1>4, ArmCases
<1>6. PICK k \in T : s = <<k, "l">> \/ s = <<k, "r">>
  BY <1>4, ArmCases
<1>7. \/ From(pos, lo, q) = lo[m] /\ Upto(pos, hi, q) = pos[m] - 1 /\ q = <<m, "l">>
      \/ From(pos, lo, q) = pos[m] + 1 /\ Upto(pos, hi, q) = hi[m] /\ q = <<m, "r">>
  BY <1>5 DEF From, Upto
<1>8. \/ From(pos, lo, s) = lo[k] /\ Upto(pos, hi, s) = pos[k] - 1 /\ s = <<k, "l">>
      \/ From(pos, lo, s) = pos[k] + 1 /\ Upto(pos, hi, s) = hi[k] /\ s = <<k, "r">>
  BY <1>6 DEF From, Upto
<1>9. CASE m = k
  BY <1>7, <1>8, <1>9, <1>1
<1>10. CASE m # k
  <2>1. pos[m] # pos[k]
    BY <1>10 DEF Numbered, Apart
  <2>2. CASE pos[m] < pos[k]
    <3>1. \/ hi[m] + 1 < lo[k]
          \/ pos[m] < lo[k] /\ hi[k] <= hi[m]
          \/ hi[m] < pos[k] /\ lo[k] <= lo[m]
      BY <2>2 DEF Numbered, Nested
    <3> QED BY <3>1, <2>2, <1>7, <1>8, <1>1, <1>2, <1>3
  <2>3. CASE pos[k] < pos[m]
    <3>1. \/ hi[k] + 1 < lo[m]
          \/ pos[k] < lo[m] /\ hi[m] <= hi[k]
          \/ hi[k] < pos[m] /\ lo[m] <= lo[k]
      BY <2>3 DEF Numbered, Nested
    <3> QED BY <3>1, <2>3, <1>7, <1>8, <1>1, <1>2, <1>3
  <2> QED BY <2>1, <2>2, <2>3, <1>1
<1> QED BY <1>9, <1>10

(***************************************************************************)
(* A new node s in an empty place q between what is not greater and what   *)
(* is not less.  All numbers double, so that there is one for it.          *)
(***************************************************************************)
LEMMA PutIn ==
  ASSUME NEW c, NEW T, NEW pos, NEW lo, NEW hi, Numbered(c, T, pos, lo, hi),
         NEW s \in Students, s \notin T, NEW q \in Arms(T), c[q] = NoNode,
         \A y \in T : /\ pos[y] < From(pos, lo, q) => y.id <= s.id
                      /\ Upto(pos, hi, q) < pos[y] => s.id <= y.id
  PROVE  IsTree([Cleared(c, s) EXCEPT ![q] = s], T \cup {s})
<1> DEFINE pos2 == [x \in Named |-> IF x = s THEN 2 * From(pos, lo, q) - 1 ELSE 2 * pos[x]]
           lo2 == [x \in Named |-> IF x = s THEN 2 * From(pos, lo, q) - 1 ELSE 2 * lo[x] - 1]
           hi2 == [x \in Named |-> IF x = s THEN 2 * Upto(pos, hi, q) + 1 ELSE 2 * hi[x] + 1]
           c2 == [Cleared(c, s) EXCEPT ![q] = s]
<1> DEFINE U == T \cup {s}
           F == From(pos, lo, q)
           G == Upto(pos, hi, q)
<1>1. /\ T \subseteq Students /\ NoNode \notin T /\ s # NoNode /\ NoNode \in Named
      /\ \A x \in T : /\ x \in Named /\ x # s
                      /\ pos[x] \in Int /\ lo[x] \in Int /\ hi[x] \in Int
                      /\ 1 <= lo[x] /\ lo[x] <= pos[x] /\ pos[x] <= hi[x] /\ hi[x] < pos[NoNode]
      /\ lo[NoNode] = 1 /\ pos[NoNode] \in Int /\ hi[NoNode] \in Int /\ pos[NoNode] >= 1
      /\ \A t \in Arms(T) : /\ t \in Places /\ c[t] \in T \cup {NoNode}
                            /\ From(pos, lo, t) \in Int /\ Upto(pos, hi, t) \in Int
      /\ c \in Trees /\ pos \in Numbers /\ lo \in Numbers /\ hi \in Numbers
      /\ <<s, "l">> \in Places /\ <<s, "r">> \in Places
  BY NumberedTypes DEF Numbered, Named, Places, Sides
<1>2. F \in Int /\ G \in Int /\ 1 <= F /\ G < pos[NoNode] /\ F <= G + 1
  BY NumberedTypes
<1>3. /\ \A t \in Arms(U) : t \in Arms(T) \/ t = <<s, "l">> \/ t = <<s, "r">>
      /\ \A t \in Arms(T) : t # <<s, "l">> /\ t # <<s, "r">>
  <2>1. Arms(U) = Arms(T) \cup ({s} \X Sides)
    BY DEF Arms
  <2> QED BY <2>1, <1>1 DEF Arms, Sides, Tree
<1>4. /\ \A t \in Arms(T) : c2[t] = IF t = q THEN s ELSE c[t]
      /\ c2[<<s, "l">>] = NoNode /\ c2[<<s, "r">>] = NoNode
      /\ c2 \in Trees
  BY <1>1, <1>3 DEF Trees, Cleared
<1>5. /\ \A x \in T : pos2[x] = 2 * pos[x] /\ lo2[x] = 2 * lo[x] - 1 /\ hi2[x] = 2 * hi[x] + 1
      /\ pos2[NoNode] = 2 * pos[NoNode] /\ lo2[NoNode] = 1
      /\ pos2[s] = 2 * F - 1 /\ lo2[s] = 2 * F - 1 /\ hi2[s] = 2 * G + 1
  BY <1>1 DEF Named
<1>6. pos2 \in Numbers /\ lo2 \in Numbers /\ hi2 \in Numbers
  <2>1. \A x \in Named : pos[x] \in Int /\ lo[x] \in Int /\ hi[x] \in Int
    BY <1>1 DEF Numbers
  <2> HIDE DEF F, G
  <2>2. \A x \in Named : /\ 2 * F - 1 \in Int /\ 2 * G + 1 \in Int
                         /\ 2 * pos[x] \in Int /\ 2 * lo[x] - 1 \in Int /\ 2 * hi[x] + 1 \in Int
    BY <2>1, <1>2
  <2> QED BY <2>2 DEF Numbers, F, G
<1> HIDE DEF pos2, lo2, hi2, c2
<1>7. \A t \in Arms(T) : /\ From(pos2, lo2, t) = 2 * From(pos, lo, t) - 1
                         /\ Upto(pos2, hi2, t) = 2 * Upto(pos, hi, t) + 1
  <2> SUFFICES ASSUME NEW t \in Arms(T)
               PROVE  /\ From(pos2, lo2, t) = 2 * From(pos, lo, t) - 1
                      /\ Upto(pos2, hi2, t) = 2 * Upto(pos, hi, t) + 1
    OBVIOUS
  <2>1. CASE t = Tree
    <3>1. /\ From(pos, lo, t) = lo[NoNode] /\ Upto(pos, hi, t) = pos[NoNode] - 1
          /\ From(pos2, lo2, t) = lo2[NoNode] /\ Upto(pos2, hi2, t) = pos2[NoNode] - 1
      BY <2>1 DEF From, Upto, Tree
    <3> QED BY <3>1, <1>1, <1>5
  <2>2. ASSUME NEW x \in T, t = <<x, "l">> \/ t = <<x, "r">>
        PROVE  /\ From(pos2, lo2, t) = 2 * From(pos, lo, t) - 1
               /\ Upto(pos2, hi2, t) = 2 * Upto(pos, hi, t) + 1
    BY <2>2, <1>1, <1>5 DEF From, Upto
  <2> QED BY <2>1, <2>2, ArmCases
<1>8. \A x \in T : \/ hi[x] + 1 < F
                   \/ G + 1 < lo[x]
                   \/ pos[x] < F /\ G <= hi[x]
                   \/ G < pos[x] /\ lo[x] <= F
  BY GapPlace
<1>9. \A x \in T : pos[x] < F \/ G < pos[x]
  BY DEF Numbered, Vacant
<1>10. \A t \in Arms(T) : c[t] = NoNode /\ t # q =>
         F < From(pos, lo, t) \/ Upto(pos, hi, t) + 1 < F
  BY GapsDiffer
<1> HIDE DEF F, G
<1>11. Within(U, pos2, lo2, hi2)
  <2>1. \A x \in T : /\ 1 <= lo2[x] /\ lo2[x] <= pos2[x]
                     /\ pos2[x] <= hi2[x] /\ hi2[x] < pos2[NoNode]
    BY <1>1, <1>5
  <2>2. 1 <= lo2[s] /\ lo2[s] <= pos2[s] /\ pos2[s] <= hi2[s] /\ hi2[s] < pos2[NoNode]
    BY <1>1, <1>2, <1>5
  <2>3. lo2[NoNode] = 1 /\ pos2[NoNode] >= 1
    BY <1>1, <1>5
  <2> QED BY <2>1, <2>2, <2>3 DEF Within
<1>12. Apart(U, pos2)
  <2>1. \A x, y \in T : pos2[x] = pos2[y] => x = y
    BY <1>1, <1>5 DEF Numbered, Apart
  <2>2. ASSUME NEW x \in T PROVE pos2[x] # pos2[s]
    <3>1. pos[x] \in Int /\ pos2[x] = 2 * pos[x] /\ pos2[s] = 2 * F - 1
      BY <1>1, <1>5
    <3>2. pos[x] < F => 2 * pos[x] < 2 * F - 1
      BY <3>1, <1>2
    <3>3. ~(pos[x] < F) => 2 * pos[x] > 2 * F - 1
      BY <3>1, <1>2
    <3> QED BY <3>1, <3>2, <3>3, <1>2
  <2> QED BY <2>1, <2>2 DEF Apart
<1>13. Nested(U, pos2, lo2, hi2)
  <2> SUFFICES ASSUME NEW x \in U, NEW y \in U, pos2[x] < pos2[y]
               PROVE  \/ hi2[x] + 1 < lo2[y]
                      \/ pos2[x] < lo2[y] /\ hi2[y] <= hi2[x]
                      \/ hi2[x] < pos2[y] /\ lo2[y] <= lo2[x]
    BY DEF Nested
  <2>1. CASE x \in T /\ y \in T
    <3>1. pos[x] < pos[y]
      BY <2>1, <1>1, <1>5
    <3>2. \/ hi[x] + 1 < lo[y]
          \/ pos[x] < lo[y] /\ hi[y] <= hi[x]
          \/ hi[x] < pos[y] /\ lo[y] <= lo[x]
      BY <2>1, <3>1 DEF Numbered, Nested
    <3> QED BY <2>1, <3>2, <1>1, <1>5
  <2>2. CASE x \in T /\ y = s
    BY <2>2, <1>1, <1>2, <1>5, <1>8
  <2>3. CASE x = s /\ y \in T
    BY <2>3, <1>1, <1>2, <1>5, <1>8
  <2>4. CASE x = s /\ y = s
    BY <2>4, <1>2, <1>5
  <2> QED BY <2>1, <2>2, <2>3, <2>4
<1>14. Closed2(c2, U)
  BY <1>1, <1>3, <1>4 DEF Closed2
<1>15. ASSUME NEW t \in Arms(U), NEW x \in U, c2[t] = NoNode
       PROVE  pos2[x] < From(pos2, lo2, t) \/ Upto(pos2, hi2, t) < pos2[x]
  <2>1. CASE t = <<s, "l">> \/ t = <<s, "r">>
    <3>1. \/ From(pos2, lo2, t) = lo2[s] /\ Upto(pos2, hi2, t) = pos2[s] - 1
          \/ From(pos2, lo2, t) = pos2[s] + 1 /\ Upto(pos2, hi2, t) = hi2[s]
      BY <2>1 DEF From, Upto
    <3>2. CASE x = s
      BY <3>1, <3>2, <1>2, <1>5
    <3>3. CASE x \in T
      BY <3>1, <3>3, <1>1, <1>2, <1>5, <1>9
    <3> QED BY <3>2, <3>3
  <2>2. CASE t \in Arms(T)
    <3>1. c[t] = NoNode /\ t # q
      BY <2>2, <1>1, <1>4, <1>15
    <3>2. /\ From(pos2, lo2, t) = 2 * From(pos, lo, t) - 1
          /\ Upto(pos2, hi2, t) = 2 * Upto(pos, hi, t) + 1
          /\ From(pos, lo, t) \in Int /\ Upto(pos, hi, t) \in Int
      BY <2>2, <1>1, <1>7
    <3>3. CASE x = s
      <4>1. F < From(pos, lo, t) \/ Upto(pos, hi, t) + 1 < F
        BY <2>2, <3>1, <1>10
      <4> QED BY <4>1, <3>2, <3>3, <1>2, <1>5
    <3>4. CASE x \in T
      <4>1. pos[x] < From(pos, lo, t) \/ Upto(pos, hi, t) < pos[x]
        BY <2>2, <3>1, <3>4 DEF Numbered, Vacant
      <4> QED BY <4>1, <3>2, <3>4, <1>1, <1>5
    <3> QED BY <3>3, <3>4
  <2> QED BY <2>1, <2>2, <1>3
<1>16. ASSUME NEW t \in Arms(U), c2[t] # NoNode
       PROVE  lo2[c2[t]] = From(pos2, lo2, t) /\ hi2[c2[t]] = Upto(pos2, hi2, t)
  <2>1. t \in Arms(T)
    BY <1>3, <1>4, <1>16
  <2>2. CASE t = q
    BY <2>1, <2>2, <1>4, <1>5, <1>7 DEF F, G
  <2>3. CASE t # q
    <3> DEFINE z == c[t]
    <3>1. c2[t] = z /\ z \in T
      BY <2>1, <2>3, <1>1, <1>4, <1>16
    <3>2. lo[z] = From(pos, lo, t) /\ hi[z] = Upto(pos, hi, t)
      BY <2>1, <2>3, <1>4, <1>16 DEF Numbered, Filled
    <3> HIDE DEF z
    <3> QED BY <2>1, <3>1, <3>2, <1>5, <1>7
  <2> QED BY <2>2, <2>3
<1>17. OneArm(c2, U)
  <2> SUFFICES ASSUME NEW t \in Arms(U), NEW r \in Arms(U), c2[t] = c2[r], c2[t] # NoNode
               PROVE  t = r
    BY DEF OneArm
  <2>1. t \in Arms(T) /\ r \in Arms(T)
    BY <1>3, <1>4
  <2>2. c[t] = c[r] /\ c[t] # NoNode => t = r
    BY <2>1 DEF Numbered, OneArm
  <2>3. c[t] # s /\ c[r] # s
    BY <2>1, <1>1
  <2> QED BY <2>1, <2>2, <2>3, <1>4
<1>18. Ascending(U, pos2)
  <2> SUFFICES ASSUME NEW x \in U, NEW y \in U, pos2[x] < pos2[y] PROVE x.id <= y.id
    BY DEF Ascending
  <2>1. CASE x \in T /\ y \in T
    <3>1. pos[x] < pos[y]
      BY <2>1, <1>1, <1>5
    <3> QED BY <2>1, <3>1 DEF Numbered, Ascending
  <2>2. CASE x \in T /\ y = s
    <3>1. pos[x] < F
      BY <2>2, <1>1, <1>2, <1>5
    <3> QED BY <2>2, <3>1 DEF F
  <2>3. CASE x = s /\ y \in T
    <3>1. G < pos[y]
      BY <2>3, <1>1, <1>2, <1>5, <1>9
    <3> QED BY <2>3, <3>1 DEF G
  <2>4. CASE x = s /\ y = s
    BY <2>4, <1>2, <1>5
  <2> QED BY <2>1, <2>2, <2>3, <2>4
<1>19. U \subseteq Students
  BY <1>1
<1>20. Numbered(c2, U, pos2, lo2, hi2)
  BY <1>4, <1>6, <1>11, <1>12, <1>13, <1>14, <1>15, <1>16, <1>17, <1>18, <1>19
  DEF Numbered, Filled, Vacant
<1> QED BY <1>20, <1>1, <1>5, <1>6 DEF IsTree, c2
-----------------------------------------------------------------------------
LEMMA AllIsBelow ==
  ASSUME NEW c, NEW T, NEW pos, NEW lo, NEW hi, Numbered(c, T, pos, lo, hi)
  PROVE  Below(c, Tree) = T
<1>1. Below(c, Tree) = Inside(T, pos, lo, hi, Tree)
  BY BelowIs, NumberedTypes
<1>2. From(pos, lo, Tree) = lo[NoNode] /\ Upto(pos, hi, Tree) = pos[NoNode] - 1
  BY DEF From, Upto, Tree
<1>3. \A x \in T : lo[NoNode] <= pos[x] /\ pos[x] <= pos[NoNode] - 1
  BY NumberedTypes
<1> QED BY <1>1, <1>2, <1>3 DEF Inside

(* Where a search or an insertion goes on from node x, in numbers. *)
LEMMA SideOf ==
  ASSUME NEW c, NEW T, NEW pos, NEW lo, NEW hi, Numbered(c, T, pos, lo, hi),
         NEW x \in T, NEW id \in TreeIds
  PROVE  /\ <<x, Side(x, id)>> \in Arms(T) /\ Side(x, id) \in Sides
         /\ c[<<x, Side(x, id)>>] \in T \cup {NoNode}
         /\ x.id < id => /\ From(pos, lo, <<x, Side(x, id)>>) = pos[x] + 1
                         /\ Upto(pos, hi, <<x, Side(x, id)>>) = hi[x]
         /\ ~(x.id < id) => /\ From(pos, lo, <<x, Side(x, id)>>) = lo[x]
                            /\ Upto(pos, hi, <<x, Side(x, id)>>) = pos[x] - 1
<1>1. Side(x, id) \in Sides
  BY DEF Side, Sides
<1>2. <<x, Side(x, id)>> \in Arms(T) /\ c[<<x, Side(x, id)>>] \in T \cup {NoNode}
  BY <1>1, NumberedTypes
<1>3. x.id < id => /\ From(pos, lo, <<x, Side(x, id)>>) = pos[x] + 1
                   /\ Upto(pos, hi, <<x, Side(x, id)>>) = hi[x]
  BY DEF Side, From, Upto
<1>4. ~(x.id < id) => /\ From(pos, lo, <<x, Side(x, id)>>) = lo[x]
                      /\ Upto(pos, hi, <<x, Side(x, id)>>) = pos[x] - 1
  BY DEF Side, From, Upto
<1> QED BY <1>1, <1>2, <1>3, <1>4

LEMMA RootOrNone ==
  ASSUME NEW c, NEW T, NEW pos, NEW lo, NEW hi, Numbered(c, T, pos, lo, hi)
  PROVE  \/ c[Tree] = NoNode /\ T = {}
         \/ /\ c[Tree] \in T /\ c[Tree] # NoNode
            /\ \A x \in T : lo[c[Tree]] <= pos[x] /\ pos[x] <= hi[c[Tree]]
<1>1. From(pos, lo, Tree) = lo[NoNode] /\ Upto(pos, hi, Tree) = pos[NoNode] - 1
  BY DEF From, Upto, Tree
<1>2. \A x \in T : x \in Inside(T, pos, lo, hi, Tree)
  <2>1. \A x \in T : lo[NoNode] <= pos[x] /\ pos[x] <= pos[NoNode] - 1
    BY NumberedTypes
  <2> QED BY <2>1, <1>1 DEF Inside
<1>3. Tree \in Arms(T) /\ c[Tree] \in T \cup {NoNode} /\ NoNode \notin T
  BY NumberedTypes
<1>4. CASE T = {}
  BY <1>3, <1>4
<1>5. CASE T # {}
  <2>1. c[Tree] \in T /\ lo[c[Tree]] = From(pos, lo, Tree) /\ hi[c[Tree]] = Upto(pos, hi, Tree)
    BY <1>2, <1>3, <1>5, Descend
  <2> QED BY <2>1, <1>2, <1>3 DEF Inside
<1> QED BY <1>4, <1>5

(***************************************************************************)
(* Insertion ends at an empty place between what is less and what is not.  *)
(***************************************************************************)
LEMMA InsertPlaceIs ==
  ASSUME NEW T, NEW pos, NEW lo, NEW hi, Numbered(child, T, pos, lo, hi), NEW id \in TreeIds
  PROVE  LET q == InsertPlace(id)
         IN /\ q \in Arms(T) /\ child[q] = NoNode
            /\ \A y \in T : /\ pos[y] < From(pos, lo, q) => y.id <= id
                            /\ Upto(pos, hi, q) < pos[y] => id <= y.id
<1>1. CASE child[Tree] = NoNode
  <2>1. T = {} /\ Tree \in Arms(T)
    BY <1>1, RootOrNone, NumberedTypes
  <2> QED BY <2>1, <1>1 DEF InsertPlace
<1>2. CASE child[Tree] # NoNode
  <2> DEFINE n == child[Tree]
             link == [x \in Students |-> child[<<x, Side(x, id)>>]]
             W == {x \in T : \A y \in T : /\ pos[y] < lo[x] => y.id <= id
                                          /\ hi[x] < pos[y] => id <= y.id}
  <2>1. n \in T /\ \A x \in T : lo[n] <= pos[x] /\ pos[x] <= hi[n]
    BY <1>2, RootOrNone
  <2>2. /\ \A x \in T : /\ x \in Students /\ x.id \in Int /\ pos[x] \in Int /\ lo[x] \in Int /\ hi[x] \in Int
                        /\ lo[x] <= pos[x] /\ pos[x] <= hi[x]
        /\ NoNode \notin T /\ id \in Int
    BY NumberedTypes, TreeAssumption
  <2> HIDE DEF n
  <2>3. n \in W /\ W \in SUBSET T
    BY <2>1, <2>2
  <2>4. \A x \in T : link[x] = child[<<x, Side(x, id)>>]
    BY <2>2
  <2> HIDE DEF link, W
  <2>5. ASSUME NEW x \in T, x \in W, NEW y \in T
        PROVE  /\ pos[y] < From(pos, lo, <<x, Side(x, id)>>) => y.id <= id
               /\ Upto(pos, hi, <<x, Side(x, id)>>) < pos[y] => id <= y.id
    <3>1. /\ pos[y] < lo[x] => y.id <= id
          /\ hi[x] < pos[y] => id <= y.id
      BY <2>5 DEF W
    <3>2. /\ pos[y] < pos[x] => y.id <= x.id
          /\ pos[x] < pos[y] => x.id <= y.id
          /\ pos[x] = pos[y] => x = y
      BY DEF Numbered, Ascending, Apart
    <3>3. CASE x.id < id
      <4>1. From(pos, lo, <<x, Side(x, id)>>) = pos[x] + 1 /\ Upto(pos, hi, <<x, Side(x, id)>>) = hi[x]
        BY <3>3, SideOf
      <4> QED BY <4>1, <3>1, <3>2, <3>3, <2>2
    <3>4. CASE ~(x.id < id)
      <4>1. From(pos, lo, <<x, Side(x, id)>>) = lo[x] /\ Upto(pos, hi, <<x, Side(x, id)>>) = pos[x] - 1
        BY <3>4, SideOf
      <4> QED BY <4>1, <3>1, <3>2, <3>4, <2>2
    <3> QED BY <3>3, <3>4
  <2>6. ASSUME NEW x \in W, link[x] # NoNode
        PROVE  link[x] \in W /\ \E d \in Sides : link[x] = child[<<x, d>>]
    <3>1. x \in T /\ <<x, Side(x, id)>> \in Arms(T) /\ Side(x, id) \in Sides
      BY <2>3, SideOf
    <3>2. link[x] = child[<<x, Side(x, id)>>] /\ link[x] \in T
      BY <2>3, <2>4, <2>6, SideOf
    <3> DEFINE z == link[x]
    <3>3. lo[z] = From(pos, lo, <<x, Side(x, id)>>) /\ hi[z] = Upto(pos, hi, <<x, Side(x, id)>>)
      BY <3>1, <3>2, <2>6 DEF Numbered, Filled
    <3> HIDE DEF z
    <3>4. \A y \in T : /\ pos[y] < lo[z] => y.id <= id
                       /\ hi[z] < pos[y] => id <= y.id
      BY <3>1, <3>3, <2>5
    <3>5. z \in W
      BY <3>2, <3>4 DEF W, z
    <3> QED BY <3>1, <3>2, <3>5 DEF z
  <2>7. LeadsDown(child, link, W)
    BY <2>6 DEF LeadsDown
  <2> DEFINE m == LastOf(link, n)
  <2>8. m \in W /\ link[m] = NoNode
    BY <2>3, <2>7, WalkEnds
  <2>9. InsertPlace(id) = <<m, Side(m, id)>>
    BY <1>2 DEF InsertPlace, link, n
  <2> HIDE DEF m
  <2>10. m \in T /\ <<m, Side(m, id)>> \in Arms(T) /\ child[<<m, Side(m, id)>>] = NoNode
    BY <2>3, <2>4, <2>8, SideOf
  <2> QED BY <2>5, <2>8, <2>9, <2>10
<1> QED BY <1>1, <1>2

(***************************************************************************)
(* A search ends at the id if and only if it is in the tree.               *)
(***************************************************************************)
LEMMA SearchIs ==
  ASSUME NEW T, NEW pos, NEW lo, NEW hi, Numbered(child, T, pos, lo, hi), NEW id \in TreeIds
  PROVE  /\ tree_find(id) <=> \E y \in T : y.id = id
         /\ tree_find(id) => LET p == FoundPlace(id)
                             IN p \in Arms(T) /\ child[p] \in T /\ child[p].id = id
<1>1. CASE child[Tree] = NoNode
  <2>1. T = {}
    BY <1>1, RootOrNone
  <2> QED BY <2>1, <1>1 DEF tree_find
<1>2. CASE child[Tree] # NoNode
  <2> DEFINE n == child[Tree]
             link == Search(id)
             found == LastOf(link, n)
  <2>1. n \in T /\ \A x \in T : lo[n] <= pos[x] /\ pos[x] <= hi[n]
    BY <1>2, RootOrNone
  <2>2. /\ \A x \in T : /\ x \in Students /\ x.id \in Int /\ pos[x] \in Int /\ lo[x] \in Int /\ hi[x] \in Int
                        /\ lo[x] <= pos[x] /\ pos[x] <= hi[x]
        /\ NoNode \notin T /\ id \in Int /\ T \subseteq Students
        /\ Tree \in Arms(T)
    BY NumberedTypes, TreeAssumption DEF Numbered
  <2>3. \A x \in T : link[x] = IF x.id = id THEN NoNode ELSE child[<<x, Side(x, id)>>]
    BY <2>2 DEF Search
  <2>4. tree_find(id) <=> found.id = id
    BY <1>2 DEF tree_find
  <2> HIDE DEF n, link
  <2>5. LeadsDown(child, link, T)
    <3> SUFFICES ASSUME NEW x \in T, link[x] # NoNode
                 PROVE  link[x] \in T /\ \E d \in Sides : link[x] = child[<<x, d>>]
      BY DEF LeadsDown
    <3>1. link[x] = child[<<x, Side(x, id)>>]
      BY <2>3
    <3> QED BY <3>1, SideOf
  <2>6. found \in Along(link, n) /\ Along(link, n) \subseteq T /\ link[found] = NoNode
    BY <2>1, <2>5, WalkEnds
  <2>7. ASSUME NEW y \in T, y.id = id PROVE found.id = id
    <3> DEFINE W == {x \in T : lo[x] <= pos[y] /\ pos[y] <= hi[x]}
    <3>1. n \in W /\ W \in SUBSET T
      BY <2>1
    <3>2. ASSUME NEW x \in W, x.id # id
          PROVE  LET z == child[<<x, Side(x, id)>>] IN z \in W /\ z # NoNode /\ link[x] = z
      <4>1. x \in T /\ lo[x] <= pos[y] /\ pos[y] <= hi[x]
        OBVIOUS
      <4>2. /\ pos[y] < pos[x] => y.id <= x.id
            /\ pos[x] < pos[y] => x.id <= y.id
            /\ pos[x] = pos[y] => x = y
        BY <4>1 DEF Numbered, Ascending, Apart
      <4>3. y \in Inside(T, pos, lo, hi, <<x, Side(x, id)>>)
        <5>1. CASE x.id < id
          <6>1. From(pos, lo, <<x, Side(x, id)>>) = pos[x] + 1 /\ Upto(pos, hi, <<x, Side(x, id)>>) = hi[x]
            BY <4>1, <5>1, SideOf
          <6>2. pos[x] + 1 <= pos[y] /\ pos[y] <= hi[x]
            BY <4>1, <4>2, <5>1, <2>2, <2>7
          <6> QED BY <6>1, <6>2 DEF Inside
        <5>2. CASE ~(x.id < id)
          <6>1. From(pos, lo, <<x, Side(x, id)>>) = lo[x] /\ Upto(pos, hi, <<x, Side(x, id)>>) = pos[x] - 1
            BY <4>1, <5>2, SideOf
          <6>2. lo[x] <= pos[y] /\ pos[y] <= pos[x] - 1
            BY <4>1, <4>2, <5>2, <3>2, <2>2, <2>7
          <6> QED BY <6>1, <6>2 DEF Inside
        <5> QED BY <5>1, <5>2
      <4> DEFINE z == child[<<x, Side(x, id)>>]
      <4>4. /\ z \in T /\ lo[z] = From(pos, lo, <<x, Side(x, id)>>)
            /\ hi[z] = Upto(pos, hi, <<x, Side(x, id)>>)
        BY <4>1, <4>3, Descend, SideOf
      <4>5. link[x] = z
        BY <4>1, <3>2, <2>3
      <4> HIDE DEF z
      <4>6. z \in W
        BY <4>3, <4>4 DEF Inside
      <4> QED BY <4>4, <4>5, <4>6, <2>2 DEF z
    <3>3. \A x \in W : x.id = id => link[x] = NoNode
      BY <2>3
    <3> HIDE DEF W
    <3>4. LeadsDown(child, link, W)
      <4> SUFFICES ASSUME NEW x \in W, link[x] # NoNode
                   PROVE  link[x] \in W /\ \E d \in Sides : link[x] = child[<<x, d>>]
        BY DEF LeadsDown
      <4>1. x \in T /\ Side(x, id) \in Sides
        BY <3>1, SideOf
      <4> QED BY <4>1, <3>2, <3>3
    <3>5. found \in W
      BY <3>1, <3>4, WalkEnds
    <3> QED BY <3>2, <3>5, <2>6
  <2>8. ASSUME found.id = id
        PROVE  LET p == FoundPlace(id)
               IN p \in Arms(T) /\ child[p] = found
    <3> DEFINE A == Along(link, n)
               last == CHOOSE x \in A : link[x] = found
    <3>1. FoundPlace(id) = IF n = found THEN Tree ELSE <<last, Side(last, id)>>
      BY DEF FoundPlace, n, link
    <3>2. CASE n = found
      BY <3>1, <3>2, <2>2 DEF n
    <3>3. CASE n # found
      <4>1. \E x \in A : link[x] = found
        <5> SUFFICES ASSUME \A x \in A : link[x] # found PROVE FALSE
          OBVIOUS
        <5>1. n \in T /\ \A x \in T : link[x] \in T \cup {NoNode}
          BY <2>1, <2>5 DEF LeadsDown
        <5>2. A \subseteq T /\ n \in A /\ \A x \in A : link[x] \in A \cup {NoNode}
          BY <5>1, <2>2, AlongLeast
        <5> DEFINE B == A \ {found}
        <5>3. B \in SUBSET Students /\ n \in B /\ \A x \in B : link[x] \in B \cup {NoNode}
          BY <5>2, <3>3, <2>2
        <5> HIDE DEF B
        <5>4. A \subseteq B
          BY <5>3, AlongLeast
        <5> QED BY <5>4, <2>6 DEF B
      <4>2. last \in A /\ link[last] = found
        BY <4>1
      <4>3. last \in T /\ found # NoNode
        BY <4>2, <2>2, <2>6
      <4> HIDE DEF last
      <4>4. child[<<last, Side(last, id)>>] = found /\ <<last, Side(last, id)>> \in Arms(T)
        BY <4>2, <4>3, <2>3, SideOf
      <4> QED BY <4>4, <3>1, <3>3
    <3> QED BY <3>2, <3>3
  <2> HIDE DEF found
  <2> QED BY <2>4, <2>6, <2>7, <2>8
<1> QED BY <1>1, <1>2

(***************************************************************************)
(* Left and right in the numbers, and the nodes above one.                 *)
(***************************************************************************)
LEMMA BetweenApart ==
  ASSUME NEW c, NEW T, NEW pos, NEW lo, NEW hi, Numbered(c, T, pos, lo, hi),
         NEW x \in T, NEW y \in T, hi[y] + 1 < lo[x]
  PROVE  \E z \in T : y \in Inside(T, pos, lo, hi, <<z, "l">>) /\ x \in Inside(T, pos, lo, hi, <<z, "r">>)
<1> DEFINE Both == {z \in T : lo[z] <= pos[y] /\ pos[x] <= hi[z]}
           Sizes == {hi[z] - lo[z] : z \in Both}
<1>0. /\ \A z \in T : pos[z] \in Int /\ lo[z] \in Int /\ hi[z] \in Int
                      /\ lo[z] <= pos[z] /\ pos[z] <= hi[z]
  BY NumberedTypes
<1>1. Both # {}
  <2>1. c[Tree] \in T /\ lo[c[Tree]] <= pos[y] /\ pos[x] <= hi[c[Tree]]
    BY RootOrNone
  <2> QED BY <2>1
<1>2. Sizes # {} /\ Sizes \in SUBSET Nat
  BY <1>1, <1>0
<1>3. PICK k \in Sizes : \A l \in Sizes : k <= l
  BY <1>2, LeastNumber
<1>4. PICK z \in Both : \A v \in Both : hi[z] - lo[z] <= hi[v] - lo[v]
  BY <1>3
<1>5. z \in T /\ lo[z] <= pos[y] /\ pos[x] <= hi[z]
  OBVIOUS
<1>6. ASSUME NEW d \in Sides, y \in Inside(T, pos, lo, hi, <<z, d>>), x \in Inside(T, pos, lo, hi, <<z, d>>)
      PROVE  FALSE
  <2>1. <<z, d>> \in Arms(T)
    BY <1>5 DEF Arms
  <2> DEFINE v == c[<<z, d>>]
  <2>2. v \in T /\ lo[v] = From(pos, lo, <<z, d>>) /\ hi[v] = Upto(pos, hi, <<z, d>>)
    BY <2>1, <1>6, Descend
  <2>3. lo[v] <= pos[y] /\ pos[x] <= hi[v]
    BY <2>2, <1>6 DEF Inside
  <2>4. \/ lo[v] = lo[z] /\ hi[v] = pos[z] - 1
        \/ lo[v] = pos[z] + 1 /\ hi[v] = hi[z]
    BY <2>2 DEF Sides, From, Upto
  <2> HIDE DEF v
  <2>5. v \in Both
    BY <2>2, <2>3
  <2>6. hi[z] - lo[z] <= hi[v] - lo[v]
    BY <2>5, <1>4
  <2>7. /\ lo[v] \in Int /\ hi[v] \in Int /\ lo[z] \in Int /\ hi[z] \in Int /\ pos[z] \in Int
        /\ lo[z] <= pos[z] /\ pos[z] <= hi[z]
    BY <2>2, <1>0, <1>5
  <2> QED BY <2>4, <2>6, <2>7
<1> HIDE DEF Both, Sizes
<1>7. pos[y] < pos[z] /\ pos[z] < pos[x]
  <2>0. /\ pos[x] \in Int /\ pos[y] \in Int /\ pos[z] \in Int /\ lo[z] \in Int /\ hi[z] \in Int
        /\ hi[y] \in Int /\ lo[x] \in Int /\ pos[y] <= hi[y] /\ lo[x] <= pos[x]
        /\ lo[y] \in Int /\ hi[x] \in Int
    BY <1>0, <1>5
  <2>1. pos[z] # pos[y] /\ pos[z] # pos[x]
    <3>1. pos[z] = pos[y] => z = y
      BY <1>5 DEF Numbered, Apart
    <3>2. pos[z] = pos[x] => z = x
      BY <1>5 DEF Numbered, Apart
    <3>3. z # y
      BY <1>5, <2>0
    <3>4. z # x
      BY <1>5, <2>0
    <3> QED BY <3>1, <3>2, <3>3, <3>4
  <2>2. CASE pos[z] < pos[y]
    <3>1. pos[z] + 1 <= pos[y] /\ pos[z] + 1 <= pos[x] /\ pos[y] <= hi[z] /\ pos[x] <= hi[z]
      BY <2>2, <2>0, <1>5
    <3>2. y \in Inside(T, pos, lo, hi, <<z, "r">>) /\ x \in Inside(T, pos, lo, hi, <<z, "r">>)
      BY <3>1 DEF Inside, From, Upto
    <3> QED BY <3>2, <1>6 DEF Sides
  <2>3. CASE pos[x] < pos[z]
    <3>1. lo[z] <= pos[y] /\ lo[z] <= pos[x] /\ pos[y] <= pos[z] - 1 /\ pos[x] <= pos[z] - 1
      BY <2>3, <2>0, <1>5
    <3>2. y \in Inside(T, pos, lo, hi, <<z, "l">>) /\ x \in Inside(T, pos, lo, hi, <<z, "l">>)
      BY <3>1 DEF Inside, From, Upto
    <3> QED BY <3>2, <1>6 DEF Sides
  <2> QED BY <2>0, <2>1, <2>2, <2>3
<1>8. /\ lo[z] <= pos[y] /\ pos[y] <= pos[z] - 1
      /\ pos[z] + 1 <= pos[x] /\ pos[x] <= hi[z]
  BY <1>0, <1>5, <1>7
<1> QED BY <1>5, <1>8 DEF Inside, From, Upto

LEMMA BelowSides ==
  ASSUME NEW c, NEW T, NEW pos, NEW lo, NEW hi, Numbered(c, T, pos, lo, hi),
         NEW z \in T, NEW v \in T
  PROVE  /\ v \in Below(c, <<z, "l">>) <=> lo[z] <= pos[v] /\ pos[v] <= pos[z] - 1
         /\ v \in Below(c, <<z, "r">>) <=> pos[z] + 1 <= pos[v] /\ pos[v] <= hi[z]
<1>1. <<z, "l">> \in Arms(T) /\ <<z, "r">> \in Arms(T)
  BY DEF Arms, Sides
<1>2. /\ Below(c, <<z, "l">>) = Inside(T, pos, lo, hi, <<z, "l">>)
      /\ Below(c, <<z, "r">>) = Inside(T, pos, lo, hi, <<z, "r">>)
  BY <1>1, BelowIs
<1>3. /\ From(pos, lo, <<z, "l">>) = lo[z] /\ Upto(pos, hi, <<z, "l">>) = pos[z] - 1
      /\ From(pos, lo, <<z, "r">>) = pos[z] + 1 /\ Upto(pos, hi, <<z, "r">>) = hi[z]
  BY DEF From, Upto
<1> QED BY <1>2, <1>3 DEF Inside

LEMMA BeforeIs ==
  ASSUME NEW c, NEW T, NEW pos, NEW lo, NEW hi, Numbered(c, T, pos, lo, hi),
         NEW x \in T, NEW y \in T
  PROVE  Before(c, y, x) <=> pos[y] < pos[x]
<1>0. \A z \in T : pos[z] \in Int /\ lo[z] \in Int /\ hi[z] \in Int
                   /\ lo[z] <= pos[z] /\ pos[z] <= hi[z]
  BY NumberedTypes
<1>1. Below(c, Tree) = T
  BY AllIsBelow
<1>2. \A z, v \in T : /\ v \in Below(c, <<z, "l">>) <=> lo[z] <= pos[v] /\ pos[v] <= pos[z] - 1
                      /\ v \in Below(c, <<z, "r">>) <=> pos[z] + 1 <= pos[v] /\ pos[v] <= hi[z]
  BY BelowSides
<1>3. ASSUME Before(c, y, x) PROVE pos[y] < pos[x]
  <2>1. CASE y \in Below(c, <<x, "l">>)
    <3>1. pos[y] <= pos[x] - 1 /\ pos[x] \in Int /\ pos[y] \in Int
      BY <2>1, <1>0, <1>2
    <3> QED BY <3>1
  <2>2. CASE x \in Below(c, <<y, "r">>)
    <3>1. pos[y] + 1 <= pos[x] /\ pos[x] \in Int /\ pos[y] \in Int
      BY <2>2, <1>0, <1>2
    <3> QED BY <3>1
  <2>3. ASSUME NEW z \in T, y \in Below(c, <<z, "l">>), x \in Below(c, <<z, "r">>)
        PROVE  pos[y] < pos[x]
    <3>1. /\ pos[y] <= pos[z] - 1 /\ pos[z] + 1 <= pos[x]
          /\ pos[x] \in Int /\ pos[y] \in Int /\ pos[z] \in Int
      BY <2>3, <1>0, <1>2
    <3> QED BY <3>1
  <2> QED BY <1>1, <1>3, <2>1, <2>2, <2>3 DEF Before
<1>4. ASSUME pos[y] < pos[x] PROVE Before(c, y, x)
  <2>1. \/ hi[y] + 1 < lo[x]
        \/ pos[y] < lo[x] /\ hi[x] <= hi[y]
        \/ hi[y] < pos[x] /\ lo[x] <= lo[y]
    BY <1>4 DEF Numbered, Nested
  <2>2. CASE hi[y] + 1 < lo[x]
    <3>0. PICK z \in T : y \in Inside(T, pos, lo, hi, <<z, "l">>) /\ x \in Inside(T, pos, lo, hi, <<z, "r">>)
      BY <2>2, BetweenApart
    <3>1. y \in Below(c, <<z, "l">>) /\ x \in Below(c, <<z, "r">>)
      <4>1. <<z, "l">> \in Arms(T) /\ <<z, "r">> \in Arms(T)
        BY DEF Arms, Sides
      <4> QED BY <3>0, <4>1, BelowIs
    <3> QED BY <3>1, <1>1 DEF Before
  <2>3. CASE pos[y] < lo[x] /\ hi[x] <= hi[y]
    <3>1. pos[y] + 1 <= pos[x] /\ pos[x] <= hi[y]
      BY <2>3, <1>0
    <3> QED BY <3>1, <1>2 DEF Before
  <2>4. CASE hi[y] < pos[x] /\ lo[x] <= lo[y]
    <3>1. lo[x] <= pos[y] /\ pos[y] <= pos[x] - 1
      BY <2>4, <1>0
    <3> QED BY <3>1, <1>2 DEF Before
  <2> QED BY <2>1, <2>2, <2>3, <2>4
<1> QED BY <1>3, <1>4

LEMMA OverIs ==
  ASSUME NEW c, NEW T, NEW pos, NEW lo, NEW hi, Numbered(c, T, pos, lo, hi), NEW x \in T
  PROVE  Over(c, x) = {y \in T : y # x /\ lo[y] <= pos[x] /\ pos[x] <= hi[y]}
<1>0. \A z \in T : pos[z] \in Int /\ lo[z] \in Int /\ hi[z] \in Int
                   /\ lo[z] <= pos[z] /\ pos[z] <= hi[z]
  BY NumberedTypes
<1>1. Below(c, Tree) = T
  BY AllIsBelow
<1>2. \A z \in T : /\ x \in Below(c, <<z, "l">>) <=> lo[z] <= pos[x] /\ pos[x] <= pos[z] - 1
                   /\ x \in Below(c, <<z, "r">>) <=> pos[z] + 1 <= pos[x] /\ pos[x] <= hi[z]
  BY BelowSides
<1>3. ASSUME NEW y \in T
      PROVE  x \in Below(c, <<y, "l">>) \cup Below(c, <<y, "r">>)
               <=> y # x /\ lo[y] <= pos[x] /\ pos[x] <= hi[y]
  <2>1. pos[y] = pos[x] => y = x
    BY DEF Numbered, Apart
  <2>2. (lo[y] <= pos[x] /\ pos[x] <= pos[y] - 1) \/ (pos[y] + 1 <= pos[x] /\ pos[x] <= hi[y])
          <=> y # x /\ lo[y] <= pos[x] /\ pos[x] <= hi[y]
    BY <2>1, <1>0
  <2> QED BY <2>2, <1>2
<1> QED BY <1>1, <1>3 DEF Over

(***************************************************************************)
(* What is below n on side d has n no longer above it, and order is kept.  *)
(***************************************************************************)
ClosesIn(c, c2, T, n, d) ==
  /\ \A x, y \in T : Before(c2, x, y) <=> Before(c, x, y)
  /\ \A x \in Below(c, <<n, d>>) : n \in Over(c, x) /\ Over(c2, x) = Over(c, x) \ {n}

LEMMA TurnClosesIn ==
  ASSUME NEW c, NEW T, NEW pos, NEW lo, NEW hi, Numbered(c, T, pos, lo, hi),
         NEW c2, NEW lo2, NEW hi2, Numbered(c2, T, pos, lo2, hi2),
         NEW n \in T, NEW d \in Sides,
         \A x \in Inside(T, pos, lo, hi, <<n, d>>) :
           /\ ~(lo2[n] <= pos[x] /\ pos[x] <= hi2[n])
           /\ \A y \in T \ {n} : lo2[y] <= pos[x] /\ pos[x] <= hi2[y] <=> lo[y] <= pos[x] /\ pos[x] <= hi[y]
  PROVE  ClosesIn(c, c2, T, n, d)
<1>1. \A x, y \in T : Before(c2, x, y) <=> Before(c, x, y)
  <2>1. \A x, y \in T : Before(c2, x, y) <=> pos[x] < pos[y]
    BY BeforeIs
  <2>2. \A x, y \in T : Before(c, x, y) <=> pos[x] < pos[y]
    BY BeforeIs
  <2> QED BY <2>1, <2>2
<1>2. ASSUME NEW x \in Below(c, <<n, d>>)
      PROVE  n \in Over(c, x) /\ Over(c2, x) = Over(c, x) \ {n}
  <2>0. <<n, d>> \in Arms(T)
    BY DEF Arms
  <2>1. x \in Inside(T, pos, lo, hi, <<n, d>>)
    BY <2>0, BelowIs
  <2>2. x \in T
    BY <2>1 DEF Inside
  <2>3. /\ Over(c, x) = {y \in T : y # x /\ lo[y] <= pos[x] /\ pos[x] <= hi[y]}
        /\ Over(c2, x) = {y \in T : y # x /\ lo2[y] <= pos[x] /\ pos[x] <= hi2[y]}
    BY <2>2, OverIs
  <2>4. n \in Over(c, x)
    <3>1. Below(c, Tree) = T
      BY AllIsBelow
    <3> QED BY <3>1 DEF Over, Sides
  <2>5. /\ ~(lo2[n] <= pos[x] /\ pos[x] <= hi2[n])
        /\ \A y \in T \ {n} : lo2[y] <= pos[x] /\ pos[x] <= hi2[y] <=> lo[y] <= pos[x] /\ pos[x] <= hi[y]
    BY <2>1
  <2> QED BY <2>3, <2>4, <2>5
<1> QED BY <1>1, <1>2 DEF ClosesIn

(***************************************************************************)
(* The operations.                                                         *)
(***************************************************************************)
LEMMA InsertKeeps ==
  ASSUME NEW T, IsTree(child, T), NEW s \in Students, s \notin T
  PROVE  IsTree([Cleared(child, s) EXCEPT ![InsertPlace(s.id)] = s], T \cup {s})
<1>1. PICK pos \in Numbers, lo \in Numbers, hi \in Numbers : Numbered(child, T, pos, lo, hi)
  BY DEF IsTree
<1>2. s.id \in TreeIds
  BY TreeAssumption
<1> DEFINE q == InsertPlace(s.id)
<1>3. /\ q \in Arms(T) /\ child[q] = NoNode
      /\ \A y \in T : /\ pos[y] < From(pos, lo, q) => y.id <= s.id
                      /\ Upto(pos, hi, q) < pos[y] => s.id <= y.id
  BY <1>1, <1>2, InsertPlaceIs
<1> HIDE DEF q
<1>4. IsTree([Cleared(child, s) EXCEPT ![q] = s], T \cup {s})
  BY <1>1, <1>3, PutIn
<1> QED BY <1>4 DEF q

LEMMA DeleteKeeps ==
  ASSUME NEW T, IsTree(child, T), NEW p \in Arms(T), child[p] \in T
  PROVE  IsTree(Cleared(Grafted(p), child[p]), T \ {child[p]})
<1>1. PICK pos \in Numbers, lo \in Numbers, hi \in Numbers : Numbered(child, T, pos, lo, hi)
  BY DEF IsTree
<1> DEFINE n == child[p]
           f == child[<<n, "r">>]
           r == child[<<n, "l">>]
<1>2. n \in T /\ n = child[p]
  OBVIOUS
<1> HIDE DEF n
<1>3. f = child[<<n, "r">>] /\ r = child[<<n, "l">>]
  OBVIOUS
<1> HIDE DEF f, r
<1>4. /\ <<n, "l">> \in Arms(T) /\ <<n, "r">> \in Arms(T) /\ NoNode \notin T
      /\ r \in T \cup {NoNode}
  BY <1>1, <1>2, <1>3, NumberedTypes DEF Sides
<1>5. CASE r = NoNode
  <2>1. IsTree(Cleared([child EXCEPT ![p] = f], n), T \ {n})
    BY <1>1, <1>2, <1>3, <1>5, GraftedOne
  <2>2. Grafted(p) = [child EXCEPT ![p] = f]
    BY <1>5, <1>2, <1>3 DEF Grafted
  <2> QED BY <2>1, <2>2, <1>2
<1>6. CASE r # NoNode
  <2> DEFINE up == [child EXCEPT ![p] = r]
             m == find_max(up, r)
  <2>1. r \in T
    BY <1>4, <1>6
  <2>2. /\ \A x \in T : pos[x] \in Int /\ lo[x] \in Int /\ hi[x] \in Int
                        /\ lo[x] <= pos[x] /\ pos[x] <= hi[x] /\ <<x, "r">> \in Places
    BY <1>1, NumberedTypes DEF Numbered, Places, Sides
  <2>3. lo[r] = lo[n] /\ hi[r] = pos[n] - 1
    <3>1. lo[r] = From(pos, lo, <<n, "l">>) /\ hi[r] = Upto(pos, hi, <<n, "l">>)
      BY <1>1, <1>3, <1>4, <1>6 DEF Numbered, Filled
    <3> QED BY <3>1 DEF From, Upto
  <2>4. ASSUME NEW x \in T, lo[r] <= pos[x], pos[x] <= hi[r]
        PROVE  up[<<x, "r">>] = child[<<x, "r">>]
    <3>1. p # <<x, "r">>
      <4> SUFFICES ASSUME p = <<x, "r">> PROVE FALSE
        OBVIOUS
      <4>1. lo[n] = From(pos, lo, p)
        BY <1>1, <1>2, <1>4 DEF Numbered, Filled
      <4>2. lo[n] = pos[x] + 1
        BY <4>1 DEF From
      <4> QED BY <4>2, <2>2, <2>3, <2>4, <1>2
    <3>2. child \in Trees
      BY <1>1 DEF Numbered
    <3> QED BY <3>1, <3>2, <2>2 DEF Trees
  <2>5. up = [child EXCEPT ![p] = r]
    OBVIOUS
  <2> HIDE DEF up
  <2>6. /\ m \in T /\ hi[m] = hi[r] /\ lo[r] <= pos[m] /\ pos[m] <= hi[r]
        /\ child[<<m, "r">>] = NoNode
    BY <1>1, <2>1, <2>4, FindMax
  <2>7. Grafted(p) = [up EXCEPT ![<<m, "r">>] = f]
    BY <1>6, <1>2, <1>3, <2>5 DEF Grafted
  <2> HIDE DEF m
  <2>8. IsTree(Cleared([[child EXCEPT ![p] = r] EXCEPT ![<<m, "r">>] = f], n), T \ {n})
    BY <1>1, <1>2, <1>3, <2>1, <2>6, GraftedBoth
  <2> QED BY <2>5, <2>7, <2>8, <1>2
<1> QED BY <1>5, <1>6

(***************************************************************************)
(* Work in place p leaves what is below p where it is, and the nodes not   *)
(* below p as they are.                                                    *)
(***************************************************************************)
EvenAt(c, n) ==
  Cardinality(Below(c, <<n, "l">>)) - Cardinality(Below(c, <<n, "r">>)) \in -1 .. 1

WorksIn(c, c2, T, p) ==
  /\ Below(c2, p) = Below(c, p)
  /\ \A x \in T : x \notin Below(c, p) => EvenAt(c2, x) = EvenAt(c, x)
  /\ \A x \in T, q \in Arms(T) :
       x \in Below(c, q) => x \in Below(c2, q) \/ x \in Below(c, p)

LEMMA TurnWorksIn ==
  ASSUME NEW c, NEW T, NEW pos, NEW lo, NEW hi, Numbered(c, T, pos, lo, hi),
         NEW c2, NEW lo2, NEW hi2, Numbered(c2, T, pos, lo2, hi2),
         NEW p \in Arms(T),
         \A x \in T : ~(From(pos, lo, p) <= pos[x] /\ pos[x] <= Upto(pos, hi, p)) =>
                        lo2[x] = lo[x] /\ hi2[x] = hi[x],
         From(pos, lo2, p) = From(pos, lo, p), Upto(pos, hi2, p) = Upto(pos, hi, p)
  PROVE  WorksIn(c, c2, T, p)
<1>1. \A q \in Arms(T) : /\ Below(c, q) = Inside(T, pos, lo, hi, q)
                         /\ Below(c2, q) = Inside(T, pos, lo2, hi2, q)
  BY BelowIs
<1>2. Below(c2, p) = Below(c, p)
  BY <1>1 DEF Inside
<1>3. \A x \in T, d \in Sides : <<x, d>> \in Arms(T)
  BY NumberedTypes
<1>4. ASSUME NEW x \in T, x \notin Below(c, p), NEW d \in Sides
      PROVE  Below(c2, <<x, d>>) = Below(c, <<x, d>>)
  <2>1. lo2[x] = lo[x] /\ hi2[x] = hi[x]
    BY <1>1, <1>4 DEF Inside
  <2>2. From(pos, lo2, <<x, d>>) = From(pos, lo, <<x, d>>) /\ Upto(pos, hi2, <<x, d>>) = Upto(pos, hi, <<x, d>>)
    BY <2>1 DEF From, Upto
  <2> QED BY <2>2, <1>1, <1>3 DEF Inside
<1>5. ASSUME NEW x \in T, x \notin Below(c, p)
      PROVE  EvenAt(c2, x) = EvenAt(c, x)
  BY <1>4, <1>5 DEF EvenAt, Sides
<1>6. ASSUME NEW x \in T, NEW q \in Arms(T), x \in Below(c, q), x \notin Below(c, p)
      PROVE  x \in Below(c2, q)
  <2>1. CASE q = Tree
    BY <2>1, AllIsBelow
  <2>2. ASSUME NEW y \in T, NEW d \in Sides, q = <<y, d>> PROVE x \in Below(c2, q)
    <3>1. CASE y \in Below(c, p)
      <4>1. From(pos, lo, p) <= pos[y] /\ pos[y] <= Upto(pos, hi, p) /\ y \in Inside(T, pos, lo, hi, p)
        BY <3>1, <1>1 DEF Inside
      <4> DEFINE r == c[p]
      <4>2. r \in T /\ lo[r] = From(pos, lo, p) /\ hi[r] = Upto(pos, hi, p)
        BY <4>1, Descend
      <4> HIDE DEF r
      <4>3. lo[r] <= lo[y] /\ hi[y] <= hi[r]
        BY <4>1, <4>2, NestedIn
      <4>4. From(pos, lo, q) <= pos[x] /\ pos[x] <= Upto(pos, hi, q)
        BY <1>1, <1>6 DEF Inside
      <4>5. lo[y] <= pos[x] /\ pos[x] <= hi[y]
        <5>1. \/ From(pos, lo, q) = lo[y] /\ Upto(pos, hi, q) = pos[y] - 1
              \/ From(pos, lo, q) = pos[y] + 1 /\ Upto(pos, hi, q) = hi[y]
          BY <2>2 DEF From, Upto, Sides
        <5>2. /\ pos[y] \in Int /\ lo[y] \in Int /\ hi[y] \in Int /\ pos[x] \in Int
              /\ lo[y] <= pos[y] /\ pos[y] <= hi[y]
          BY NumberedTypes
        <5> QED BY <5>1, <5>2, <4>4
      <4>6. /\ lo[y] \in Int /\ hi[y] \in Int /\ pos[x] \in Int /\ lo[r] \in Int /\ hi[r] \in Int
        BY <4>2, NumberedTypes
      <4>7. lo[r] <= pos[x] /\ pos[x] <= hi[r]
        BY <4>3, <4>5, <4>6
      <4>8. x \in Below(c, p)
        BY <4>2, <4>7, <1>1 DEF Inside
      <4> QED BY <4>8, <1>6
    <3>2. CASE y \notin Below(c, p)
      BY <3>2, <2>2, <1>4, <1>6
    <3> QED BY <3>1, <3>2
  <2> QED BY <2>1, <2>2 DEF Arms
<1> QED BY <1>2, <1>5, <1>6 DEF WorksIn

LEMMA TurnLeftKeeps ==
  ASSUME NEW T, IsTree(child, T), NEW p \in Arms(T), child[p] \in T,
         child[<<child[p], "r">>] # NoNode
  PROVE  /\ IsTree(turnleft(p), T) /\ WorksIn(child, turnleft(p), T, p)
         /\ ClosesIn(child, turnleft(p), T, child[p], "r")
<1>1. PICK pos \in Numbers, lo \in Numbers, hi \in Numbers : Numbered(child, T, pos, lo, hi)
  BY DEF IsTree
<1> DEFINE n == child[p]
           r == child[<<n, "r">>]
           up == [child EXCEPT ![p] = r, ![<<n, "r">>] = NoNode]
           m == find_min(up, r)
<1>2. n \in T /\ n = child[p]
  OBVIOUS
<1>3. r # NoNode
  OBVIOUS
<1> HIDE DEF n
<1>4. <<n, "r">> \in Arms(T) /\ r \in T /\ n # NoNode
  <2>1. <<n, "r">> \in Arms(T) /\ n # NoNode
    BY <1>1, <1>2, NumberedTypes DEF Sides, Arms
  <2>2. child[<<n, "r">>] \in T \cup {NoNode}
    BY <2>1, <1>1, NumberedTypes
  <2> QED BY <2>1, <2>2, <1>3
<1>5. \A x \in T : pos[x] \in Int /\ lo[x] \in Int /\ hi[x] \in Int
                   /\ lo[x] <= pos[x] /\ pos[x] <= hi[x]
  BY <1>1, NumberedTypes
<1>19. \A x \in T : <<x, "l">> \in Places
  BY <1>1 DEF Numbered, Places, Sides
<1>6. /\ lo[r] = pos[n] + 1 /\ hi[r] = hi[n]
      /\ lo[n] = From(pos, lo, p) /\ hi[n] = Upto(pos, hi, p)
  <2>1. lo[r] = From(pos, lo, <<n, "r">>) /\ hi[r] = Upto(pos, hi, <<n, "r">>)
    BY <1>1, <1>3, <1>4 DEF Numbered, Filled
  <2>2. lo[n] = From(pos, lo, p) /\ hi[n] = Upto(pos, hi, p)
    BY <1>1, <1>2, <1>4 DEF Numbered, Filled
  <2> QED BY <2>1, <2>2 DEF From, Upto
<1>7. ASSUME NEW x \in T, lo[r] <= pos[x], pos[x] <= hi[r]
      PROVE  up[<<x, "l">>] = child[<<x, "l">>]
  <2>1. p # <<x, "l">>
    <3> SUFFICES ASSUME p = <<x, "l">> PROVE FALSE
      OBVIOUS
    <3>1. hi[n] = pos[x] - 1
      BY <1>6 DEF Upto
    <3> QED BY <3>1, <1>2, <1>4, <1>5, <1>6, <1>7
  <2>2. child \in Trees
    BY <1>1 DEF Numbered
  <2> QED BY <2>1, <2>2, <1>19 DEF Trees
<1> HIDE DEF up, r
<1>8. /\ m \in T /\ lo[m] = lo[r] /\ lo[r] <= pos[m] /\ pos[m] <= hi[r]
      /\ child[<<m, "l">>] = NoNode
  BY <1>1, <1>4, <1>7, FindMin
<1> HIDE DEF m
<1>9. r = child[<<n, "r">>]
  BY DEF r
<1> DEFINE lo2 == [x \in Named |-> IF x \in T /\ lo[x] = pos[n] + 1 THEN lo[n] ELSE lo[x]]
           hi2 == [hi EXCEPT ![n] = pos[m] - 1]
           c2 == [[child EXCEPT ![p] = r, ![<<n, "r">>] = NoNode] EXCEPT ![<<m, "l">>] = n]
<1>10. Numbered(c2, T, pos, lo2, hi2)
  BY <1>1, <1>2, <1>4, <1>8, <1>9, TurnedLeft
<1>11. c2 = turnleft(p)
  BY DEF turnleft, n, m, up, r
<1>12. \A x \in T : /\ lo2[x] = IF lo[x] = pos[n] + 1 THEN lo[n] ELSE lo[x]
                    /\ hi2[x] = IF x = n THEN pos[m] - 1 ELSE hi[x]
  <2>1. \A x \in T : x \in Named /\ hi \in Numbers
    BY <1>1 DEF Numbered, Named
  <2> QED BY <2>1 DEF Numbers
<1>14. lo2[NoNode] = lo[NoNode]
  BY <1>1, NumberedTypes DEF Numbered, Named
<1> HIDE DEF lo2, hi2, c2
<1>13. ASSUME NEW x \in T, ~(lo[n] <= pos[x] /\ pos[x] <= hi[n])
       PROVE  lo2[x] = lo[x] /\ hi2[x] = hi[x]
  <2>1. x # n
    BY <1>5, <1>13, <1>2
  <2>2. lo[x] # pos[n] + 1
    <3> SUFFICES ASSUME lo[x] = pos[n] + 1 PROVE FALSE
      OBVIOUS
    <3>1. pos[n] < pos[x]
      BY <1>2, <1>5
    <3>2. \/ hi[n] + 1 < lo[x]
          \/ pos[n] < lo[x] /\ hi[x] <= hi[n]
          \/ hi[n] < pos[x] /\ lo[x] <= lo[n]
      BY <1>1, <1>2, <3>1 DEF Numbered, Nested
    <3>3. /\ lo[n] \in Int /\ pos[n] \in Int /\ hi[n] \in Int /\ lo[n] <= pos[n]
          /\ lo[x] \in Int /\ pos[x] \in Int /\ hi[x] \in Int /\ pos[x] <= hi[x]
          /\ pos[n] + 1 <= hi[n]
      BY <1>2, <1>4, <1>5, <1>6
    <3> QED BY <3>1, <3>2, <3>3, <1>13
  <2> QED BY <2>1, <2>2, <1>12
<1>15. From(pos, lo2, p) = From(pos, lo, p) /\ Upto(pos, hi2, p) = Upto(pos, hi, p)
  <2>1. CASE p = Tree
    BY <2>1, <1>14 DEF From, Upto, Tree
  <2>2. ASSUME NEW x \in T, p = <<x, "l">> \/ p = <<x, "r">>
        PROVE  From(pos, lo2, p) = From(pos, lo, p) /\ Upto(pos, hi2, p) = Upto(pos, hi, p)
    <3>1. \/ lo[n] = lo[x] /\ hi[n] = pos[x] - 1
          \/ lo[n] = pos[x] + 1 /\ hi[n] = hi[x]
      BY <2>2, <1>6 DEF From, Upto
    <3>2. ~(lo[n] <= pos[x] /\ pos[x] <= hi[n])
      <4>1. pos[x] \in Int
        BY <1>5
      <4> QED BY <3>1, <4>1
    <3>3. lo2[x] = lo[x] /\ hi2[x] = hi[x]
      BY <3>2, <1>13
    <3> QED BY <2>2, <3>3 DEF From, Upto
  <2> QED BY <2>1, <2>2, ArmCases
<1>16. IsTree(c2, T)
  BY <1>10 DEF IsTree, Numbered
<1>17. \A x \in T : ~(From(pos, lo, p) <= pos[x] /\ pos[x] <= Upto(pos, hi, p)) =>
                      lo2[x] = lo[x] /\ hi2[x] = hi[x]
  BY <1>6, <1>13
<1>18. WorksIn(child, c2, T, p)
  BY <1>1, <1>10, <1>15, <1>17, TurnWorksIn
<1>20. ASSUME NEW x \in Inside(T, pos, lo, hi, <<n, "r">>)
       PROVE  /\ ~(lo2[n] <= pos[x] /\ pos[x] <= hi2[n])
              /\ \A y \in T \ {n} : lo2[y] <= pos[x] /\ pos[x] <= hi2[y]
                                    <=> lo[y] <= pos[x] /\ pos[x] <= hi[y]
  <2>1. x \in T /\ pos[n] + 1 <= pos[x] /\ pos[x] <= hi[n]
    BY DEF Inside, From, Upto
  <2>2. pos[x] < lo[m] \/ pos[m] - 1 < pos[x]
    <3>1. <<m, "l">> \in Arms(T)
      BY <1>8 DEF Arms, Sides
    <3>2. pos[x] < From(pos, lo, <<m, "l">>) \/ Upto(pos, hi, <<m, "l">>) < pos[x]
      BY <3>1, <2>1, <1>1, <1>8 DEF Numbered, Vacant
    <3> QED BY <3>2 DEF From, Upto
  <2>3. /\ pos[x] \in Int /\ pos[n] \in Int /\ lo[n] \in Int /\ pos[m] \in Int /\ lo[m] = pos[n] + 1
        /\ lo[n] <= pos[n]
    BY <2>1, <1>2, <1>5, <1>6, <1>8
  <2>4. ~(pos[x] <= hi2[n])
    BY <2>1, <2>2, <2>3, <1>2, <1>12
  <2>5. ASSUME NEW y \in T \ {n}
        PROVE  lo2[y] <= pos[x] /\ pos[x] <= hi2[y] <=> lo[y] <= pos[x] /\ pos[x] <= hi[y]
    <3>1. hi2[y] = hi[y] /\ lo2[y] = IF lo[y] = pos[n] + 1 THEN lo[n] ELSE lo[y]
      BY <1>12
    <3>2. lo[y] \in Int
      BY <1>5
    <3>3. lo2[y] <= pos[x] <=> lo[y] <= pos[x]
      BY <3>1, <3>2, <2>1, <2>3
    <3> QED BY <3>1, <3>3
  <2> QED BY <2>4, <2>5
<1>21. ClosesIn(child, c2, T, n, "r")
  <2>1. "r" \in Sides
    BY DEF Sides
  <2> QED BY <1>1, <1>2, <1>10, <1>20, <2>1, TurnClosesIn
<1> QED BY <1>11, <1>16, <1>18, <1>21, <1>2

LEMMA TurnRightKeeps ==
  ASSUME NEW T, IsTree(child, T), NEW p \in Arms(T), child[p] \in T,
         child[<<child[p], "l">>] # NoNode
  PROVE  /\ IsTree(turnright(p), T) /\ WorksIn(child, turnright(p), T, p)
         /\ ClosesIn(child, turnright(p), T, child[p], "l")
<1>1. PICK pos \in Numbers, lo \in Numbers, hi \in Numbers : Numbered(child, T, pos, lo, hi)
  BY DEF IsTree
<1> DEFINE n == child[p]
           r == child[<<n, "l">>]
           up == [child EXCEPT ![p] = r, ![<<n, "l">>] = NoNode]
           m == find_max(up, r)
<1>2. n \in T /\ n = child[p]
  OBVIOUS
<1>3. r # NoNode
  OBVIOUS
<1> HIDE DEF n
<1>4. <<n, "l">> \in Arms(T) /\ r \in T /\ n # NoNode
  <2>1. <<n, "l">> \in Arms(T) /\ n # NoNode
    BY <1>1, <1>2, NumberedTypes DEF Sides, Arms
  <2>2. child[<<n, "l">>] \in T \cup {NoNode}
    BY <2>1, <1>1, NumberedTypes
  <2> QED BY <2>1, <2>2, <1>3
<1>5. \A x \in T : pos[x] \in Int /\ lo[x] \in Int /\ hi[x] \in Int
                   /\ lo[x] <= pos[x] /\ pos[x] <= hi[x]
  BY <1>1, NumberedTypes
<1>19. \A x \in T : <<x, "r">> \in Places
  BY <1>1 DEF Numbered, Places, Sides
<1>6. /\ lo[r] = lo[n] /\ hi[r] = pos[n] - 1
      /\ lo[n] = From(pos, lo, p) /\ hi[n] = Upto(pos, hi, p)
  <2>1. lo[r] = From(pos, lo, <<n, "l">>) /\ hi[r] = Upto(pos, hi, <<n, "l">>)
    BY <1>1, <1>3, <1>4 DEF Numbered, Filled
  <2>2. lo[n] = From(pos, lo, p) /\ hi[n] = Upto(pos, hi, p)
    BY <1>1, <1>2, <1>4 DEF Numbered, Filled
  <2> QED BY <2>1, <2>2 DEF From, Upto
<1>7. ASSUME NEW x \in T, lo[r] <= pos[x], pos[x] <= hi[r]
      PROVE  up[<<x, "r">>] = child[<<x, "r">>]
  <2>1. p # <<x, "r">>
    <3> SUFFICES ASSUME p = <<x, "r">> PROVE FALSE
      OBVIOUS
    <3>1. lo[n] = pos[x] + 1
      BY <1>6 DEF From
    <3> QED BY <3>1, <1>2, <1>4, <1>5, <1>6, <1>7
  <2>2. child \in Trees
    BY <1>1 DEF Numbered
  <2> QED BY <2>1, <2>2, <1>19 DEF Trees
<1> HIDE DEF up, r
<1>8. /\ m \in T /\ hi[m] = hi[r] /\ lo[r] <= pos[m] /\ pos[m] <= hi[r]
      /\ child[<<m, "r">>] = NoNode
  BY <1>1, <1>4, <1>7, FindMax
<1> HIDE DEF m
<1>9. r = child[<<n, "l">>]
  BY DEF r
<1> DEFINE lo2 == [lo EXCEPT ![n] = pos[m] + 1]
           hi2 == [x \in Named |-> IF x \in T /\ hi[x] = pos[n] - 1 THEN hi[n] ELSE hi[x]]
           c2 == [[child EXCEPT ![p] = r, ![<<n, "l">>] = NoNode] EXCEPT ![<<m, "r">>] = n]
<1>10. Numbered(c2, T, pos, lo2, hi2)
  BY <1>1, <1>2, <1>4, <1>8, <1>9, TurnedRight
<1>11. c2 = turnright(p)
  BY DEF turnright, n, m, up, r
<1>12. \A x \in T : /\ hi2[x] = IF hi[x] = pos[n] - 1 THEN hi[n] ELSE hi[x]
                    /\ lo2[x] = IF x = n THEN pos[m] + 1 ELSE lo[x]
  <2>1. \A x \in T : x \in Named /\ lo \in Numbers
    BY <1>1 DEF Numbered, Named
  <2> QED BY <2>1 DEF Numbers
<1>14. lo2[NoNode] = lo[NoNode]
  BY <1>1, <1>2, <1>4, NumberedTypes DEF Numbered, Named
<1> HIDE DEF lo2, hi2, c2
<1>13. ASSUME NEW x \in T, ~(lo[n] <= pos[x] /\ pos[x] <= hi[n])
       PROVE  lo2[x] = lo[x] /\ hi2[x] = hi[x]
  <2>1. x # n
    BY <1>5, <1>13, <1>2
  <2>2. hi[x] # pos[n] - 1
    <3> SUFFICES ASSUME hi[x] = pos[n] - 1 PROVE FALSE
      OBVIOUS
    <3>1. pos[x] < pos[n]
      BY <1>2, <1>5
    <3>2. \/ hi[x] + 1 < lo[n]
          \/ pos[x] < lo[n] /\ hi[n] <= hi[x]
          \/ hi[x] < pos[n] /\ lo[n] <= lo[x]
      BY <1>1, <1>2, <3>1 DEF Numbered, Nested
    <3>3. /\ lo[n] \in Int /\ pos[n] \in Int /\ hi[n] \in Int /\ pos[n] <= hi[n]
          /\ lo[x] \in Int /\ pos[x] \in Int /\ hi[x] \in Int /\ lo[x] <= pos[x]
          /\ lo[n] <= pos[n] - 1
      BY <1>2, <1>4, <1>5, <1>6
    <3> QED BY <3>1, <3>2, <3>3, <1>13
  <2> QED BY <2>1, <2>2, <1>12
<1>15. From(pos, lo2, p) = From(pos, lo, p) /\ Upto(pos, hi2, p) = Upto(pos, hi, p)
  <2>1. CASE p = Tree
    BY <2>1, <1>14 DEF From, Upto, Tree
  <2>2. ASSUME NEW x \in T, p = <<x, "r">> \/ p = <<x, "l">>
        PROVE  From(pos, lo2, p) = From(pos, lo, p) /\ Upto(pos, hi2, p) = Upto(pos, hi, p)
    <3>1. \/ lo[n] = lo[x] /\ hi[n] = pos[x] - 1
          \/ lo[n] = pos[x] + 1 /\ hi[n] = hi[x]
      BY <2>2, <1>6 DEF From, Upto
    <3>2. ~(lo[n] <= pos[x] /\ pos[x] <= hi[n])
      <4>1. pos[x] \in Int
        BY <1>5
      <4> QED BY <3>1, <4>1
    <3>3. lo2[x] = lo[x] /\ hi2[x] = hi[x]
      BY <3>2, <1>13
    <3> QED BY <2>2, <3>3 DEF From, Upto
  <2> QED BY <2>1, <2>2, ArmCases
<1>16. IsTree(c2, T)
  BY <1>10 DEF IsTree, Numbered
<1>17. \A x \in T : ~(From(pos, lo, p) <= pos[x] /\ pos[x] <= Upto(pos, hi, p)) =>
                      lo2[x] = lo[x] /\ hi2[x] = hi[x]
  BY <1>6, <1>13
<1>18. WorksIn(child, c2, T, p)
  BY <1>1, <1>10, <1>15, <1>17, TurnWorksIn
<1>20. ASSUME NEW x \in Inside(T, pos, lo, hi, <<n, "l">>)
       PROVE  /\ ~(lo2[n] <= pos[x] /\ pos[x] <= hi2[n])
              /\ \A y \in T \ {n} : lo2[y] <= pos[x] /\ pos[x] <= hi2[y]
                                    <=> lo[y] <= pos[x] /\ pos[x] <= hi[y]
  <2>1. x \in T /\ lo[n] <= pos[x] /\ pos[x] <= pos[n] - 1
    BY DEF Inside, From, Upto
  <2>2. pos[x] < pos[m] + 1 \/ hi[m] < pos[x]
    <3>1. <<m, "r">> \in Arms(T)
      BY <1>8 DEF Arms, Sides
    <3>2. pos[x] < From(pos, lo, <<m, "r">>) \/ Upto(pos, hi, <<m, "r">>) < pos[x]
      BY <3>1, <2>1, <1>1, <1>8 DEF Numbered, Vacant
    <3> QED BY <3>2 DEF From, Upto
  <2>3. /\ pos[x] \in Int /\ pos[n] \in Int /\ hi[n] \in Int /\ pos[m] \in Int /\ hi[m] = pos[n] - 1
        /\ pos[n] <= hi[n]
    BY <2>1, <1>2, <1>5, <1>6, <1>8
  <2>4. ~(lo2[n] <= pos[x])
    BY <2>1, <2>2, <2>3, <1>2, <1>12
  <2>5. ASSUME NEW y \in T \ {n}
        PROVE  lo2[y] <= pos[x] /\ pos[x] <= hi2[y] <=> lo[y] <= pos[x] /\ pos[x] <= hi[y]
    <3>1. lo2[y] = lo[y] /\ hi2[y] = IF hi[y] = pos[n] - 1 THEN hi[n] ELSE hi[y]
      BY <1>12
    <3>2. hi[y] \in Int
      BY <1>5
    <3>3. pos[x] <= hi2[y] <=> pos[x] <= hi[y]
      BY <3>1, <3>2, <2>1, <2>3
    <3> QED BY <3>1, <3>3
  <2> QED BY <2>4, <2>5
<1>21. ClosesIn(child, c2, T, n, "l")
  <2>1. "l" \in Sides
    BY DEF Sides
  <2> QED BY <1>1, <1>2, <1>10, <1>20, <2>1, TurnClosesIn
<1> QED BY <1>11, <1>16, <1>18, <1>21, <1>2
-----------------------------------------------------------------------------
(***************************************************************************)
(* The tree holds what was stored, and the places still to visit are       *)
(* places of it.                                                           *)
(***************************************************************************)
Copies(T, id) == {x \in T : x.id = id}

TreeInv ==
  /\ IsTree(child, InTree)
  /\ stored \in [TreeIds -> Nat]
  /\ \A id \in TreeIds : stored[id] = Cardinality(Copies(InTree, id))
  /\ work \in Seq(Arms(InTree))

LEMMA TreeHolds ==
  ASSUME NEW c, NEW T, IsTree(c, T)
  PROVE  Below(c, Tree) = T /\ T \subseteq Students /\ IsFiniteSet(T)
<1>1. PICK pos \in Numbers, lo \in Numbers, hi \in Numbers : Numbered(c, T, pos, lo, hi)
  BY DEF IsTree
<1>2. Below(c, Tree) = T /\ T \subseteq Students
  BY <1>1, AllIsBelow DEF Numbered
<1>3. IsFiniteSet(T)
  BY <1>2, TreeAssumption, FS_Subset
<1> QED BY <1>2, <1>3

LEMMA CopiesCount ==
  ASSUME NEW T, IsFiniteSet(T), NEW id
  PROVE  /\ IsFiniteSet(Copies(T, id)) /\ Cardinality(Copies(T, id)) \in Nat
         /\ Cardinality(Copies(T, id)) = 0 <=> Copies(T, id) = {}
<1>1. IsFiniteSet(Copies(T, id))
  BY FS_Subset DEF Copies
<1> QED BY <1>1, FS_CardinalityType, FS_EmptySet

LEMMA InitTree == TreeInit => TreeInv
<1> SUFFICES ASSUME TreeInit PROVE TreeInv
  OBVIOUS
<1>1. child = [p \in Places |-> NoNode] /\ Tree \in Places
  BY DEF TreeInit, Places
<1> DEFINE one == [x \in Named |-> 1]
<1>2. one \in Numbers /\ one[NoNode] = 1
  BY DEF Numbers, Named
<1>3. child \in Trees /\ child[Tree] = NoNode
  BY <1>1 DEF Trees
<1>4. Arms({}) = {Tree}
  BY DEF Arms
<1> HIDE DEF one
<1>5. Within({}, one, one, one) /\ Apart({}, one) /\ Nested({}, one, one, one) /\ Ascending({}, one)
  BY <1>2 DEF Within, Apart, Nested, Ascending
<1>6. /\ Closed2(child, {}) /\ Vacant(child, {}, one, one, one) /\ Filled(child, {}, one, one, one)
      /\ OneArm(child, {})
  BY <1>3, <1>4 DEF Closed2, Vacant, Filled, OneArm
<1>7. IsTree(child, {})
  BY <1>2, <1>3, <1>5, <1>6 DEF IsTree, Numbered
<1>8. InTree = {}
  BY <1>7, TreeHolds DEF InTree
<1>9. \A id : Cardinality(Copies({}, id)) = 0
  BY FS_EmptySet DEF Copies
<1> QED BY <1>7, <1>8, <1>9 DEF TreeInv, TreeInit

LEMMA InsertTree == ASSUME TreeInv, NEW s \in Students, tree_insert(s) PROVE TreeInv'
<1> DEFINE T == InTree
<1>1. IsTree(child, T) /\ s \notin T /\ work = <<>> /\ work' = <<>>
  BY DEF TreeInv, tree_insert
<1>2. CASE UNCHANGED <<child, stored>>
  BY <1>1, <1>2 DEF TreeInv, InTree
<1>3. CASE /\ child' = [Cleared(child, s) EXCEPT ![InsertPlace(s.id)] = s]
           /\ stored' = [stored EXCEPT ![s.id] = @ + 1]
  <2>1. IsFiniteSet(T)
    BY <1>1, TreeHolds
  <2>2. s.id \in TreeIds /\ stored \in [TreeIds -> Nat]
        /\ \A id \in TreeIds : stored[id] = Cardinality(Copies(T, id))
    BY TreeAssumption DEF TreeInv
  <2> HIDE DEF T
  <2>3. IsTree(child', T \cup {s})
    BY <1>1, <1>3, InsertKeeps
  <2>4. InTree' = T \cup {s}
    BY <2>3, TreeHolds DEF InTree
  <2>5. ASSUME NEW id \in TreeIds
        PROVE  stored'[id] = Cardinality(Copies(T \cup {s}, id)) /\ stored'[id] \in Nat
    <3>1. CASE id = s.id
      <4>1. Copies(T \cup {s}, id) = Copies(T, id) \cup {s} /\ s \notin Copies(T, id)
        BY <3>1, <1>1 DEF Copies
      <4>2. IsFiniteSet(Copies(T, id))
        BY <2>1, CopiesCount
      <4>3. Cardinality(Copies(T, id) \cup {s}) = Cardinality(Copies(T, id)) + 1
        BY <4>1, <4>2, FS_AddElement
      <4>4. stored'[id] = stored[id] + 1
        BY <3>1, <2>2, <1>3
      <4> QED BY <4>1, <4>3, <4>4, <2>2
    <3>2. CASE id # s.id
      <4>1. Copies(T \cup {s}, id) = Copies(T, id)
        BY <3>2 DEF Copies
      <4> QED BY <4>1, <3>2, <2>2, <1>3
    <3> QED BY <3>1, <3>2
  <2>6. stored' \in [TreeIds -> Nat]
    BY <2>2, <1>3
  <2>7. work' \in Seq(Arms(InTree'))
    BY <1>1
  <2>8. \A id \in TreeIds : stored'[id] = Cardinality(Copies(InTree', id))
    BY <2>4, <2>5
  <2> QED BY <2>3, <2>4, <2>6, <2>7, <2>8 DEF TreeInv
<1> QED BY <1>2, <1>3 DEF tree_insert

LEMMA DeleteTree == ASSUME TreeInv, NEW id \in TreeIds, tree_delete(id) PROVE TreeInv'
<1> DEFINE T == InTree
<1>1. IsTree(child, T) /\ work = <<>> /\ work' = <<>>
  BY DEF TreeInv, tree_delete
<1>2. /\ stored \in [TreeIds -> Nat]
      /\ \A d \in TreeIds : stored[d] = Cardinality(Copies(T, d))
      /\ stored' = [stored EXCEPT ![id] = IF stored[id] = 0 THEN 0 ELSE stored[id] - 1]
  BY DEF TreeInv, tree_delete
<1>3. IsFiniteSet(T)
  BY <1>1, TreeHolds
<1>4. T = InTree
  OBVIOUS
<1> HIDE DEF T
<1>5. PICK pos \in Numbers, lo \in Numbers, hi \in Numbers : Numbered(child, T, pos, lo, hi)
  BY <1>1 DEF IsTree
<1>6. stored' \in [TreeIds -> Nat]
  BY <1>2
<1>7. CASE tree_find(id)
  <2> DEFINE p == FoundPlace(id)
             n == child[p]
  <2>1. p \in Arms(T) /\ n \in T /\ n.id = id
    BY <1>5, <1>7, SearchIs
  <2>2. child' = Cleared(Grafted(p), n)
    BY <1>7 DEF tree_delete
  <2> HIDE DEF p
  <2>3. IsTree(child', T \ {n})
    BY <1>1, <2>1, <2>2, DeleteKeeps
  <2> HIDE DEF n
  <2>4. InTree' = T \ {n}
    BY <2>3, TreeHolds DEF InTree
  <2>5. ASSUME NEW d \in TreeIds PROVE stored'[d] = Cardinality(Copies(T \ {n}, d))
    <3>1. CASE d = id
      <4>1. Copies(T \ {n}, d) = Copies(T, d) \ {n} /\ n \in Copies(T, d)
        BY <3>1, <2>1 DEF Copies
      <4>2. IsFiniteSet(Copies(T, d)) /\ Cardinality(Copies(T, d)) # 0
        BY <1>3, <4>1, CopiesCount
      <4>3. Cardinality(Copies(T, d) \ {n}) = Cardinality(Copies(T, d)) - 1
        BY <4>1, <4>2, FS_RemoveElement
      <4>4. stored'[d] = stored[d] - 1
        BY <3>1, <1>2, <4>2
      <4> QED BY <4>1, <4>3, <4>4, <1>2
    <3>2. CASE d # id
      <4>1. Copies(T \ {n}, d) = Copies(T, d)
        BY <3>2, <2>1 DEF Copies
      <4> QED BY <4>1, <3>2, <1>2
    <3> QED BY <3>1, <3>2
  <2>6. work' \in Seq(Arms(InTree'))
    BY <1>1
  <2>7. \A d \in TreeIds : stored'[d] = Cardinality(Copies(InTree', d))
    BY <2>4, <2>5
  <2> QED BY <2>3, <2>4, <2>6, <2>7, <1>6 DEF TreeInv
<1>8. CASE ~tree_find(id)
  <2>1. child' = child
    BY <1>8 DEF tree_delete
  <2>2. Copies(T, id) = {}
    BY <1>5, <1>8, SearchIs DEF Copies
  <2>3. stored[id] = 0
    BY <2>2, <1>2, <1>3, CopiesCount
  <2>4. stored' = stored
    BY <2>3, <1>2
  <2> QED BY <2>1, <2>4, <1>1 DEF TreeInv, InTree
<1> QED BY <1>7, <1>8

LEMMA NoneBelowNothing ==
  ASSUME NEW c, NEW p, c[p] = NoNode PROVE Below(c, p) = {} /\ Cardinality(Below(c, p)) = 0
<1>1. Below(c, p) = {}
  BY DEF Below
<1> QED BY <1>1, FS_EmptySet

LEMMA BelowCounts ==
  ASSUME NEW c, NEW p PROVE Cardinality(Below(c, p)) \in Nat
<1>1. Below(c, p) \subseteq Students
  BY DEF Below
<1>2. IsFiniteSet(Below(c, p))
  BY <1>1, TreeAssumption, FS_Subset
<1> QED BY <1>2, FS_CardinalityType

LEMMA BalanceStepDoes ==
  ASSUME TreeInv, BalanceStep
  PROVE  LET p == Head(work)
             n == child[p]
         IN /\ p \in Arms(InTree) /\ work # <<>> /\ Tail(work) \in Seq(Arms(InTree))
            /\ stored' = stored
            /\ \/ n = NoNode /\ child' = child /\ work' = Tail(work)
               \/ /\ n \in InTree /\ child' = child /\ EvenAt(child, n)
                  /\ work' = << <<n, "l">>, <<n, "r">> >> \o Tail(work)
               \/ /\ work' = work /\ n \in InTree
                  /\ IsTree(child', InTree) /\ WorksIn(child, child', InTree, p)
                  /\ \/ /\ Cardinality(Below(child, <<n, "l">>)) + 1 < Cardinality(Below(child, <<n, "r">>))
                        /\ ClosesIn(child, child', InTree, n, "r")
                     \/ /\ Cardinality(Below(child, <<n, "r">>)) + 1 < Cardinality(Below(child, <<n, "l">>))
                        /\ ClosesIn(child, child', InTree, n, "l")
<1> DEFINE p == Head(work)
           n == child[p]
           L == Cardinality(Below(child, <<n, "l">>))
           R == Cardinality(Below(child, <<n, "r">>))
<1>1. /\ p \in Arms(InTree) /\ work # <<>> /\ Tail(work) \in Seq(Arms(InTree))
      /\ stored' = stored /\ IsTree(child, InTree)
  BY DEF TreeInv, BalanceStep
<1>2. n \in InTree \cup {NoNode}
  BY <1>1, NumberedTypes DEF IsTree
<1>3. \/ n = NoNode /\ work' = Tail(work) /\ child' = child
      \/ /\ n # NoNode /\ L - R \in -1 .. 1
         /\ work' = << <<n, "l">>, <<n, "r">> >> \o Tail(work) /\ child' = child
      \/ /\ n # NoNode /\ ~(L - R \in -1 .. 1) /\ work' = work
         /\ child' = IF L < R THEN turnleft(p) ELSE turnright(p)
  BY DEF BalanceStep, Even, getnum
<1>4. L \in Nat /\ R \in Nat
  BY BelowCounts
<1>5. /\ child[<<n, "l">>] = NoNode => L = 0
      /\ child[<<n, "r">>] = NoNode => R = 0
  BY NoneBelowNothing
<1>6. L - R \in -1 .. 1 <=> EvenAt(child, n)
  BY DEF EvenAt
<1> HIDE DEF L, R
<1>7. CASE n # NoNode /\ ~(L - R \in -1 .. 1) /\ work' = work
           /\ child' = IF L < R THEN turnleft(p) ELSE turnright(p)
  <2>1. n \in InTree
    BY <1>2, <1>7
  <2>2. CASE L < R
    <3>1. child[<<n, "r">>] # NoNode
      BY <2>2, <1>4, <1>5
    <3>2. child' = turnleft(p)
      BY <2>2, <1>7
    <3> HIDE DEF p
    <3>3. /\ IsTree(turnleft(p), InTree) /\ WorksIn(child, turnleft(p), InTree, p)
          /\ ClosesIn(child, turnleft(p), InTree, child[p], "r")
      BY <3>1, <2>1, <1>1, TurnLeftKeeps
    <3>4. L + 1 < R
      BY <2>2, <1>4, <1>7
    <3> QED BY <2>1, <3>2, <3>3, <3>4, <1>1, <1>7 DEF p, L, R
  <2>3. CASE ~(L < R)
    <3>1. child[<<n, "l">>] # NoNode
      BY <2>3, <1>4, <1>5, <1>7
    <3>2. child' = turnright(p)
      BY <2>3, <1>7
    <3> HIDE DEF p
    <3>3. /\ IsTree(turnright(p), InTree) /\ WorksIn(child, turnright(p), InTree, p)
          /\ ClosesIn(child, turnright(p), InTree, child[p], "l")
      BY <3>1, <2>1, <1>1, TurnRightKeeps
    <3>4. R + 1 < L
      BY <2>3, <1>4, <1>7
    <3> QED BY <2>1, <3>2, <3>3, <3>4, <1>1, <1>7 DEF p, L, R
  <2> QED BY <2>2, <2>3
<1>8. CASE n = NoNode /\ work' = Tail(work) /\ child' = child
  BY <1>8, <1>1
<1>9. CASE /\ n # NoNode /\ L - R \in -1 .. 1
           /\ work' = << <<n, "l">>, <<n, "r">> >> \o Tail(work) /\ child' = child
  BY <1>9, <1>1, <1>2, <1>6
<1> QED BY <1>3, <1>7, <1>8, <1>9

LEMMA BalanceTree == ASSUME TreeInv, BalanceStep PROVE TreeInv'
<1> DEFINE p == Head(work)
           n == child[p]
           T == InTree
<1>1. /\ Tail(work) \in Seq(Arms(T)) /\ work \in Seq(Arms(T)) /\ stored' = stored
      /\ IsTree(child, T)
      /\ stored \in [TreeIds -> Nat]
      /\ \A id \in TreeIds : stored[id] = Cardinality(Copies(T, id))
      /\ \/ n = NoNode /\ child' = child /\ work' = Tail(work)
         \/ /\ n \in T /\ child' = child
            /\ work' = << <<n, "l">>, <<n, "r">> >> \o Tail(work)
         \/ work' = work /\ IsTree(child', T)
  BY BalanceStepDoes DEF TreeInv
<1> HIDE DEF T, n
<1>2. IsTree(child', T)
  BY <1>1
<1>3. InTree' = T
  BY <1>2, TreeHolds DEF InTree
<1>4. work' \in Seq(Arms(T))
  <2>1. CASE n \in T /\ work' = << <<n, "l">>, <<n, "r">> >> \o Tail(work)
    <3>1. <<n, "l">> \in Arms(T) /\ <<n, "r">> \in Arms(T)
      BY <2>1 DEF Arms, Sides
    <3>2. << <<n, "l">>, <<n, "r">> >> \in Seq(Arms(T))
      BY <3>1
    <3> QED BY <3>2, <2>1, <1>1
  <2> QED BY <2>1, <1>1
<1> QED BY <1>1, <1>2, <1>3, <1>4 DEF TreeInv

LEMMA TreeStepInv == TreeInv /\ [TreeNext]_treeVars => TreeInv'
<1> SUFFICES ASSUME TreeInv, [TreeNext]_treeVars PROVE TreeInv'
  OBVIOUS
<1>1. ASSUME NEW s \in Students, tree_insert(s) PROVE TreeInv'
  BY <1>1, InsertTree
<1>2. ASSUME NEW id \in TreeIds, tree_delete(id) PROVE TreeInv'
  BY <1>2, DeleteTree
<1>3. CASE tree_balance
  <2>1. Tree \in Arms(InTree)
    BY DEF Arms
  <2> QED BY <1>3, <2>1 DEF tree_balance, TreeInv, InTree
<1>4. CASE BalanceStep
  BY <1>4, BalanceTree
<1>5. CASE UNCHANGED treeVars
  BY <1>5 DEF treeVars, TreeInv, InTree
<1> QED BY <1>1, <1>2, <1>3, <1>4, <1>5 DEF TreeNext

LEMMA TreeAlways == TreeSpec => []TreeInv
<1> QED BY InitTree, TreeStepInv, PTL DEF TreeSpec

LEMMA SortedBy == TreeInv => TreeIsSorted
<1> SUFFICES ASSUME TreeInv PROVE TreeIsSorted
  OBVIOUS
<1>1. PICK pos \in Numbers, lo \in Numbers, hi \in Numbers : Numbered(child, InTree, pos, lo, hi)
  BY DEF TreeInv, IsTree
<1>2. ASSUME NEW n \in InTree
      PROVE  LET left == Below(child, <<n, "l">>)
                 right == Below(child, <<n, "r">>)
             IN /\ n \notin left \cup right /\ left \cap right = {}
                /\ \A x \in left : x.id <= n.id
                /\ \A x \in right : n.id <= x.id
  <2> DEFINE left == Below(child, <<n, "l">>)
             right == Below(child, <<n, "r">>)
  <2>1. <<n, "l">> \in Arms(InTree) /\ <<n, "r">> \in Arms(InTree)
    BY DEF Arms, Sides
  <2>2. /\ left = Inside(InTree, pos, lo, hi, <<n, "l">>)
        /\ right = Inside(InTree, pos, lo, hi, <<n, "r">>)
    BY <2>1, <1>1, BelowIs
  <2>3. /\ \A x \in left : x \in InTree /\ pos[x] <= pos[n] - 1
        /\ \A x \in right : x \in InTree /\ pos[n] + 1 <= pos[x]
    BY <2>2 DEF Inside, From, Upto
  <2>4. \A x \in InTree : pos[x] \in Int
    BY <1>1, NumberedTypes
  <2> HIDE DEF left, right
  <2>5. /\ \A x \in left : x \in InTree /\ pos[x] < pos[n]
        /\ \A x \in right : x \in InTree /\ pos[n] < pos[x]
    BY <2>3, <2>4
  <2>6. n \notin left \cup right /\ left \cap right = {}
    BY <2>5, <2>4
  <2>7. /\ \A x \in left : x.id <= n.id
        /\ \A x \in right : n.id <= x.id
    BY <2>5, <1>1 DEF Numbered, Ascending
  <2> QED BY <2>6, <2>7 DEF left, right
<1>3. ASSUME NEW id \in TreeIds
      PROVE  /\ stored[id] = Cardinality({n \in InTree : n.id = id})
             /\ tree_find(id) <=> stored[id] > 0
  <2>1. stored[id] = Cardinality(Copies(InTree, id)) /\ IsFiniteSet(InTree)
    BY TreeHolds DEF TreeInv
  <2>2. tree_find(id) <=> Copies(InTree, id) # {}
    BY <1>1, SearchIs DEF Copies
  <2>3. stored[id] \in Nat /\ (stored[id] = 0 <=> Copies(InTree, id) = {})
    BY <2>1, CopiesCount
  <2>4. tree_find(id) <=> stored[id] > 0
    BY <2>2, <2>3
  <2> QED BY <2>1, <2>4 DEF Copies
<1> QED BY <1>2, <1>3 DEF TreeIsSorted

(* Whatever is inserted, deleted and turned, duplicates and refused nodes  *)
(* included, the links stay a tree that holds each id as often as it was   *)
(* inserted and not deleted, sorted to both sides of every node, and a     *)
(* search finds exactly what is there.                                     *)
THEOREM TreeStaysSorted == TreeSpec => []TreeIsSorted
<1> QED BY TreeAlways, SortedBy, PTL
-----------------------------------------------------------------------------
(***************************************************************************)
(* What is uneven is below a place still to visit.                         *)
(***************************************************************************)
Pending(c, w, x) == EvenAt(c, x) \/ \E i \in 1 .. Len(w) : x \in Below(c, w[i])

EvenInv ==
  /\ settled => work = <<>>
  /\ settled \/ work # <<>> => \A x \in InTree : Pending(child, work, x)

(* A node below a place is in it, or below a side of the node in it.       *)
LEMMA BelowSplits ==
  ASSUME NEW c, NEW T, IsTree(c, T), NEW p \in Arms(T), NEW x \in T, x \in Below(c, p)
  PROVE  /\ c[p] \in T
         /\ x = c[p] \/ x \in Below(c, <<c[p], "l">>) \/ x \in Below(c, <<c[p], "r">>)
<1> DEFINE n == c[p]
<1>1. PICK pos \in Numbers, lo \in Numbers, hi \in Numbers : Numbered(c, T, pos, lo, hi)
  BY DEF IsTree
<1>2. x \in Inside(T, pos, lo, hi, p)
  BY <1>1, BelowIs
<1>3. n \in T /\ lo[n] = From(pos, lo, p) /\ hi[n] = Upto(pos, hi, p)
  BY <1>1, <1>2, Descend
<1>4. lo[n] <= pos[x] /\ pos[x] <= hi[n]
  BY <1>2, <1>3 DEF Inside
<1> HIDE DEF n
<1>5. /\ pos[x] \in Int /\ pos[n] \in Int /\ lo[n] \in Int /\ hi[n] \in Int
      /\ pos[x] = pos[n] => x = n
  BY <1>1, <1>3, NumberedTypes DEF Numbered, Apart
<1>6. \/ x = n
      \/ lo[n] <= pos[x] /\ pos[x] <= pos[n] - 1
      \/ pos[n] + 1 <= pos[x] /\ pos[x] <= hi[n]
  BY <1>4, <1>5
<1>7. /\ Below(c, <<n, "l">>) = Inside(T, pos, lo, hi, <<n, "l">>)
      /\ Below(c, <<n, "r">>) = Inside(T, pos, lo, hi, <<n, "r">>)
  <2>1. <<n, "l">> \in Arms(T) /\ <<n, "r">> \in Arms(T)
    BY <1>3 DEF Arms, Sides
  <2> QED BY <2>1, <1>1, BelowIs
<1>8. x = n \/ x \in Below(c, <<n, "l">>) \/ x \in Below(c, <<n, "r">>)
  BY <1>6, <1>7 DEF Inside, From, Upto
<1> QED BY <1>3, <1>8 DEF n

LEMMA EvenBalance ==
  ASSUME TreeInv, EvenInv, BalanceStep, NEW x \in InTree
  PROVE  Pending(child', work', x)
<1> DEFINE p == Head(work)
           n == child[p]
           T == InTree
           w == Tail(work)
<1>1. /\ work \in Seq(Arms(T)) /\ work # <<>> /\ p \in Arms(T) /\ IsTree(child, T)
      /\ \/ n = NoNode /\ child' = child /\ work' = w
         \/ /\ n \in T /\ child' = child /\ EvenAt(child, n)
            /\ work' = << <<n, "l">>, <<n, "r">> >> \o w
         \/ work' = work /\ WorksIn(child, child', T, p)
      /\ Pending(child, work, x) /\ x \in T
  BY BalanceStepDoes DEF TreeInv, EvenInv
<1> HIDE DEF T
<1>2. /\ p = work[1] /\ Len(work) \in Nat /\ Len(work) >= 1 /\ Len(w) = Len(work) - 1
      /\ w \in Seq(Arms(T)) /\ \A i \in 1 .. Len(w) : w[i] = work[i + 1]
  BY <1>1
<1> HIDE DEF p, n, w
<1>3. n = child[p]
  BY DEF n
<1>4. CASE n = NoNode /\ child' = child /\ work' = w
  <2>1. CASE EvenAt(child, x)
    BY <2>1, <1>4 DEF Pending
  <2>2. ASSUME NEW i \in 1 .. Len(work), x \in Below(child, work[i]) PROVE Pending(child', work', x)
    <3>1. i # 1
      BY <2>2, <1>2, <1>3, <1>4, NoneBelowNothing
    <3>2. i - 1 \in 1 .. Len(w) /\ w[i - 1] = work[i]
      BY <3>1, <1>2
    <3> QED BY <3>2, <2>2, <1>4 DEF Pending
  <2> QED BY <2>1, <2>2, <1>1 DEF Pending
<1>5. CASE /\ n \in T /\ child' = child /\ EvenAt(child, n)
           /\ work' = << <<n, "l">>, <<n, "r">> >> \o w
  <2> DEFINE v == << <<n, "l">>, <<n, "r">> >> \o w
  <2>1. /\ Len(v) = Len(w) + 2 /\ v[1] = <<n, "l">> /\ v[2] = <<n, "r">>
        /\ \A i \in 1 .. Len(w) : v[i + 2] = w[i]
    <3>1. <<n, "l">> \in Arms(T) /\ <<n, "r">> \in Arms(T)
      BY <1>5 DEF Arms, Sides
    <3>2. << <<n, "l">>, <<n, "r">> >> \in Seq(Arms(T))
      BY <3>1
    <3> QED BY <3>2, <1>2
  <2>2. work' = v
    BY <1>5
  <2> HIDE DEF v
  <2>3. CASE EvenAt(child, x)
    BY <2>3, <1>5 DEF Pending
  <2>4. ASSUME NEW i \in 1 .. Len(work), x \in Below(child, work[i]) PROVE Pending(child', work', x)
    <3>1. CASE i = 1
      <4>1. x = n \/ x \in Below(child, <<n, "l">>) \/ x \in Below(child, <<n, "r">>)
        BY <3>1, <2>4, <1>1, <1>2, <1>3, BelowSplits
      <4>2. 1 \in 1 .. Len(v) /\ 2 \in 1 .. Len(v)
        BY <2>1, <1>2
      <4> QED BY <4>1, <4>2, <2>1, <2>2, <1>5 DEF Pending
    <3>2. CASE i # 1
      <4>1. i + 1 \in 1 .. Len(v) /\ v[i + 1] = work[i]
        <5>1. i - 1 \in 1 .. Len(w) /\ w[i - 1] = work[i]
          BY <3>2, <1>2
        <5>2. v[(i - 1) + 2] = w[i - 1] /\ (i - 1) + 2 = i + 1
          BY <5>1, <2>1
        <5> QED BY <5>1, <5>2, <2>1, <1>2
      <4> QED BY <4>1, <2>2, <2>4, <1>5 DEF Pending
    <3> QED BY <3>1, <3>2
  <2> QED BY <2>3, <2>4, <1>1 DEF Pending
<1>6. CASE work' = work /\ WorksIn(child, child', T, p)
  <2>1. CASE x \in Below(child, p)
    <3>1. x \in Below(child', work[1])
      BY <2>1, <1>6, <1>2 DEF WorksIn
    <3>2. 1 \in 1 .. Len(work)
      BY <1>2
    <3> QED BY <3>1, <3>2, <1>6 DEF Pending
  <2>2. CASE x \notin Below(child, p) /\ EvenAt(child, x)
    BY <2>2, <1>6, <1>1 DEF WorksIn, Pending
  <2>3. ASSUME NEW i \in 1 .. Len(work), x \in Below(child, work[i]), x \notin Below(child, p)
        PROVE  Pending(child', work', x)
    <3>1. work[i] \in Arms(T)
      BY <1>1
    <3>2. x \in Below(child', work[i])
      BY <3>1, <2>3, <1>6, <1>1 DEF WorksIn
    <3> QED BY <3>2, <1>6 DEF Pending
  <2> QED BY <2>1, <2>2, <2>3, <1>1 DEF Pending
<1> QED BY <1>1, <1>4, <1>5, <1>6

LEMMA EvenStepInv == TreeInv /\ EvenInv /\ [TreeNext]_treeVars => EvenInv'
<1> SUFFICES ASSUME TreeInv, EvenInv, [TreeNext]_treeVars PROVE EvenInv'
  OBVIOUS
<1>1. ASSUME NEW s \in Students, tree_insert(s) PROVE EvenInv'
  BY <1>1 DEF tree_insert, EvenInv
<1>2. ASSUME NEW id \in TreeIds, tree_delete(id) PROVE EvenInv'
  BY <1>2 DEF tree_delete, EvenInv
<1>3. CASE tree_balance
  <2>1. child' = child /\ work' = <<Tree>> /\ ~settled'
    BY <1>3 DEF tree_balance
  <2>2. ASSUME NEW x \in InTree PROVE Pending(child', work', x)
    <3>1. x \in Below(child', work'[1]) /\ 1 \in 1 .. Len(work')
      BY <2>1 DEF InTree
    <3> QED BY <3>1 DEF Pending
  <2>3. InTree' = InTree
    BY <2>1 DEF InTree
  <2> QED BY <2>1, <2>2, <2>3 DEF EvenInv
<1>4. CASE BalanceStep
  <2>1. settled' = (work' = <<>>)
    BY <1>4 DEF BalanceStep
  <2>2. InTree' = InTree
    <3>1. IsTree(child', InTree) \/ child' = child
      BY <1>4, BalanceStepDoes
    <3> QED BY <3>1, TreeHolds DEF InTree
  <2>3. \A x \in InTree : Pending(child', work', x)
    BY <1>4, EvenBalance
  <2> QED BY <2>1, <2>2, <2>3 DEF EvenInv
<1>5. CASE UNCHANGED treeVars
  BY <1>5 DEF treeVars, EvenInv, InTree
<1> QED BY <1>1, <1>2, <1>3, <1>4, <1>5 DEF TreeNext

LEMMA EvenFrom == TreeInv /\ EvenInv => LeftEven
<1> SUFFICES ASSUME EvenInv, settled, NEW x \in InTree
             PROVE  getnum(<<x, "l">>) - getnum(<<x, "r">>) \in -1 .. 1
  BY DEF LeftEven
<1>1. Pending(child, <<>>, x)
  BY DEF EvenInv
<1>2. EvenAt(child, x)
  BY <1>1 DEF Pending
<1> QED BY <1>2 DEF EvenAt, getnum

(* A tree_balance that returns leaves no node with sides that differ by    *)
(* more than one, whatever the tree was.                                   *)
THEOREM BalanceLeavesEven == TreeSpec => []LeftEven
<1>1. TreeInit => EvenInv
  BY DEF TreeInit, EvenInv
<1> QED BY <1>1, InitTree, TreeStepInv, EvenStepInv, EvenFrom, PTL DEF TreeSpec
-----------------------------------------------------------------------------
(***************************************************************************)
(* The node in the middle.                                                 *)
(***************************************************************************)
Less(S, pos, x) == Cardinality({y \in S : pos[y] < pos[x]})
More(S, pos, x) == Cardinality({y \in S : pos[x] < pos[y]})

LEMMA LessAndMore ==
  ASSUME NEW S, IsFiniteSet(S), NEW pos, NEW x
  PROVE  Less(S, pos, x) \in Nat /\ More(S, pos, x) \in Nat
<1>1. IsFiniteSet({y \in S : pos[y] < pos[x]}) /\ IsFiniteSet({y \in S : pos[x] < pos[y]})
  BY FS_Subset
<1> QED BY <1>1, FS_CardinalityType DEF Less, More

LEMMA MiddleExists ==
  ASSUME NEW S, IsFiniteSet(S), S # {}, NEW pos, NEW top \in Nat,
         \A x \in S : pos[x] \in Nat /\ pos[x] <= top,
         \A x, y \in S : pos[x] = pos[y] => x = y
  PROVE  \E x \in S : Less(S, pos, x) - More(S, pos, x) \in -1 .. 1
<1> DEFINE A == {x \in S : More(S, pos, x) <= Less(S, pos, x)}
<1>0. \A x \in S : Less(S, pos, x) \in Nat /\ More(S, pos, x) \in Nat
  BY LessAndMore
<1>1. A # {}
  <2> DEFINE Gaps == {top - pos[x] : x \in S}
  <2>1. Gaps # {} /\ Gaps \in SUBSET Nat
    OBVIOUS
  <2>2. PICK k \in Gaps : \A l \in Gaps : k <= l
    BY <2>1, LeastNumber
  <2>3. PICK g \in S : \A x \in S : top - pos[g] <= top - pos[x]
    BY <2>2
  <2>4. {y \in S : pos[g] < pos[y]} = {}
    BY <2>3
  <2>5. More(S, pos, g) = 0
    BY <2>4, FS_EmptySet DEF More
  <2>6. g \in A
    BY <2>5, <1>0
  <2> QED BY <2>6
<1>2. PICK x \in A : \A y \in A : pos[x] <= pos[y]
  <2> DEFINE Numbs == {pos[y] : y \in A}
  <2>1. Numbs # {} /\ Numbs \in SUBSET Nat
    BY <1>1
  <2>2. PICK k \in Numbs : \A l \in Numbs : k <= l
    BY <2>1, LeastNumber
  <2> QED BY <2>2
<1>3. x \in S /\ More(S, pos, x) <= Less(S, pos, x)
  OBVIOUS
<1>4. \A y \in S : pos[y] < pos[x] => Less(S, pos, y) < More(S, pos, y)
  BY <1>0, <1>2, <1>3
<1> HIDE DEF A
<1>5. CASE {y \in S : pos[y] < pos[x]} = {}
  <2>1. Less(S, pos, x) = 0
    BY <1>5, FS_EmptySet DEF Less
  <2> QED BY <2>1, <1>0, <1>3
<1>6. CASE {y \in S : pos[y] < pos[x]} # {}
  <2> DEFINE B == {y \in S : pos[y] < pos[x]}
             Gaps == {pos[x] - pos[y] : y \in B}
  <2>1. Gaps # {} /\ Gaps \in SUBSET Nat
    BY <1>6, <1>3
  <2>2. PICK k \in Gaps : \A l \in Gaps : k <= l
    BY <2>1, LeastNumber
  <2>3. PICK y \in B : \A z \in B : pos[x] - pos[y] <= pos[x] - pos[z]
    BY <2>2
  <2>4. y \in S /\ pos[y] < pos[x]
    OBVIOUS
  <2>5. \A z \in S : pos[z] < pos[x] => pos[z] <= pos[y]
    BY <2>3, <2>4, <1>3
  <2>6. \A z \in S : pos[z] < pos[x] <=> pos[z] < pos[y] \/ z = y
    BY <2>4, <2>5, <1>3
  <2>7. \A z \in S : pos[y] < pos[z] <=> pos[x] < pos[z] \/ z = x
    BY <2>4, <2>5, <1>3
  <2> HIDE DEF B
  <2>8. Less(S, pos, x) = Less(S, pos, y) + 1
    <3> DEFINE U == {z \in S : pos[z] < pos[y]}
    <3>1. {z \in S : pos[z] < pos[x]} = U \cup {y} /\ y \notin U
      BY <2>4, <2>6
    <3>2. IsFiniteSet(U)
      BY FS_Subset
    <3> HIDE DEF U
    <3>3. Cardinality(U \cup {y}) = Cardinality(U) + 1
      BY <3>1, <3>2, FS_AddElement
    <3> QED BY <3>1, <3>3 DEF Less, U
  <2>9. More(S, pos, y) = More(S, pos, x) + 1
    <3> DEFINE U == {z \in S : pos[x] < pos[z]}
    <3>1. {z \in S : pos[y] < pos[z]} = U \cup {x} /\ x \notin U
      BY <1>3, <2>7
    <3>2. IsFiniteSet(U)
      BY FS_Subset
    <3> HIDE DEF U
    <3>3. Cardinality(U \cup {x}) = Cardinality(U) + 1
      BY <3>1, <3>2, FS_AddElement
    <3> QED BY <3>1, <3>3 DEF More, U
  <2>10. Less(S, pos, y) < More(S, pos, y)
    BY <1>4, <2>4
  <2>11. /\ Less(S, pos, x) \in Nat /\ More(S, pos, x) \in Nat
         /\ Less(S, pos, y) \in Nat /\ More(S, pos, y) \in Nat
    BY <1>0, <1>3, <2>4
  <2>12. Less(S, pos, x) - More(S, pos, x) \in -1 .. 1
    BY <2>8, <2>9, <2>10, <2>11, <1>3
  <2> QED BY <2>12, <1>3
<1> QED BY <1>5, <1>6

LEMMA MiddleIs ==
  ASSUME NEW c, NEW T, NEW pos, NEW lo, NEW hi, Numbered(c, T, pos, lo, hi),
         NEW p \in Arms(T), NEW x \in T
  PROVE  Middle(c, p, x) <=>
           LET S == Inside(T, pos, lo, hi, p)
           IN x \in S /\ Less(S, pos, x) - More(S, pos, x) \in -1 .. 1
<1> DEFINE S == Inside(T, pos, lo, hi, p)
<1>1. Below(c, p) = S
  BY BelowIs
<1>2. \A y \in S : y \in T
  BY DEF Inside
<1> HIDE DEF S
<1>3. \A y \in S : /\ Before(c, y, x) <=> pos[y] < pos[x]
                   /\ Before(c, x, y) <=> pos[x] < pos[y]
  BY <1>2, BeforeIs
<1>4. /\ {y \in S : Before(c, y, x)} = {y \in S : pos[y] < pos[x]}
      /\ {y \in S : Before(c, x, y)} = {y \in S : pos[x] < pos[y]}
  BY <1>3
<1> QED BY <1>1, <1>4 DEF Middle, Less, More, S

(* A node in the middle is on the side that has more nodes.                *)
LEMMA MiddleRight ==
  ASSUME NEW c, NEW T, NEW pos, NEW lo, NEW hi, Numbered(c, T, pos, lo, hi),
         NEW p \in Arms(T), NEW x \in T, Middle(c, p, x), NEW n \in T, c[p] = n,
         Cardinality(Below(c, <<n, "l">>)) + 1 < Cardinality(Below(c, <<n, "r">>))
  PROVE  x \in Below(c, <<n, "r">>)
<1> DEFINE S == Inside(T, pos, lo, hi, p)
           L == Below(c, <<n, "l">>)
           R == Below(c, <<n, "r">>)
           Lx == {y \in S : pos[y] < pos[x]}
           Rx == {y \in S : pos[x] < pos[y]}
<1>0. \A z \in T : pos[z] \in Int /\ lo[z] \in Int /\ hi[z] \in Int
                   /\ lo[z] <= pos[z] /\ pos[z] <= hi[z] /\ z # NoNode
  BY NumberedTypes
<1>1. lo[n] = From(pos, lo, p) /\ hi[n] = Upto(pos, hi, p)
  BY <1>0 DEF Numbered, Filled
<1>2. /\ \A y \in T : y \in S <=> lo[n] <= pos[y] /\ pos[y] <= hi[n]
      /\ S \subseteq T
  BY <1>1 DEF Inside
<1>3. /\ \A y \in T : /\ y \in L <=> lo[n] <= pos[y] /\ pos[y] <= pos[n] - 1
                      /\ y \in R <=> pos[n] + 1 <= pos[y] /\ pos[y] <= hi[n]
      /\ L \subseteq T /\ R \subseteq T
  <2>1. \A y \in T : /\ y \in L <=> lo[n] <= pos[y] /\ pos[y] <= pos[n] - 1
                     /\ y \in R <=> pos[n] + 1 <= pos[y] /\ pos[y] <= hi[n]
    BY BelowSides
  <2>2. <<n, "l">> \in Arms(T) /\ <<n, "r">> \in Arms(T)
    BY DEF Arms, Sides
  <2>3. L \subseteq T /\ R \subseteq T
    BY <2>2, BelowIs DEF Inside
  <2> QED BY <2>1, <2>3
<1>4. IsFiniteSet(S) /\ IsFiniteSet(L) /\ IsFiniteSet(R) /\ IsFiniteSet(Lx) /\ IsFiniteSet(Rx)
  <2>1. IsFiniteSet(T)
    BY TreeAssumption, FS_Subset DEF Numbered
  <2>2. Lx \subseteq T /\ Rx \subseteq T
    BY <1>2
  <2> HIDE DEF L, R, S, Lx, Rx
  <2> QED BY <2>1, <2>2, <1>2, <1>3, FS_Subset
<1>5. x \in S /\ Cardinality(Lx) - Cardinality(Rx) \in -1 .. 1
  BY MiddleIs DEF Less, More
<1> SUFFICES ASSUME x \notin R PROVE FALSE
  OBVIOUS
<1> HIDE DEF L, R, S
<1>6. pos[x] <= pos[n]
  BY <1>0, <1>2, <1>3, <1>5
<1>7. Lx \subseteq L /\ R \subseteq Rx
  <2>1. ASSUME NEW y \in Lx PROVE y \in L
    <3>1. y \in T /\ lo[n] <= pos[y] /\ pos[y] < pos[x]
      BY <1>2
    <3>2. pos[y] <= pos[n] - 1
      BY <3>1, <1>0, <1>6
    <3> QED BY <3>1, <3>2, <1>3
  <2>2. ASSUME NEW y \in R PROVE y \in Rx
    <3>1. y \in T /\ pos[n] + 1 <= pos[y] /\ pos[y] <= hi[n]
      BY <1>3
    <3>2. lo[n] <= pos[y] /\ pos[x] < pos[y]
      BY <3>1, <1>0, <1>6
    <3> QED BY <3>1, <3>2, <1>2
  <2> QED BY <2>1, <2>2
<1> HIDE DEF Lx, Rx
<1>8. Cardinality(Lx) <= Cardinality(L) /\ Cardinality(R) <= Cardinality(Rx)
  BY <1>4, <1>7, FS_Subset
<1>9. /\ Cardinality(Lx) \in Nat /\ Cardinality(L) \in Nat
      /\ Cardinality(R) \in Nat /\ Cardinality(Rx) \in Nat
  BY <1>4, FS_CardinalityType
<1>10. Cardinality(L) + 1 < Cardinality(R)
  BY DEF L, R
<1> QED BY <1>5, <1>8, <1>9, <1>10

LEMMA MiddleLeft ==
  ASSUME NEW c, NEW T, NEW pos, NEW lo, NEW hi, Numbered(c, T, pos, lo, hi),
         NEW p \in Arms(T), NEW x \in T, Middle(c, p, x), NEW n \in T, c[p] = n,
         Cardinality(Below(c, <<n, "r">>)) + 1 < Cardinality(Below(c, <<n, "l">>))
  PROVE  x \in Below(c, <<n, "l">>)
<1> DEFINE S == Inside(T, pos, lo, hi, p)
           L == Below(c, <<n, "l">>)
           R == Below(c, <<n, "r">>)
           Lx == {y \in S : pos[y] < pos[x]}
           Rx == {y \in S : pos[x] < pos[y]}
<1>0. \A z \in T : pos[z] \in Int /\ lo[z] \in Int /\ hi[z] \in Int
                   /\ lo[z] <= pos[z] /\ pos[z] <= hi[z] /\ z # NoNode
  BY NumberedTypes
<1>1. lo[n] = From(pos, lo, p) /\ hi[n] = Upto(pos, hi, p)
  BY <1>0 DEF Numbered, Filled
<1>2. /\ \A y \in T : y \in S <=> lo[n] <= pos[y] /\ pos[y] <= hi[n]
      /\ S \subseteq T
  BY <1>1 DEF Inside
<1>3. /\ \A y \in T : /\ y \in L <=> lo[n] <= pos[y] /\ pos[y] <= pos[n] - 1
                      /\ y \in R <=> pos[n] + 1 <= pos[y] /\ pos[y] <= hi[n]
      /\ L \subseteq T /\ R \subseteq T
  <2>1. \A y \in T : /\ y \in L <=> lo[n] <= pos[y] /\ pos[y] <= pos[n] - 1
                     /\ y \in R <=> pos[n] + 1 <= pos[y] /\ pos[y] <= hi[n]
    BY BelowSides
  <2>2. <<n, "l">> \in Arms(T) /\ <<n, "r">> \in Arms(T)
    BY DEF Arms, Sides
  <2>3. L \subseteq T /\ R \subseteq T
    BY <2>2, BelowIs DEF Inside
  <2> QED BY <2>1, <2>3
<1>4. IsFiniteSet(S) /\ IsFiniteSet(L) /\ IsFiniteSet(R) /\ IsFiniteSet(Lx) /\ IsFiniteSet(Rx)
  <2>1. IsFiniteSet(T)
    BY TreeAssumption, FS_Subset DEF Numbered
  <2>2. Lx \subseteq T /\ Rx \subseteq T
    BY <1>2
  <2> HIDE DEF L, R, S, Lx, Rx
  <2> QED BY <2>1, <2>2, <1>2, <1>3, FS_Subset
<1>5. x \in S /\ Cardinality(Lx) - Cardinality(Rx) \in -1 .. 1
  BY MiddleIs DEF Less, More
<1> SUFFICES ASSUME x \notin L PROVE FALSE
  OBVIOUS
<1> HIDE DEF L, R, S
<1>6. pos[n] <= pos[x]
  BY <1>0, <1>2, <1>3, <1>5
<1>7. Rx \subseteq R /\ L \subseteq Lx
  <2>1. ASSUME NEW y \in Rx PROVE y \in R
    <3>1. y \in T /\ pos[y] <= hi[n] /\ pos[x] < pos[y]
      BY <1>2
    <3>2. pos[n] + 1 <= pos[y]
      BY <3>1, <1>0, <1>6
    <3> QED BY <3>1, <3>2, <1>3
  <2>2. ASSUME NEW y \in L PROVE y \in Lx
    <3>1. y \in T /\ lo[n] <= pos[y] /\ pos[y] <= pos[n] - 1
      BY <1>3
    <3>2. pos[y] <= hi[n] /\ pos[y] < pos[x]
      BY <3>1, <1>0, <1>6
    <3> QED BY <3>1, <3>2, <1>2
  <2> QED BY <2>1, <2>2
<1> HIDE DEF Lx, Rx
<1>8. Cardinality(Rx) <= Cardinality(R) /\ Cardinality(L) <= Cardinality(Lx)
  BY <1>4, <1>7, FS_Subset
<1>9. /\ Cardinality(Lx) \in Nat /\ Cardinality(L) \in Nat
      /\ Cardinality(R) \in Nat /\ Cardinality(Rx) \in Nat
  BY <1>4, FS_CardinalityType
<1>10. Cardinality(R) + 1 < Cardinality(L)
  BY DEF L, R
<1> QED BY <1>5, <1>8, <1>9, <1>10

LEMMA TurnClosesInStep ==
  ASSUME TreeInv, BalanceStep, child' # child
  PROVE  /\ \E x \in InTree : Middle(child, Head(work), x)
         /\ \A x \in InTree : Middle(child, Head(work), x) =>
              /\ Middle(child', Head(work), x)
              /\ Cardinality(Over(child', x)) = Cardinality(Over(child, x)) - 1
<1> DEFINE p == Head(work)
           n == child[p]
           T == InTree
<1>1. /\ p \in Arms(T) /\ n \in T /\ WorksIn(child, child', T, p)
      /\ \/ /\ Cardinality(Below(child, <<n, "l">>)) + 1 < Cardinality(Below(child, <<n, "r">>))
            /\ ClosesIn(child, child', T, n, "r")
         \/ /\ Cardinality(Below(child, <<n, "r">>)) + 1 < Cardinality(Below(child, <<n, "l">>))
            /\ ClosesIn(child, child', T, n, "l")
  BY BalanceStepDoes
<1>2. PICK pos \in Numbers, lo \in Numbers, hi \in Numbers : Numbered(child, T, pos, lo, hi)
  BY DEF TreeInv, IsTree
<1> HIDE DEF p, T
<1>3. n = child[p]
  OBVIOUS
<1> HIDE DEF n
<1>4. \A x \in T : /\ pos[x] \in Int /\ 1 <= lo[x] /\ lo[x] <= pos[x] /\ pos[x] <= hi[x]
                   /\ hi[x] < pos[NoNode] /\ lo[x] \in Int /\ hi[x] \in Int /\ x # NoNode
  BY <1>2, NumberedTypes
<1>5. pos[NoNode] \in Nat
  BY <1>2, NumberedTypes
<1>6. IsFiniteSet(T)
  BY <1>2, TreeAssumption, FS_Subset DEF Numbered
<1>7. \E x \in T : Middle(child, p, x)
  <2> DEFINE S == Inside(T, pos, lo, hi, p)
  <2>1. S \subseteq T
    BY DEF Inside
  <2>2. n \in S
    <3>1. lo[n] = From(pos, lo, p) /\ hi[n] = Upto(pos, hi, p)
      BY <1>1, <1>2, <1>3, <1>4 DEF Numbered, Filled
    <3> QED BY <3>1, <1>1, <1>4 DEF Inside
  <2> HIDE DEF S
  <2>3. IsFiniteSet(S) /\ S # {}
    BY <2>1, <2>2, <1>6, FS_Subset
  <2>4. \A x \in S : pos[x] \in Nat /\ pos[x] <= pos[NoNode]
    BY <2>1, <1>4, <1>5
  <2>5. \A x, y \in S : pos[x] = pos[y] => x = y
    BY <2>1, <1>2 DEF Numbered, Apart
  <2>6. PICK x \in S : Less(S, pos, x) - More(S, pos, x) \in -1 .. 1
    BY <2>3, <2>4, <2>5, <1>5, MiddleExists
  <2>7. x \in T
    BY <2>1
  <2>8. Middle(child, p, x)
    BY <2>6, <2>7, <1>1, <1>2, MiddleIs DEF S
  <2> QED BY <2>7, <2>8
<1>8. ASSUME NEW x \in T, Middle(child, p, x)
      PROVE  /\ Middle(child', p, x)
             /\ Cardinality(Over(child', x)) = Cardinality(Over(child, x)) - 1
  <2>1. Over(child', x) = Over(child, x) \ {n} /\ n \in Over(child, x)
    <3>1. CASE /\ Cardinality(Below(child, <<n, "l">>)) + 1 < Cardinality(Below(child, <<n, "r">>))
               /\ ClosesIn(child, child', T, n, "r")
      <4>1. x \in Below(child, <<n, "r">>)
        BY <3>1, <1>1, <1>2, <1>3, <1>8, MiddleRight
      <4> QED BY <4>1, <3>1 DEF ClosesIn
    <3>2. CASE /\ Cardinality(Below(child, <<n, "r">>)) + 1 < Cardinality(Below(child, <<n, "l">>))
               /\ ClosesIn(child, child', T, n, "l")
      <4>1. x \in Below(child, <<n, "l">>)
        BY <3>2, <1>1, <1>2, <1>3, <1>8, MiddleLeft
      <4> QED BY <4>1, <3>2 DEF ClosesIn
    <3> QED BY <3>1, <3>2, <1>1
  <2>2. IsFiniteSet(Over(child, x))
    <3>1. Over(child, x) \subseteq T
      BY <1>2, OverIs
    <3> QED BY <3>1, <1>6, FS_Subset
  <2>3. Cardinality(Over(child', x)) = Cardinality(Over(child, x)) - 1
    BY <2>1, <2>2, FS_RemoveElement
  <2>4. Middle(child', p, x)
    <3>1. Below(child', p) = Below(child, p)
      BY <1>1 DEF WorksIn
    <3>2. \A y \in Below(child, p) : y \in T
      BY <1>1, <1>2, BelowIs DEF Inside
    <3>3. \A y \in Below(child, p) : /\ Before(child', y, x) <=> Before(child, y, x)
                                     /\ Before(child', x, y) <=> Before(child, x, y)
      BY <3>2, <1>1 DEF ClosesIn
    <3>4. /\ {y \in Below(child, p) : Before(child', y, x)} = {y \in Below(child, p) : Before(child, y, x)}
          /\ {y \in Below(child, p) : Before(child', x, y)} = {y \in Below(child, p) : Before(child, x, y)}
      BY <3>3
    <3> QED BY <1>8, <3>1, <3>4 DEF Middle
  <2> QED BY <2>3, <2>4
<1> QED BY <1>7, <1>8 DEF p, T

(* On any tree each turn takes one node from above the node in the middle  *)
(* of what is turned, and leaves that node in the middle: a place needs no *)
(* more turns than there are nodes above its middle, so turning left and   *)
(* turning right cannot chase each other.                                  *)
THEOREM TurnsApproachMiddle == TreeSpec => TurnsCloseIn
<1>1. TreeInv /\ [TreeNext]_treeVars =>
        (work # <<>> /\ child' # child =>
           /\ \E x \in InTree : Middle(child, Head(work), x)
           /\ \A x \in InTree : Middle(child, Head(work), x) =>
                /\ Middle(child', Head(work), x)
                /\ Cardinality(Over(child', x)) = Cardinality(Over(child, x)) - 1)
  <2> SUFFICES ASSUME TreeInv, [TreeNext]_treeVars, work # <<>>, child' # child
               PROVE  /\ \E x \in InTree : Middle(child, Head(work), x)
                      /\ \A x \in InTree : Middle(child, Head(work), x) =>
                           /\ Middle(child', Head(work), x)
                           /\ Cardinality(Over(child', x)) = Cardinality(Over(child, x)) - 1
    OBVIOUS
  <2>1. BalanceStep
    BY DEF TreeNext, treeVars, tree_insert, tree_delete, tree_balance
  <2> QED BY <2>1, TurnClosesInStep
<1> QED BY <1>1, TreeAlways, PTL DEF TreeSpec, TurnsCloseIn
-----------------------------------------------------------------------------
(* Five in a row. *)

(* What is counted is where the stones stop. *)
LEMMA CountedFromOne ==
  ASSUME NEW B \in Nat, NEW S \in SUBSET (1 .. B), \A n \in S : \A m \in 1 .. n : m \in S
  PROVE  /\ Cardinality(S) \in 0 .. B
         /\ \A n \in Int : n \in S <=> n \in 1 .. Cardinality(S)
<1> DEFINE T == {n \in Nat : n + 1 \notin S}
<1>1. B \in T /\ T \in SUBSET Nat
  OBVIOUS
<1>2. PICK n \in T : \A k \in T : n <= k
  <2> HIDE DEF T
  <2> QED
    BY <1>1, LeastNumber
<1>3. n \in 0 .. B /\ n + 1 \notin S
  BY <1>1, <1>2
<1>4. \A m \in S : m \in 1 .. n
  BY <1>3
<1>5. \A m \in 1 .. n : m \in S
  <2> SUFFICES ASSUME NEW m \in 1 .. n, m \notin S PROVE FALSE
    OBVIOUS
  <2>1. m - 1 \in T
    BY <1>3
  <2> QED
    BY <1>2, <1>3, <2>1
<1>6. S = 1 .. n
  BY <1>4, <1>5
<1>7. Cardinality(1 .. n) = n
  BY <1>3, FS_Interval
<1> QED
  BY <1>3, <1>6, <1>7
-----------------------------------------------------------------------------
Compass == {<<0, 1>>, <<1, 0>>, <<1, 1>>, <<-1, 1>>, <<0, -1>>, <<-1, 0>>, <<-1, -1>>, <<1, -1>>}
Back(d) == <<-d[1], -d[2]>>

(* Points in a row, counted from any of them, in either direction. *)
LEMMA Rows ==
  ASSUME NEW b, NEW p \in Int \X Int, NEW d \in Compass
  PROVE  /\ Beyond(b, p, d, 0) = p
         /\ \A k \in Int : /\ Beyond(b, p, d, k) \in Int \X Int
                           /\ Beyond(b, p, Back(d), k) = Beyond(b, p, d, -k)
         /\ \A j, k \in Int : Beyond(b, Beyond(b, p, d, j), d, k) = Beyond(b, p, d, j + k)
         /\ Back(d) \in Compass /\ Back(Back(d)) = d
<1>1. /\ d[1] \in {-1, 0, 1} /\ d[2] \in {-1, 0, 1} /\ d = <<d[1], d[2]>>
      /\ p[1] \in Int /\ p[2] \in Int /\ p = <<p[1], p[2]>>
  BY DEF Compass
<1>2. Back(d) \in Compass /\ Back(Back(d)) = d
  BY DEF Compass, Back
<1>3. \A k \in Int : k * d[1] \in Int /\ k * d[2] \in Int /\ k * (-d[1]) = (-k) * d[1] /\ k * (-d[2]) = (-k) * d[2]
  BY <1>1
<1>4. \A j, k \in Int : j * d[1] + k * d[1] = (j + k) * d[1] /\ j * d[2] + k * d[2] = (j + k) * d[2]
  BY <1>1
<1>5. 0 * d[1] = 0 /\ 0 * d[2] = 0
  BY <1>1
<1>6. Beyond(b, p, d, 0) = p
  BY <1>1, <1>5 DEF Beyond
<1>7. \A k \in Int : Beyond(b, p, d, k) \in Int \X Int /\ Beyond(b, p, Back(d), k) = Beyond(b, p, d, -k)
  BY <1>1, <1>3 DEF Beyond, Back
<1>8. \A j, k \in Int : Beyond(b, Beyond(b, p, d, j), d, k) = Beyond(b, p, d, j + k)
  <2> SUFFICES ASSUME NEW j \in Int, NEW k \in Int
               PROVE  Beyond(b, Beyond(b, p, d, j), d, k) = Beyond(b, p, d, j + k)
    OBVIOUS
  <2>1. j * d[1] \in Int /\ k * d[1] \in Int /\ j * d[2] \in Int /\ k * d[2] \in Int
    BY <1>3
  <2>2. (p[1] + j * d[1]) + k * d[1] = p[1] + (j + k) * d[1] /\ (p[2] + j * d[2]) + k * d[2] = p[2] + (j + k) * d[2]
    BY <1>1, <1>4, <2>1
  <2> QED
    BY <2>2 DEF Beyond
<1> QED
  BY <1>2, <1>6, <1>7, <1>8

(* No row of points is longer than the board. *)
LEMMA RowsEnd ==
  ASSUME NEW b, NEW p \in Points, NEW d \in Compass, NEW k \in Nat, Beyond(b, p, d, k) \in Points
  PROVE  k \in 0 .. BOARD - 1
<1>1. BOARD \in Nat \ {0}
  BY GomokuAssumption
<1>2. p[1] \in 0 .. BOARD - 1 /\ p[2] \in 0 .. BOARD - 1
  BY <1>1 DEF Points, Lines15
<1>3. p[1] + k * d[1] \in 0 .. BOARD - 1 /\ p[2] + k * d[2] \in 0 .. BOARD - 1
  BY <1>1 DEF Points, Lines15, Beyond
<1>4. d[1] \in {-1, 1} \/ d[2] \in {-1, 1}
  BY DEF Compass
<1> QED
  BY <1>1, <1>2, <1>3, <1>4

(* On the board, the stones that follow p; and a count that needs no array. *)
Row(b, p, d) ==
  Cardinality({n \in 1 .. BOARD : \A k \in 1 .. n : Beyond(b, p, d, k) \in Points /\ b[Beyond(b, p, d, k)] = b[p]})
Through(b, p) == \E d \in Directions : 1 + Row(b, p, d) + Row(b, p, <<-d[1], -d[2]>>) >= FIVE

LEMMA FlatIndex ==
  ASSUME NEW B \in Nat, NEW x \in Int, NEW u \in Int, NEW y \in 0 .. B - 1, NEW v \in 0 .. B - 1,
         B * x + y = B * u + v
  PROVE  x = u /\ y = v
<1>1. ASSUME NEW i \in Int, NEW j \in Int, NEW m \in Int, NEW n \in Int, i < j, m < B, n >= 0 PROVE B * i + m < B * j + n
  <2> DEFINE k == j - i - 1
  <2>1. k \in Nat /\ j = i + 1 + k
    BY <1>1
  <2> HIDE DEF k
  <2>2. B * k \in Nat
    BY <2>1
  <2>3. B * j = B * i + B + B * k
    BY <1>1, <2>1
  <2>4. B * i \in Int
    BY <1>1
  <2> QED
    BY <1>1, <2>2, <2>3, <2>4
<1>2. ~(x < u) /\ ~(u < x)
  BY <1>1
<1>3. x = u
  BY <1>2
<1>4. B * x \in Int
  OBVIOUS
<1> QED
  BY <1>3, <1>4

LEMMA OwnByte == \A q, c \in Points : Names(q, c) <=> q = c
<1> SUFFICES ASSUME NEW q \in Points, NEW c \in Points PROVE Names(q, c) <=> q = c
  OBVIOUS
<1>1. BOARD \in Nat
  BY GomokuAssumption
<1>2. /\ q[1] \in Int /\ c[1] \in Int /\ q[2] \in 0 .. BOARD - 1 /\ c[2] \in 0 .. BOARD - 1
      /\ q = <<q[1], q[2]>> /\ c = <<c[1], c[2]>>
  BY <1>1 DEF Points, Lines15
<1>3. ASSUME Names(q, c) PROVE q[1] = c[1] /\ q[2] = c[2]
  <2>1. BOARD * q[1] + q[2] = BOARD * c[1] + c[2]
    BY <1>3 DEF Names
  <2> QED
    BY <1>1, <1>2, <2>1, FlatIndex
<1> QED
  BY <1>2, <1>3 DEF Names

LEMMA WithinBoard ==
  ASSUME NEW b, NEW p \in Points, NEW d \in Compass, NEW k \in Nat
  PROVE  InBounds(Beyond(b, p, d, k), d) <=> Beyond(b, p, d, k) \in Points
<1>1. BOARD \in Nat
  BY GomokuAssumption
<1>2. p[1] \in 0 .. BOARD - 1 /\ p[2] \in 0 .. BOARD - 1 /\ d[1] \in {-1, 0, 1} /\ d[2] \in {-1, 0, 1}
  BY <1>1 DEF Points, Lines15, Compass
<1> DEFINE x == p[1] + k * d[1]
           y == p[2] + k * d[2]
<1>3. /\ x \in Int /\ (x \in 0 .. BOARD - 1 <=> (d[1] = -1 => x >= 0) /\ (d[1] = 1 => x < BOARD))
  BY <1>1, <1>2
<1>4. /\ y \in Int /\ (y \in 0 .. BOARD - 1 <=> (d[2] = -1 => y >= 0) /\ (d[2] = 1 => y < BOARD))
  BY <1>1, <1>2
<1>5. Beyond(b, p, d, k) = <<x, y>>
  BY DEF Beyond
<1> HIDE DEF x, y
<1>6. <<x, y>> \in Points <=> x \in 0 .. BOARD - 1 /\ y \in 0 .. BOARD - 1
  BY DEF Points, Lines15
<1>7. InBounds(<<x, y>>, d) <=> /\ (d[1] = -1 => x >= 0) /\ (d[1] = 1 => x < BOARD)
                             /\ (d[2] = -1 => y >= 0) /\ (d[2] = 1 => y < BOARD)
  BY DEF InBounds
<1> QED
  BY <1>3, <1>4, <1>5, <1>6, <1>7, Zenon

LEMMA RunOnBoard ==
  ASSUME NEW b, NEW p \in Points, NEW d \in Compass, NEW outside
  PROVE  RunLength(b, b[p], p, d, outside) = Row(b, p, d)
<1>0. BOARD \in Nat
  BY GomokuAssumption
<1>1. ASSUME NEW k \in Nat
      PROVE  InBounds(Beyond(b, p, d, k), d) /\ Shows(b, Beyond(b, p, d, k), b[p], outside)
               <=> Beyond(b, p, d, k) \in Points /\ b[Beyond(b, p, d, k)] = b[p]
  <2> DEFINE q == Beyond(b, p, d, k)
  <2>1. InBounds(q, d) <=> q \in Points
    BY WithinBoard
  <2> HIDE DEF q
  <2>2. q \in Points => (Shows(b, q, b[p], outside) <=> b[q] = b[p])
    BY OwnByte, Zenon DEF Shows
  <2>3. InBounds(q, d) /\ Shows(b, q, b[p], outside) <=> q \in Points /\ b[q] = b[p]
    BY <2>1, <2>2, Zenon
  <2> QED
    BY <2>3 DEF q
<1>2. \A n \in 1 .. BOARD : \A k \in 1 .. n : k \in Nat
  BY <1>0
<1>3. {n \in 1 .. BOARD : \A k \in 1 .. n : /\ InBounds(Beyond(b, p, d, k), d)
                                          /\ Shows(b, Beyond(b, p, d, k), b[p], outside)}
        = {n \in 1 .. BOARD : \A k \in 1 .. n : Beyond(b, p, d, k) \in Points /\ b[Beyond(b, p, d, k)] = b[p]}
  BY <1>1, <1>2, Zenon
<1> QED
  BY <1>3, Zenon DEF RunLength, Row

LEMMA LineOnBoard ==
  ASSUME NEW b, NEW p \in Points, NEW outside
  PROVE  LineThrough(b, b[p], p, outside) <=> Through(b, p)
<1>1. \A d \in Directions : d \in Compass /\ <<-d[1], -d[2]>> \in Compass
  BY DEF Directions, Compass
<1>2. \A d \in Compass : RunLength(b, b[p], p, d, outside) = Row(b, p, d)
  BY RunOnBoard
<1>3. \A d \in Directions : /\ RunLength(b, b[p], p, d, outside) = Row(b, p, d)
                            /\ RunLength(b, b[p], p, <<-d[1], -d[2]>>, outside) = Row(b, p, <<-d[1], -d[2]>>)
  BY <1>1, <1>2, Zenon
<1> QED
  BY <1>3, Zenon DEF LineThrough, Through

LEMMA RunIsRow ==
  ASSUME NEW b, NEW p \in Points, NEW d \in Compass
  PROVE  /\ Row(b, p, d) \in 0 .. BOARD
         /\ \A n \in 1 .. Row(b, p, d) : Beyond(b, p, d, n) \in Points /\ b[Beyond(b, p, d, n)] = b[p]
         /\ \A n \in Nat : (\A k \in 1 .. n : Beyond(b, p, d, k) \in Points /\ b[Beyond(b, p, d, k)] = b[p])
                             => n <= Row(b, p, d)
<1> DEFINE Ok(k) == Beyond(b, p, d, k) \in Points /\ b[Beyond(b, p, d, k)] = b[p]
           S == {n \in 1 .. BOARD : \A k \in 1 .. n : Ok(k)}
           r == Row(b, p, d)
<1>0. BOARD \in Nat
  BY GomokuAssumption
<1>1. r = Cardinality(S)
  BY DEF Row
<1>2. S \in SUBSET (1 .. BOARD) /\ \A n \in S : \A m \in 1 .. n : m \in S
  <2> HIDE DEF Ok
  <2> QED
    BY <1>0
<1>3. r \in 0 .. BOARD /\ \A n \in Int : n \in S <=> n \in 1 .. r
  <2> HIDE DEF S, r
  <2> QED
    BY <1>0, <1>1, <1>2, CountedFromOne
<1>4. \A n \in 1 .. r : Ok(n)
  <2> HIDE DEF Ok, r
  <2> QED
    BY <1>0, <1>3
<1>5. \A n \in Nat : (\A k \in 1 .. n : Ok(k)) => n <= r
  <2> SUFFICES ASSUME NEW n \in Nat, \A k \in 1 .. n : Ok(k), n # 0 PROVE n <= r
    BY <1>3
  <2>1. n \in 1 .. BOARD
    <3>1. Beyond(b, p, d, n) \in Points
      OBVIOUS
    <3> QED
      BY <1>0, <3>1, RowsEnd
  <2>2. n \in S
    <3> HIDE DEF Ok
    <3> QED
      BY <2>1
  <2> HIDE DEF S, r
  <2> QED
    BY <1>3, <2>2
<1> QED
  BY <1>3, <1>4, <1>5
-----------------------------------------------------------------------------
(* A line of FIVE from q on; and one of which p is the stone with number j. *)
LineFrom(b, s, q, d) == \A k \in 0 .. FIVE - 1 : Beyond(b, q, d, k) \in Points /\ b[Beyond(b, q, d, k)] = s
LineAt(b, s, p, d, j) == \A k \in 0 .. FIVE - 1 : Beyond(b, p, d, k - j) \in Points /\ b[Beyond(b, p, d, k - j)] = s

LEMMA PointsArePairs == Points \subseteq Int \X Int
<1>1. BOARD \in Nat
  BY GomokuAssumption
<1> QED
  BY <1>1 DEF Points, Lines15

LEMMA CountFindsLine ==
  ASSUME NEW b, NEW p \in Points, NEW d \in Compass
  PROVE  1 + Row(b, p, d) + Row(b, p, Back(d)) >= FIVE
           <=> \E j \in 0 .. FIVE - 1 : LineAt(b, b[p], p, d, j)
<1> DEFINE At(k) == Beyond(b, p, d, k)
           Ok(k) == At(k) \in Points /\ b[At(k)] = b[p]
           f == Row(b, p, d)
           g == Row(b, p, Back(d))
<1>0. FIVE \in Nat \ {0} /\ BOARD \in Nat /\ p \in Int \X Int
  BY GomokuAssumption, PointsArePairs
<1>1. At(0) = p /\ Ok(0) /\ \A k \in Int : Beyond(b, p, Back(d), k) = At(-k)
  <2>1. At(0) = p
    BY <1>0, Rows
  <2>2. \A k \in Int : Beyond(b, p, Back(d), k) = At(-k)
    BY <1>0, Rows
  <2> QED
    BY <2>1, <2>2
<1>2. Back(d) \in Compass
  BY <1>0, Rows
<1>3. f \in Nat /\ (\A n \in 1 .. f : Ok(n)) /\ \A n \in Nat : (\A k \in 1 .. n : Ok(k)) => n <= f
  <2>1. f \in 0 .. BOARD
    BY RunIsRow
  <2>2. f \in Nat
    BY <1>0, <2>1
  <2> QED
    BY <2>2, RunIsRow
<1>4. g \in Nat /\ (\A n \in 1 .. g : Ok(-n)) /\ \A n \in Nat : (\A k \in 1 .. n : Ok(-k)) => n <= g
  <2>1. /\ g \in 0 .. BOARD
        /\ \A n \in 1 .. g : Beyond(b, p, Back(d), n) \in Points /\ b[Beyond(b, p, Back(d), n)] = b[p]
        /\ \A n \in Nat : (\A k \in 1 .. n : Beyond(b, p, Back(d), k) \in Points /\ b[Beyond(b, p, Back(d), k)] = b[p])
                             => n <= g
    BY <1>2, RunIsRow
  <2>2. \A k \in Int : Ok(-k) <=> Beyond(b, p, Back(d), k) \in Points /\ b[Beyond(b, p, Back(d), k)] = b[p]
    BY <1>1
  <2> HIDE DEF Ok, g
  <2>3. \A n \in 1 .. g : Ok(-n)
    BY <1>0, <2>1, <2>2
  <2>4. \A n \in Nat : (\A k \in 1 .. n : Ok(-k)) => n <= g
    BY <2>1, <2>2
  <2> QED
    BY <1>0, <2>1, <2>3, <2>4
<1>5. \A j \in 0 .. FIVE - 1 : LineAt(b, b[p], p, d, j) <=> \A k \in 0 .. FIVE - 1 : Ok(k - j)
  BY DEF LineAt
<1> HIDE DEF At, Ok, f, g
<1>6. ASSUME 1 + f + g >= FIVE PROVE \E j \in 0 .. FIVE - 1 : \A k \in 0 .. FIVE - 1 : Ok(k - j)
  <2> DEFINE j == IF g <= FIVE - 1 THEN g ELSE FIVE - 1
  <2>1. j \in 0 .. FIVE - 1 /\ j <= g
    BY <1>0, <1>4
  <2>2. ASSUME NEW k \in 0 .. FIVE - 1 PROVE Ok(k - j)
    <3>1. CASE k = j
      BY <1>1, <3>1, <2>1, <1>0
    <3>2. CASE k > j
      <4>1. k - j \in 1 .. f
        BY <1>0, <1>3, <1>4, <1>6, <3>2
      <4> QED
        BY <1>3, <4>1
    <3>3. CASE k < j
      <4>1. j - k \in 1 .. g /\ -(j - k) = k - j
        BY <1>0, <1>4, <2>1, <3>3
      <4> HIDE DEF j
      <4> QED
        BY <1>4, <4>1
    <3> QED
      BY <1>0, <2>1, <3>1, <3>2, <3>3
  <2> HIDE DEF j
  <2> QED
    BY <2>1, <2>2
<1>7. ASSUME NEW j \in 0 .. FIVE - 1, \A k \in 0 .. FIVE - 1 : Ok(k - j) PROVE 1 + f + g >= FIVE
  <2>1. FIVE - 1 - j <= f
    <3>1. FIVE - 1 - j \in Nat
      BY <1>0
    <3>2. \A k \in 1 .. FIVE - 1 - j : Ok(k)
      <4> SUFFICES ASSUME NEW k \in 1 .. FIVE - 1 - j PROVE Ok(k)
        OBVIOUS
      <4>1. k + j \in 0 .. FIVE - 1 /\ (k + j) - j = k
        BY <1>0
      <4> QED
        BY <1>7, <4>1
    <3> QED
      BY <1>3, <3>1, <3>2
  <2>2. j <= g
    <3>1. j \in Nat
      BY <1>0
    <3>2. \A k \in 1 .. j : Ok(-k)
      <4> SUFFICES ASSUME NEW k \in 1 .. j PROVE Ok(-k)
        OBVIOUS
      <4>1. j - k \in 0 .. FIVE - 1 /\ (j - k) - j = -k
        BY <1>0
      <4> QED
        BY <1>7, <4>1
    <3> QED
      BY <1>4, <3>1, <3>2
  <2> QED
    BY <1>0, <1>3, <1>4, <2>1, <2>2
<1>8. (1 + f + g >= FIVE) <=> \E j \in 0 .. FIVE - 1 : \A k \in 0 .. FIVE - 1 : Ok(k - j)
  BY <1>6, <1>7
<1>9. (1 + f + g >= FIVE) <=> \E j \in 0 .. FIVE - 1 : LineAt(b, b[p], p, d, j)
  BY <1>5, <1>8, Zenon
<1> QED
  BY <1>9 DEF f, g

LineIn(b, s) == \E q \in Points, d \in {<<0, 1>>, <<1, 0>>, <<1, 1>>, <<1, -1>>} : LineFrom(b, s, q, d)

LEMMA Shifted ==
  ASSUME NEW b, NEW s, NEW q \in Points, NEW d \in Compass, NEW j \in Int, NEW p \in Points,
         q = Beyond(b, p, d, -j)
  PROVE  LineFrom(b, s, q, d) <=> LineAt(b, s, p, d, j)
<1>1. FIVE \in Nat /\ p \in Int \X Int
  BY GomokuAssumption, PointsArePairs
<1>2. \A k \in 0 .. FIVE - 1 : Beyond(b, q, d, k) = Beyond(b, p, d, k - j)
  <2> SUFFICES ASSUME NEW k \in 0 .. FIVE - 1 PROVE Beyond(b, q, d, k) = Beyond(b, p, d, k - j)
    OBVIOUS
  <2> DEFINE i == -j
  <2>1. k \in Int /\ i \in Int /\ i + k = k - j /\ q = Beyond(b, p, d, i)
    BY <1>1
  <2> HIDE DEF i
  <2>2. Beyond(b, Beyond(b, p, d, i), d, k) = Beyond(b, p, d, i + k)
    BY <1>1, <2>1, Rows
  <2> QED
    BY <2>1, <2>2
<1> QED
  BY <1>2 DEF LineFrom, LineAt

(* The lines through the last stone are all that ifwin must look at. *)
LEMMA LineThroughLast ==
  ASSUME NEW b, NEW p \in Points
  PROVE  Through(b, p) <=> \E q \in Points, d \in {<<0, 1>>, <<1, 0>>, <<1, 1>>, <<1, -1>>} :
                                 \E j \in 0 .. FIVE - 1 : Beyond(b, q, d, j) = p /\ LineFrom(b, b[p], q, d)
<1> DEFINE Four == {<<0, 1>>, <<1, 0>>, <<1, 1>>, <<1, -1>>}
           Sum(d) == 1 + Row(b, p, d) + Row(b, p, Back(d))
<1>0. FIVE \in Nat \ {0} /\ p \in Int \X Int /\ BOARD \in Nat
  BY GomokuAssumption, PointsArePairs
<1>1. \A d \in Compass : Sum(d) >= FIVE <=> \E j \in 0 .. FIVE - 1 : LineAt(b, b[p], p, d, j)
  BY CountFindsLine
<1>2. Four \subseteq Compass /\ Directions \subseteq Compass
  BY DEF Directions, Compass
<1>3. Through(b, p) <=> \E d \in Directions : Sum(d) >= FIVE
  BY DEF Through, Back
<1>4. Sum(<<1, -1>>) = Sum(<<-1, 1>>)
  <2>1. Back(<<1, -1>>) = <<-1, 1>> /\ Back(<<-1, 1>>) = <<1, -1>>
    <3> DEFINE m == -1
    <3>1. m \in Int /\ m + 1 = 0
      OBVIOUS
    <3> HIDE DEF m
    <3>2. -m = 1
      BY <3>1
    <3>3. Back(<<1, m>>) = <<m, 1>> /\ Back(<<m, 1>>) = <<1, m>>
      <4>1. -1 = m
        BY <3>1
      <4> QED
        BY <3>2, <4>1 DEF Back
    <3> QED
      BY <3>3 DEF m
  <2>2. Row(b, p, <<1, -1>>) \in 0 .. BOARD /\ Row(b, p, <<-1, 1>>) \in 0 .. BOARD
    BY RunIsRow DEF Compass
  <2> QED
    BY <1>0, <2>1, <2>2
<1> HIDE DEF Sum
<1>5. (\E d \in Directions : Sum(d) >= FIVE) <=> \E d \in Four : Sum(d) >= FIVE
  BY <1>4 DEF Directions
<1>6. ASSUME NEW d \in Four, NEW j \in 0 .. FIVE - 1
      PROVE  LineAt(b, b[p], p, d, j) <=> \E q \in Points : Beyond(b, q, d, j) = p /\ LineFrom(b, b[p], q, d)
  <2>0. d \in Compass /\ j \in Int /\ -j \in Int /\ (-j) + j = 0 /\ j + (-j) = 0
    BY <1>0, <1>2
  <2>1. ASSUME LineAt(b, b[p], p, d, j)
        PROVE  \E q \in Points : Beyond(b, q, d, j) = p /\ LineFrom(b, b[p], q, d)
    <3> DEFINE q == Beyond(b, p, d, -j)
    <3>1. q \in Points
      <4>1. 0 \in 0 .. FIVE - 1 /\ 0 - j = -j
        BY <1>0, <2>0
      <4> QED
        BY <2>1, <4>1 DEF LineAt
    <3>2. Beyond(b, q, d, j) = p
      <4>1. Beyond(b, q, d, j) = Beyond(b, p, d, (-j) + j)
        BY <1>0, <2>0, Rows
      <4>2. Beyond(b, p, d, 0) = p
        BY <1>0, <2>0, Rows
      <4> QED
        BY <2>0, <4>1, <4>2
    <3>3. LineFrom(b, b[p], q, d)
      BY <2>0, <2>1, <3>1, Shifted
    <3> HIDE DEF q
    <3> QED
      BY <3>1, <3>2, <3>3
  <2>2. ASSUME NEW q \in Points, Beyond(b, q, d, j) = p, LineFrom(b, b[p], q, d)
        PROVE  LineAt(b, b[p], p, d, j)
    <3>1. q \in Int \X Int
      BY PointsArePairs
    <3>2. Beyond(b, Beyond(b, q, d, j), d, -j) = Beyond(b, q, d, j + (-j)) /\ Beyond(b, q, d, 0) = q
      BY <2>0, <3>1, Rows
    <3>3. q = Beyond(b, p, d, -j)
      BY <2>0, <2>2, <3>2
    <3> QED
      BY <2>0, <2>2, <3>3, Shifted
  <2> QED
    BY <2>1, <2>2
<1>7. (\E d \in Four : Sum(d) >= FIVE)
        <=> \E d \in Four : \E j \in 0 .. FIVE - 1 : \E q \in Points : Beyond(b, q, d, j) = p /\ LineFrom(b, b[p], q, d)
  <2> HIDE DEF Four
  <2> QED
    BY <1>1, <1>2, <1>6, Zenon
<1> HIDE DEF Four
<1>8. Through(b, p) <=> \E q \in Points, d \in Four : \E j \in 0 .. FIVE - 1 :
                              Beyond(b, q, d, j) = p /\ LineFrom(b, b[p], q, d)
  BY <1>3, <1>5, <1>7, Zenon
<1> QED
  BY <1>8, Zenon DEF Four

(* A new stone of colour s on the free point p: lines of the other colour  *)
(* are as before, and a new line of s goes through p.                      *)
LEMMA NewStone ==
  ASSUME NEW b, NEW p \in Points, NEW s, NEW t, s # t, b[p] # t,
         NEW a, a[p] = s, \A q \in Points : q # p => a[q] = b[q]
  PROVE  /\ LineIn(a, t) <=> LineIn(b, t)
         /\ ~LineIn(b, s) => (LineIn(a, s) <=> Through(a, p))
<1> DEFINE Four == {<<0, 1>>, <<1, 0>>, <<1, 1>>, <<1, -1>>}
<1>0. a[p] = s /\ \A q \in Points : q # p => a[q] = b[q]
  OBVIOUS
<1>1. \A q, d, k : Beyond(a, q, d, k) = Beyond(b, q, d, k)
  BY DEF Beyond
<1>2. \A q \in Points : a[q] = t <=> b[q] = t
  BY <1>0
<1>3. ASSUME NEW q, NEW d PROVE LineFrom(a, t, q, d) <=> LineFrom(b, t, q, d)
  <2>1. \A k : Beyond(a, q, d, k) \in Points /\ a[Beyond(a, q, d, k)] = t
                 <=> Beyond(b, q, d, k) \in Points /\ b[Beyond(b, q, d, k)] = t
    <3> SUFFICES ASSUME NEW k
                 PROVE  Beyond(a, q, d, k) \in Points /\ a[Beyond(a, q, d, k)] = t
                          <=> Beyond(b, q, d, k) \in Points /\ b[Beyond(b, q, d, k)] = t
      OBVIOUS
    <3> DEFINE x == Beyond(b, q, d, k)
    <3>1. Beyond(a, q, d, k) = x
      BY <1>1, Zenon
    <3> HIDE DEF x
    <3>2. Beyond(a, q, d, k) \in Points /\ a[Beyond(a, q, d, k)] = t <=> x \in Points /\ b[x] = t
      BY <1>2, <3>1, Zenon
    <3> QED
      BY <3>2, Zenon DEF x
  <2> QED
    BY <2>1, Zenon DEF LineFrom
<1>4. LineIn(a, t) <=> LineIn(b, t)
  BY <1>3, Zenon DEF LineIn
<1>5. ASSUME ~LineIn(b, s), LineIn(a, s) PROVE Through(a, p)
  <2>1. PICK q \in Points, d \in Four : LineFrom(a, s, q, d)
    BY <1>5, Zenon DEF LineIn
  <2>2. ~LineFrom(b, s, q, d)
    BY <1>5, Zenon DEF LineIn
  <2>3. PICK j \in 0 .. FIVE - 1 : ~(Beyond(b, q, d, j) \in Points /\ b[Beyond(b, q, d, j)] = s)
    BY <2>2, Zenon DEF LineFrom
  <2>4. Beyond(a, q, d, j) \in Points /\ a[Beyond(a, q, d, j)] = s
    BY <2>1, Zenon DEF LineFrom
  <2>5. Beyond(a, q, d, j) = p
    BY <1>0, <1>1, <2>3, <2>4, Zenon
  <2>6. LineFrom(a, a[p], q, d)
    BY <1>0, <2>1
  <2> QED
    BY <2>5, <2>6, LineThroughLast, Zenon
<1>6. ASSUME Through(a, p) PROVE LineIn(a, s)
  <2>1. PICK q \in Points, d \in Four : LineFrom(a, a[p], q, d)
    <3>1. \E q \in Points, d \in Four : \E j \in 0 .. FIVE - 1 : Beyond(a, q, d, j) = p /\ LineFrom(a, a[p], q, d)
      BY <1>6, LineThroughLast
    <3> QED
      BY <3>1, Zenon
  <2> QED
    BY <1>0, <2>1 DEF LineIn
<1> QED
  BY <1>4, <1>5, <1>6, Zenon

(* HasLine speaks of the current board.                                    *)
LEMMA HasLineIn == \A s : HasLine(s) <=> LineIn(qp, s)
  BY DEF HasLine, LineIn, LineFrom

LEMMA GomokuStarts == GomokuInit => EndsWithFirstLine
<1> SUFFICES ASSUME GomokuInit PROVE EndsWithFirstLine
  OBVIOUS
<1>0. BOARD \in Nat \ {0} /\ FIVE \in Nat \ {0}
  BY GomokuAssumption
<1>1. qp = [p \in Points |-> "+"] /\ flag = 0 /\ verdict = "none" /\ strayed = FALSE /\ rules \in {gomoku, gomoku_plus, wuziqi}
  BY DEF GomokuInit, init
<1>2. <<0, 0>> \in Points
  BY <1>0 DEF Points, Lines15
<1>3. ~BoardFull(qp)
  BY <1>1, <1>2 DEF BoardFull
<1>4. \A s \in {"0", "X"} : ~HasLine(s)
  <2> SUFFICES ASSUME NEW s \in {"0", "X"}, HasLine(s) PROVE FALSE
    OBVIOUS
  <2>1. 0 \in 0 .. FIVE - 1
    BY <1>0
  <2>2. PICK q \in Points : qp[q] = s
    BY <2>1 DEF HasLine
  <2> QED
    BY <1>1, <2>2
<1>5. qp \in [Points -> {"+", "0", "X"}]
  BY <1>1
<1>6. flag \in 0 .. 2
  BY <1>1
<1>7. GomokuTypeOK
  BY <1>1, <1>5, <1>6, Zenon DEF GomokuTypeOK
<1> QED
  BY <1>1, <1>3, <1>4, <1>7 DEF EndsWithFirstLine

LEMMA GomokuStep == EndsWithFirstLine /\ [GomokuNext]_gomokuVars => EndsWithFirstLine'
<1> SUFFICES ASSUME EndsWithFirstLine, [GomokuNext]_gomokuVars PROVE EndsWithFirstLine'
  OBVIOUS
<1>0. /\ rules \in {gomoku, gomoku_plus, wuziqi} /\ qp \in [Points -> {"+", "0", "X"}]
      /\ flag \in 0 .. 2 /\ verdict \in {"none", "draw", "one", "two"} /\ strayed \in BOOLEAN
  BY DEF EndsWithFirstLine, GomokuTypeOK
<1>1. ~strayed =>
        /\ verdict = "none" <=> ~BoardFull(qp) /\ ~LineIn(qp, "0") /\ ~LineIn(qp, "X")
        /\ (verdict = "one" => LineIn(qp, "0")) /\ (verdict = "two" => LineIn(qp, "X"))
        /\ ~BoardFull(qp) => (LineIn(qp, "0") => verdict = "one") /\ (LineIn(qp, "X") => verdict = "two")
        /\ verdict = "draw" => BoardFull(qp)
  BY HasLineIn, Zenon DEF EndsWithFirstLine
<1>2. \A s : HasLine(s)' <=> LineIn(qp', s)
  BY DEF HasLine, LineIn, LineFrom
<1>3. CASE ChooseFirst \/ UNCHANGED gomokuVars
  <2>1. qp' = qp /\ verdict' = verdict /\ rules' = rules /\ flag' \in 0 .. 2 /\ strayed' = strayed
    BY <1>0, <1>3 DEF ChooseFirst, gomokuVars
  <2>2. GomokuTypeOK'
    BY <1>0, <2>1 DEF GomokuTypeOK
  <2>3. BoardFull(qp') <=> BoardFull(qp)
    BY <2>1
  <2> QED
    BY <1>1, <1>2, <2>1, <2>2, <2>3, Zenon DEF EndsWithFirstLine
<1>4. CASE Play
  <2>1. flag \in {1, 2} /\ verdict = "none" /\ rules' = rules /\ flag' \in 0 .. 2
    BY <1>0, <1>4 DEF Play
  <2>2. PICK p \in Coordinates \X Coordinates, c \in Points, outside \in BOOLEAN :
          /\ Names(p, c) /\ qp[c] = "+" /\ qp' = StoneSet(c)
          /\ verdict' = ifwin(qp', Stone(flag), p, outside) /\ strayed' = (strayed \/ p \notin Points)
    BY <1>4 DEF Play
  <2> DEFINE s == Stone(flag)
             t == IF flag = 1 THEN "X" ELSE "0"
             won == IF flag = 1 THEN "one" ELSE "two"
  <2>3. /\ s \in {"0", "X"} /\ t \in {"0", "X"} /\ s # t /\ qp' = [qp EXCEPT ![c] = s]
        /\ flag = 1 => s = "0" /\ t = "X" /\ won = "one"
        /\ flag # 1 => s = "X" /\ t = "0" /\ won = "two"
    BY <2>1, <2>2 DEF Stone, StoneSet
  <2>5. verdict' = IF BoardFull(qp') THEN "draw" ELSE IF LineThrough(qp', s, p, outside) THEN won ELSE "none"
    BY <1>0, <2>2 DEF ifwin, gomoku, gomoku_plus, wuziqi
  <2> HIDE DEF s, t, won
  <2>7. GomokuTypeOK'
    <3>1. qp' \in [Points -> {"+", "0", "X"}]
      BY <1>0, <2>3
    <3>2. verdict' \in {"none", "draw", "one", "two"}
      BY <2>3, <2>5
    <3>3. strayed' \in BOOLEAN
      BY <2>2
    <3> QED
      BY <1>0, <2>1, <3>1, <3>2, <3>3 DEF GomokuTypeOK
  <2>8. ASSUME ~strayed'
        PROVE  /\ verdict' = "none" <=> ~BoardFull(qp') /\ ~LineIn(qp', "0") /\ ~LineIn(qp', "X")
               /\ (verdict' = "one" => LineIn(qp', "0")) /\ (verdict' = "two" => LineIn(qp', "X"))
               /\ ~BoardFull(qp') => (LineIn(qp', "0") => verdict' = "one") /\ (LineIn(qp', "X") => verdict' = "two")
               /\ verdict' = "draw" => BoardFull(qp')
    <3>1. ~strayed /\ p \in Points
      BY <2>2, <2>8, Zenon
    <3>2. p = c
      BY <2>2, <3>1, OwnByte, Zenon
    <3>3. ~LineIn(qp, s) /\ ~LineIn(qp, t)
      BY <1>1, <2>1, <2>3, <3>1
    <3>4. qp'[c] = s /\ \A q \in Points : q # c => qp'[q] = qp[q]
      BY <1>0, <2>3
    <3>5. qp[c] # t /\ s # t
      BY <2>2, <2>3
    <3>6. (LineIn(qp', t) <=> LineIn(qp, t)) /\ (~LineIn(qp, s) => (LineIn(qp', s) <=> Through(qp', c)))
      BY <3>4, <3>5, NewStone, Zenon
    <3>7. LineThrough(qp', s, p, outside) <=> Through(qp', c)
      BY <3>1, <3>2, <3>4, LineOnBoard, Zenon
    <3>8. ~LineIn(qp', t) /\ (LineIn(qp', s) <=> LineThrough(qp', s, p, outside))
      BY <3>3, <3>6, <3>7, Zenon
    <3> QED
      BY <2>3, <2>5, <3>8
  <2> QED
    BY <1>2, <2>7, <2>8, Zenon DEF EndsWithFirstLine
<1> QED
  BY <1>3, <1>4 DEF GomokuNext

(* On boards of any size and for lines of up to that length, as long as no *)
(* coordinate outside the board is accepted: ifwin, which only counts in   *)
(* both directions from the last stone, ends the game with the first line  *)
(* anywhere or with a full board, the owner of a line wins unless the      *)
(* board is full, and nobody else ever does.                               *)
THEOREM GameEndsWithFirstLine == GomokuSpec => []EndsWithFirstLine
  BY GomokuStarts, GomokuStep, PTL DEF GomokuSpec
-----------------------------------------------------------------------------
(* The recipe manager. *)

(* A list that a next_id may go with. *)
Fresh(list, id) == Distinct(list) /\ \A k \in DOMAIN list : list[k] < id

FileType == [written : BOOLEAN, next_id : 1 .. MaxRecipeId + 1, list : Seq(RecipeIds)]

RecipeInv ==
  /\ RecipeTypeOK
  /\ ~recipes_dat.written => recipes_dat.list = <<>>
  /\ ~staleIds => Fresh(recipes, next_id) /\ Fresh(recipes_dat.list, recipes_dat.next_id)

LEMMA FileFields ==
  ASSUME RecipeTypeOK
  PROVE  /\ recipes_dat.written \in BOOLEAN
         /\ recipes_dat.next_id \in 1 .. MaxRecipeId + 1
         /\ recipes_dat.list \in Seq(RecipeIds)
  BY DEF RecipeTypeOK

LEMMA NoneIsFresh == ASSUME NEW id PROVE Fresh(<<>>, id) /\ <<>> \in Seq(RecipeIds)
  BY DEF Fresh, Distinct

LEMMA PrefixIsFresh ==
  ASSUME NEW list \in Seq(RecipeIds), NEW k \in 0 .. Len(list)
  PROVE  /\ SubSeq(list, 1, k) \in Seq(RecipeIds)
         /\ \A id : Fresh(list, id) => Fresh(SubSeq(list, 1, k), id)
<1>1. /\ SubSeq(list, 1, k) \in Seq(RecipeIds)
      /\ Len(SubSeq(list, 1, k)) = k
      /\ \A j \in 1 .. k : SubSeq(list, 1, k)[j] = list[j]
  OBVIOUS
<1> QED
  BY <1>1 DEF Fresh, Distinct

(* New ids start at next_id: they are distinct and not in the list. *)
LEMMA AddIsFresh ==
  ASSUME RecipeAssumption, NEW list \in Seq(RecipeIds), NEW id \in 1 .. MaxRecipeId + 1, NEW n \in 1 .. 3,
         id + n <= MaxRecipeId + 1, NEW new, new = [k \in 1 .. n |-> id + k - 1]
  PROVE  /\ list \o new \in Seq(RecipeIds)
         /\ Fresh(list, id) => Fresh(list \o new, id + n)
<1> USE RecipeAssumption DEF RecipeIds
<1>1. new \in Seq(RecipeIds) /\ Len(new) = n /\ \A k \in 1 .. n : new[k] = id + k - 1
  <2>1. \A k \in 1 .. n : id + k - 1 \in RecipeIds
    BY DEF RecipeAssumption
  <2>2. new \in [1 .. n -> RecipeIds] /\ n \in Nat
    BY <2>1
  <2> QED
    BY <2>2
<1>2. /\ list \o new \in Seq(RecipeIds)
      /\ Len(list \o new) = Len(list) + n
      /\ \A k \in 1 .. Len(list) : (list \o new)[k] = list[k]
      /\ \A k \in Len(list) + 1 .. Len(list) + n : (list \o new)[k] = new[k - Len(list)]
  BY <1>1
<1>3. \A k \in Len(list) + 1 .. Len(list) + n : (list \o new)[k] = id + k - Len(list) - 1
  BY <1>1, <1>2
<1>4. \A k \in 1 .. Len(list) : list[k] \in Int
  OBVIOUS
<1> HIDE DEF RecipeIds
<1>5. ASSUME Fresh(list, id) PROVE Fresh(list \o new, id + n)
  <2>1. DOMAIN (list \o new) = 1 .. Len(list) + n /\ Len(list) \in Nat /\ DOMAIN list = 1 .. Len(list)
    BY <1>2
  <2>2. \A k \in 1 .. Len(list) : list[k] < id
    BY <1>5, <2>1 DEF Fresh
  <2> HIDE DEF Distinct
  <2>3. \A j, k \in 1 .. Len(list) : j # k => list[j] # list[k]
    BY <1>5, <2>1 DEF Fresh, Distinct
  <2>4. \A k \in 1 .. Len(list) + n :
          \/ k \in 1 .. Len(list) /\ (list \o new)[k] = list[k]
          \/ k \in Len(list) + 1 .. Len(list) + n /\ (list \o new)[k] = id + k - Len(list) - 1
    BY <1>2, <1>3, <2>1
  <2>5. \A k \in DOMAIN (list \o new) : (list \o new)[k] < id + n
    BY <1>4, <2>1, <2>2, <2>4, SMTT(20)
  <2>6. ASSUME NEW j \in 1 .. Len(list) + n, NEW k \in 1 .. Len(list) + n, j # k
        PROVE  (list \o new)[j] # (list \o new)[k]
    BY <1>4, <2>1, <2>2, <2>3, <2>4, <2>6
  <2>7. Distinct(list \o new)
    BY <2>1, <2>6 DEF Distinct
  <2> QED
    BY <2>5, <2>7 DEF Fresh
<1> QED
  BY <1>2, <1>5

LEMMA DeleteIsFresh ==
  ASSUME NEW list \in Seq(RecipeIds), NEW d \in DOMAIN list
  PROVE  /\ WithoutFirst(list, list[d]) \in Seq(RecipeIds)
         /\ \A id : Fresh(list, id) => Fresh(WithoutFirst(list, list[d]), id)
<1> DEFINE First(k) == list[k] = list[d] /\ \A j \in 1 .. k - 1 : list[j] # list[d]
           f == CHOOSE k \in DOMAIN list : First(k)
           less == [k \in 1 .. Len(list) - 1 |-> IF k < f THEN list[k] ELSE list[k + 1]]
<1>1. WithoutFirst(list, list[d]) = less
  BY DEF WithoutFirst
<1>2. Len(list) - 1 \in Nat /\ DOMAIN list = 1 .. Len(list)
  OBVIOUS
<1>3. ASSUME NEW k \in 1 .. Len(list) - 1
      PROVE  k \in DOMAIN list /\ k + 1 \in DOMAIN list
  BY <1>2
<1>4. less \in Seq(RecipeIds) /\ DOMAIN less = 1 .. Len(list) - 1
  <2>1. less \in [1 .. Len(list) - 1 -> RecipeIds]
    BY <1>2, <1>3
  <2> QED
    BY <1>2, <2>1
<1>5. ASSUME NEW id, Fresh(list, id) PROVE Fresh(less, id)
  <2>1. First(d)
    BY <1>2, <1>5 DEF Fresh, Distinct
  <2>2. f \in DOMAIN list
    <3> HIDE DEF First
    <3> QED
      BY <2>1
  <2> HIDE DEF f
  <2>3. f \in Int
    BY <1>2, <2>2
  <2>4. ASSUME NEW k \in 1 .. Len(list) - 1
        PROVE  /\ k \in DOMAIN list /\ k + 1 \in DOMAIN list
               /\ less[k] = IF k < f THEN list[k] ELSE list[k + 1]
    BY <1>3
  <2>5. ASSUME NEW j \in 1 .. Len(list) - 1, NEW k \in 1 .. Len(list) - 1, j # k
        PROVE  less[j] # less[k]
    <3> DEFINE J == IF j < f THEN j ELSE j + 1
               K == IF k < f THEN k ELSE k + 1
    <3>1. J \in DOMAIN list /\ K \in DOMAIN list /\ J # K
      BY <1>2, <2>3, <2>5
    <3>2. less[j] = list[J] /\ less[k] = list[K]
      BY <2>4
    <3> QED
      BY <1>5, <3>1, <3>2 DEF Fresh, Distinct
  <2>6. \A k \in 1 .. Len(list) - 1 : less[k] < id
    BY <1>5, <2>4 DEF Fresh
  <2> QED
    BY <1>4, <2>5, <2>6 DEF Fresh, Distinct
<1> HIDE DEF less
<1> QED
  BY <1>1, <1>4, <1>5

LEMMA RecipeStep == ASSUME RecipeInv, RecipeNext PROVE RecipeInv'
<1> USE RecipeAssumption
<1>0. /\ recipes \in Seq(RecipeIds) /\ next_id \in 1 .. MaxRecipeId + 1
      /\ recipes_dat \in FileType
      /\ cooking \in {"menu", "exited"} /\ staleIds \in BOOLEAN
  BY DEF RecipeInv, RecipeTypeOK, FileType
<1>00. /\ recipes_dat.written \in BOOLEAN
       /\ recipes_dat.next_id \in 1 .. MaxRecipeId + 1
       /\ recipes_dat.list \in Seq(RecipeIds)
  BY FileFields DEF RecipeInv
<1>1. ASSUME NEW n \in 1 .. 3, AddRecipes(n) PROVE RecipeInv'
  <2> DEFINE new == [k \in 1 .. n |-> next_id + k - 1]
  <2>1. recipes' = recipes \o new /\ next_id' = next_id + n /\ UNCHANGED <<recipes_dat, cooking, staleIds>>
    BY <1>1 DEF AddRecipes, create_recipe, add_recipe_to_list
  <2>2. next_id + n <= MaxRecipeId + 1
    BY <1>1 DEF AddRecipes
  <2>3. /\ recipes \o new \in Seq(RecipeIds)
        /\ Fresh(recipes, next_id) => Fresh(recipes \o new, next_id + n)
    <3> HIDE DEF new
    <3>1. new = [k \in 1 .. n |-> next_id + k - 1]
      BY DEF new
    <3> QED
      BY <1>0, <2>2, <3>1, AddIsFresh
  <2>4. next_id' \in 1 .. MaxRecipeId + 1
    BY <1>0, <2>1, <2>2
  <2> HIDE DEF new
  <2> QED
    BY <1>0, <2>1, <2>3, <2>4, Zenon DEF RecipeInv, RecipeTypeOK
<1>2. CASE delete_recipe_by_id
  <2>1. PICK d \in DOMAIN recipes : recipes' = WithoutFirst(recipes, recipes[d])
    BY <1>2 DEF delete_recipe_by_id
  <2>2. UNCHANGED <<next_id, recipes_dat, cooking, staleIds>>
    BY <1>2 DEF delete_recipe_by_id
  <2>3. recipes' \in Seq(RecipeIds) /\ \A id : Fresh(recipes, id) => Fresh(recipes', id)
    BY <1>0, <2>1, DeleteIsFresh
  <2> QED
    BY <1>0, <2>2, <2>3, Zenon DEF RecipeInv, RecipeTypeOK
<1>3. ASSUME recipes_dat' = Saved(recipes), UNCHANGED staleIds, cooking' \in {"menu", "exited"},
             UNCHANGED next_id, recipes' = recipes \/ recipes' = <<>>
      PROVE  RecipeInv'
  <2>1. /\ recipes_dat' \in FileType
        /\ recipes_dat'.written = TRUE /\ recipes_dat'.next_id = next_id /\ recipes_dat'.list = recipes
    BY <1>0, <1>3 DEF Saved, FileType
  <2>2. recipes' \in Seq(RecipeIds) /\ (Fresh(recipes, next_id) => Fresh(recipes', next_id))
    BY <1>0, <1>3, NoneIsFresh
  <2> QED
    BY <1>0, <1>3, <2>1, <2>2, Zenon DEF RecipeInv, RecipeTypeOK, FileType
<1>4. CASE save_recipes_to_file
  BY <1>0, <1>3, <1>4, Zenon DEF save_recipes_to_file
<1>5. CASE Exit
  <2>1. CASE UNCHANGED recipes_dat
    <3>1. recipes' = <<>> /\ UNCHANGED <<next_id, staleIds>> /\ cooking' = "exited"
      BY <1>5 DEF Exit
    <3> QED
      BY <1>0, <2>1, <3>1, NoneIsFresh, Zenon DEF RecipeInv, RecipeTypeOK
  <2>2. CASE recipes_dat' = Saved(recipes)
    BY <1>3, <1>5, <2>2, Zenon DEF Exit
  <2> QED
    BY <1>5, <2>1, <2>2 DEF Exit
<1>6. ASSUME NEW new \in load_recipes_from_file
      PROVE  /\ new \in Seq(RecipeIds)
             /\ Fresh(recipes_dat.list, recipes_dat.next_id) => Fresh(new, recipes_dat.next_id)
  BY <1>00, PrefixIsFresh DEF load_recipes_from_file
<1>7. CASE Reload
  <2>1. PICK new \in load_recipes_from_file :
          /\ recipes' = IF new = <<>> THEN recipes ELSE new
          /\ staleIds' = (staleIds \/ (new = <<>> /\ recipes # <<>>))
    BY <1>7 DEF Reload
  <2>2. next_id' = recipes_dat.next_id /\ UNCHANGED <<recipes_dat, cooking>>
    BY <1>7 DEF Reload
  <2>3. staleIds' \in BOOLEAN /\ (~staleIds' => ~staleIds /\ ~(new = <<>> /\ recipes # <<>>))
    BY <1>0, <2>1, Zenon
  <2>4. recipes' \in Seq(RecipeIds)
    BY <1>0, <1>6, <2>1
  <2>5. ~staleIds' => recipes' = new
    BY <2>1, <2>3
  <2> QED
    BY <1>0, <1>00, <1>6, <2>2, <2>3, <2>4, <2>5, Zenon DEF RecipeInv, RecipeTypeOK
<1>8. CASE Start
  <2>1. /\ recipes' \in load_recipes_from_file /\ UNCHANGED <<recipes_dat, staleIds>> /\ cooking' = "menu"
        /\ next_id' = IF recipes_dat.written THEN recipes_dat.next_id ELSE 1
    BY <1>8 DEF Start
  <2>2. next_id' \in 1 .. MaxRecipeId + 1 /\ recipes' \in Seq(RecipeIds)
    BY <1>00, <1>6, <2>1
  <2>3. ~staleIds => Fresh(recipes', next_id')
    <3>1. CASE recipes_dat.written
      BY <1>6, <2>1, <3>1, Zenon DEF RecipeInv
    <3>2. CASE ~recipes_dat.written
      <4>1. recipes_dat.list = <<>>
        BY <3>2 DEF RecipeInv
      <4>2. recipes' = <<>>
        BY <2>1, <4>1 DEF load_recipes_from_file
      <4> QED
        BY <4>2, NoneIsFresh
    <3> QED
      BY <3>1, <3>2
  <2> QED
    BY <1>0, <2>1, <2>2, <2>3, Zenon DEF RecipeInv, RecipeTypeOK
<1> QED
  BY <1>1, <1>2, <1>4, <1>5, <1>7, <1>8 DEF RecipeNext, add_new_recipe, add_sample_recipes

(* Across adds, deletions, saves, loads and restarts no two recipes of the *)
(* list or of the file share an id and none is given again, unless command *)
(* 7 kept a list and took next_id back.                                    *)
THEOREM RecipeIdsAreUnique == RecipeSpec => []IdsAreUnique
<1>1. RecipeInit => RecipeInv
  <2> SUFFICES ASSUME RecipeInit PROVE RecipeInv
    OBVIOUS
  <2>1. recipes_dat = [written |-> FALSE, next_id |-> 1, list |-> <<>>]
    BY DEF RecipeInit
  <2>2. 1 \in 1 .. MaxRecipeId + 1 /\ <<>> \in Seq(RecipeIds)
    BY RecipeAssumption
  <2>3. recipes_dat \in FileType
    BY <2>1, <2>2 DEF FileType
  <2>4. recipes_dat.list = <<>>
    BY <2>1
  <2> QED
    BY <2>2, <2>3, <2>4, NoneIsFresh, Zenon DEF RecipeInit, RecipeInv, RecipeTypeOK, FileType
<1>2. RecipeInv /\ [RecipeNext]_recipeVars => RecipeInv'
  <2>1. ASSUME RecipeInv, UNCHANGED recipeVars PROVE RecipeInv'
    BY <2>1, Zenon DEF recipeVars, RecipeInv, RecipeTypeOK, Fresh, Distinct
  <2> QED
    BY <2>1, RecipeStep
<1>3. RecipeInv => IdsAreUnique
  BY Zenon DEF RecipeInv, IdsAreUnique, Fresh
<1> QED
  BY <1>1, <1>2, <1>3, PTL DEF RecipeSpec
=============================================================================
