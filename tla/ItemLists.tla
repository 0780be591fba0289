----------------------------- MODULE ItemLists ------------------------------
(***************************************************************************)
(* What the linked lists of the repository promise their callers: each     *)
(* list is a sequence of items, a search returns the first item with the   *)
(* id, and a call that reports a failure has changed nothing but what a    *)
(* replacement had to take out first.  LinkedList implements this with     *)
(* cells and pointers.  An operation relates the sequence before (s) and   *)
(* after (t) of one list, and the answer.                                  *)
(***************************************************************************)
EXTENDS Integers, Sequences, SequencesExt

CONSTANTS Heads, Items, Gone, NULL

VARIABLES lists, answer

absVars == <<lists, answer>>

Returns(r) == [ret |-> r, data |-> NULL]
Delivers(it) == [ret |-> "ok", data |-> it]
Refusals == {"nomem", "badmode", "duplicate", "missing"}

HasId(s, id) == \E i \in DOMAIN s : s[i].id = id
FirstWithId(s, id) == s[SelectInSeq(s, LAMBDA it : it.id = id)]
WithoutFirst(s, id) == RemoveFirstMatch(s, LAMBDA it : it.id = id)

AbsInit == lists = [h \in Heads |-> <<>>] /\ answer = Returns("none")

Refuse(s, t) == t = s /\ \E r \in Refusals : answer' = Returns(r)

(* A push onto the list-based stack reports success even without memory. *)
LosePush(s, t) == t = s /\ answer' = Returns("ok")

Insert(s, t) ==
  /\ answer' = Returns("ok")
  /\ \E it \in Items : t = <<it>> \o s \/ t = Append(s, it)

(* A replacement first takes the old item out; the new one may then fail. *)
Replace(s, t) ==
  \E it \in Items :
    /\ HasId(s, it.id)
    /\ \/ answer' = Returns("ok") /\ t = Append(WithoutFirst(s, it.id), it)
       \/ answer' = Returns("nomem") /\ t = WithoutFirst(s, it.id)

Find(s, t) ==
  /\ t = s
  /\ \E i \in DOMAIN s : answer' = Delivers(FirstWithId(s, s[i].id))

Delete(s, t) ==
  /\ answer' = Returns("ok")
  /\ \E i \in DOMAIN s : t = WithoutFirst(s, s[i].id)

Fetch(s, t) ==
  \E i \in DOMAIN s :
    answer' = Delivers(FirstWithId(s, s[i].id)) /\ t = WithoutFirst(s, s[i].id)

TakeFirst(s, t) == s # <<>> /\ answer' = Delivers(Head(s)) /\ t = Tail(s)

Drop(t) == t = Gone /\ answer' = Returns("ok")

AbsNext ==
  \E h \in Heads :
    LET s == lists[h]
        t == lists'[h]
    IN /\ s # Gone
       /\ \A g \in Heads \ {h} : lists'[g] = lists[g]
       /\ \/ Drop(t)
          \/ /\ t # Gone
             /\ \/ Refuse(s, t) \/ LosePush(s, t) \/ Insert(s, t) \/ Replace(s, t)
                \/ Find(s, t) \/ Delete(s, t) \/ Fetch(s, t) \/ TakeFirst(s, t)

AbsSpec == AbsInit /\ [][AbsNext]_absVars
=============================================================================
