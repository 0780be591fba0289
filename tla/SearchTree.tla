----------------------------- MODULE SearchTree -----------------------------
(***************************************************************************)
(* The binary search tree of tree/01tree.c, with deletion by grafting and  *)
(* the balancing that turns a node until its two sides hold about as many  *)
(* nodes.  A struct tree_node ** of the code is a place: the variable      *)
(* tree, or a side of a node; child says what is in it.  A node is named   *)
(* by the student in it, who never moves to another node.  A call is one   *)
(* step, and so is one turn of the balancing loop.                         *)
(***************************************************************************)
EXTENDS Integers, Sequences, FiniteSets

CONSTANTS
  Students,   \* data of the nodes: an id and the rest
  TreeIds,    \* the ids in use
  NoNode      \* the null pointer

ASSUME TreeAssumption ==
  /\ IsFiniteSet(Students) /\ NoNode \notin Students
  /\ TreeIds \subseteq Int /\ \A s \in Students : s.id \in TreeIds

Tree == <<NoNode, "l">>
Sides == {"l", "r"}
Places == {Tree} \cup (Students \X Sides)

VARIABLES
  child,      \* the node in a place, or NoNode
  work,       \* places tree_balance still has to visit
  settled,    \* the last operation was a tree_balance that has returned
  stored      \* history: how many of each id were inserted and not deleted

treeVars == <<child, work, settled, stored>>

-----------------------------------------------------------------------------
(* The nodes in place p of a tree c and below: no smaller set has the node *)
(* there and every child of its own.                                       *)
Below(c, p) ==
  LET closed == {X \in SUBSET Students :
                   \A x \in X, d \in Sides : c[<<x, d>>] \in X \cup {NoNode}}
  IN {m \in Students : c[p] # NoNode /\ \A X \in closed : c[p] \in X => m \in X}

InTree == Below(child, Tree)
getnum(p) == Cardinality(Below(child, p))

(* The nodes passed when a link of each node is followed from node n, and  *)
(* the one where this ends.                                                *)
Along(link, n) ==
  LET closed == {X \in SUBSET Students : n \in X /\ \A x \in X : link[x] \in X \cup {NoNode}}
  IN {m \in Students : \A X \in closed : m \in X}
LastOf(link, n) == CHOOSE m \in Along(link, n) : link[m] = NoNode

find_max(c, n) == LastOf([x \in Students |-> c[<<x, "r">>]], n)
find_min(c, n) == LastOf([x \in Students |-> c[<<x, "l">>]], n)

(* Where insertion goes at node x: what is equal goes to the left. *)
Side(x, id) == IF x.id < id THEN "r" ELSE "l"

InsertPlace(id) ==
  LET last == LastOf([x \in Students |-> child[<<x, Side(x, id)>>]], child[Tree])
  IN IF child[Tree] = NoNode THEN Tree ELSE <<last, Side(last, id)>>

(* How a search goes on from a node: it stops where the id is. *)
Search(id) == [x \in Students |-> IF x.id = id THEN NoNode ELSE child[<<x, Side(x, id)>>]]

tree_find(id) == child[Tree] # NoNode /\ LastOf(Search(id), child[Tree]).id = id

(* The place whose node a search for the id ends at. *)
FoundPlace(id) ==
  LET found == LastOf(Search(id), child[Tree])
      last == CHOOSE x \in Along(Search(id), child[Tree]) : Search(id)[x] = found
  IN IF child[Tree] = found THEN Tree ELSE <<last, Side(last, id)>>

(* The node in place p is replaced by its left side, under whose maximum   *)
(* the right side goes.                                                    *)
GraftedLosingRight(p) ==
  LET n == child[p] IN
  [child EXCEPT ![p] = IF child[<<n, "l">>] = NoNode THEN child[<<n, "r">>] ELSE child[<<n, "l">>]]
Grafted(p) ==
  LET n == child[p]
      left == child[<<n, "l">>]
      up == [child EXCEPT ![p] = left]
  IN IF left = NoNode THEN [child EXCEPT ![p] = child[<<n, "r">>]]
     ELSE [up EXCEPT ![<<find_max(up, left), "r">>] = child[<<n, "r">>]]

Cleared(c, n) == [c EXCEPT ![<<n, "l">>] = NoNode, ![<<n, "r">>] = NoNode]

turnleft(p) ==
  LET n == child[p]
      right == child[<<n, "r">>]
      up == [child EXCEPT ![p] = right, ![<<n, "r">>] = NoNode]
  IN [up EXCEPT ![<<find_min(up, right), "l">>] = n]

turnright(p) ==
  LET n == child[p]
      left == child[<<n, "l">>]
      up == [child EXCEPT ![p] = left, ![<<n, "l">>] = NoNode]
  IN [up EXCEPT ![<<find_max(up, left), "r">>] = n]

-----------------------------------------------------------------------------
TreeInit ==
  /\ child = [p \in Places |-> NoNode]
  /\ work = <<>> /\ settled = FALSE
  /\ stored = [id \in TreeIds |-> 0]

(* malloc may refuse the node, and then nobody is told. *)
tree_insert(s) ==
  /\ work = <<>> /\ s \notin InTree
  /\ \/ /\ child' = [Cleared(child, s) EXCEPT ![InsertPlace(s.id)] = s]
        /\ stored' = [stored EXCEPT ![s.id] = @ + 1]
     \/ UNCHANGED <<child, stored>>
  /\ settled' = FALSE /\ UNCHANGED work

tree_delete(id) ==
  /\ work = <<>>
  /\ child' = IF tree_find(id) THEN Cleared(Grafted(FoundPlace(id)), child[FoundPlace(id)])
              ELSE child
  /\ stored' = [stored EXCEPT ![id] = IF @ = 0 THEN 0 ELSE @ - 1]
  /\ settled' = FALSE /\ UNCHANGED work

tree_balance ==
  /\ work = <<>>
  /\ work' = <<Tree>>
  /\ settled' = FALSE /\ UNCHANGED <<child, stored>>

EvenExactly(n) == getnum(<<n, "l">>) = getnum(<<n, "r">>)
Even(n) == getnum(<<n, "l">>) - getnum(<<n, "r">>) \in -1 .. 1

(* One turn of the loop in tree_balance for the place in hand, or its end: *)
(* the left and then the right side are next.                              *)
BalanceStep ==
  /\ work # <<>>
  /\ LET p == Head(work)
         n == child[p]
     IN \/ n = NoNode /\ work' = Tail(work) /\ UNCHANGED child
        \/ /\ n # NoNode /\ Even(n)
           /\ work' = << <<n, "l">>, <<n, "r">> >> \o Tail(work)
           /\ UNCHANGED child
        \/ /\ n # NoNode /\ ~Even(n)
           /\ child' = IF getnum(<<n, "l">>) < getnum(<<n, "r">>) THEN turnleft(p) ELSE turnright(p)
           /\ UNCHANGED work
  /\ settled' = (work' = <<>>)
  /\ UNCHANGED stored

TreeNext ==
  \/ \E s \in Students : tree_insert(s)
  \/ \E id \in TreeIds : tree_delete(id)
  \/ tree_balance \/ BalanceStep

TreeSpec == TreeInit /\ [][TreeNext]_treeVars /\ WF_treeVars(BalanceStep)

-----------------------------------------------------------------------------
(***************************************************************************)
(* The links make a tree that holds each id as often as it was inserted    *)
(* and not deleted, and what is to the left of a node is not greater, what *)
(* is to the right not less; so a search finds what is there.  It holds    *)
(* between two turns of tree_balance too: grafting and turning lose no     *)
(* subtree and put none on the wrong side, duplicates included.            *)
(***************************************************************************)
TreeIsSorted ==
  /\ \A n \in InTree :
       LET left == Below(child, <<n, "l">>)
           right == Below(child, <<n, "r">>)
       IN /\ n \notin left \cup right /\ left \cap right = {}
          /\ \A x \in left : x.id <= n.id
          /\ \A x \in right : n.id <= x.id
  /\ \A id \in TreeIds :
       /\ stored[id] = Cardinality({n \in InTree : n.id = id})
       /\ tree_find(id) <=> stored[id] > 0

(* When tree_balance has returned, no node has sides that differ by more   *)
(* than one: work on a side never disturbs the nodes above it.             *)
LeftEven == settled => \A n \in InTree : getnum(<<n, "l">>) - getnum(<<n, "r">>) \in -1 .. 1

(* Node y is left of node x, and the nodes x hangs under.                  *)
Before(c, y, x) ==
  \/ y \in Below(c, <<x, "l">>) \/ x \in Below(c, <<y, "r">>)
  \/ \E z \in Below(c, Tree) : y \in Below(c, <<z, "l">>) /\ x \in Below(c, <<z, "r">>)
Over(c, x) == {y \in Below(c, Tree) : x \in Below(c, <<y, "l">>) \cup Below(c, <<y, "r">>)}

(* In the middle of what is below p: the node that p needs in it. *)
Middle(c, p, x) ==
  /\ x \in Below(c, p)
  /\ Cardinality({y \in Below(c, p) : Before(c, y, x)})
       - Cardinality({y \in Below(c, p) : Before(c, x, y)}) \in -1 .. 1

(***************************************************************************)
(* Turning left and turning right never chase each other: there is a node  *)
(* in the middle, it stays there, and each turn takes one node from above  *)
(* it, also when the last turn went too far and this one goes back.        *)
(***************************************************************************)
TurnsCloseIn ==
  [][work # <<>> /\ child' # child =>
       /\ \E x \in InTree : Middle(child, Head(work), x)
       /\ \A x \in InTree : Middle(child, Head(work), x) =>
            /\ Middle(child', Head(work), x)
            /\ Cardinality(Over(child', x)) = Cardinality(Over(child, x)) - 1]_treeVars

(* So tree_balance's while(1) ends, and when it has, the tree is even.     *)
BalanceEnds == []<>(work = <<>>) /\ []LeftEven /\ TurnsCloseIn
=============================================================================
