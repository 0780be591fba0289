---------------------------- MODULE MCContainers ----------------------------
(***************************************************************************)
(* The sequential programs, one of which is run: the list files, the       *)
(* search tree, the calculators, five in a row and the recipe manager.     *)
(* The state of the others does not change.                                *)
(***************************************************************************)
EXTENDS LinkedList, SearchTree, Calculator, Gomoku, Recipes

CONSTANTS c1, c2, c3

VARIABLE running

vars == <<running, listVars, treeVars, calcVars, gomokuVars, recipeVars>>

(* Two items with one id and a third that collides with them. *)
ThreeCells == {c1, c2, c3}
ThreeItems == {[id |-> 1, tag |-> "a"], [id |-> 1, tag |-> "b"], [id |-> 3, tag |-> "a"]}

(* Two pairs of twins: grafting and turning must cope with equal ids on    *)
(* both sides, and a tree of six is turned in a subtree as well.           *)
SixStudents ==
  {[id |-> id, tag |-> "a"] : id \in {1, 2, 3, 4}} \cup {[id |-> id, tag |-> "b"] : id \in {2, 3}}

(* What may be typed: every sequence of up to four tokens with a number in *)
(* it, and every expression of up to seven.                                *)
Tokens == {Num(0), Num(2), Num(3), Op("+"), Op("-"), Op("/"), Op("("), Op(")"), Op("?")}
Typed == {s \in UNION {[1 .. n -> Tokens] : n \in 1 .. 4} : \E i \in DOMAIN s : s[i].k = "num"}
RECURSIVE Expressions(_)
Expressions(n) ==
  IF n = 1 THEN {<<Num(2)>>, <<Num(3)>>}
  ELSE {<<Op("(")>> \o e \o <<Op(")")>> : e \in Expressions(n - 2)}
         \cup UNION {{a \o <<Op(k)>> \o b : k \in {"-", "*"}, a \in Expressions(i),
                                            b \in Expressions(n - 1 - i)} :
                     i \in {j \in 1 .. n - 2 : j % 2 = 1}}
TypedOrRight == Typed \cup UNION {Expressions(n) : n \in {1, 3, 5, 7}}

(* The two programs, and the first with stacks small enough to overflow. *)
SomePrograms == {Repolish, Test, [Repolish EXCEPT !.STACKSIZE = 2]}

(* What is typed at the board of five in a row: its points, and one row    *)
(* and one column more on every side.                                      *)
OneOff == -1 .. BOARD

Unused(v) ==
  /\ v # "list" => file = Lib2List
  /\ v # "calculator" => program = Repolish /\ infix = <<Num(2)>>

Init ==
  /\ running \in {"list", "tree", "calculator", "gomoku", "recipes"}
  /\ ListInit /\ TreeInit /\ CalcInit /\ GomokuInit /\ RecipeInit
  /\ Unused(running)

Next ==
  /\ UNCHANGED running
  /\ \/ running = "list" /\ ListNext /\ UNCHANGED <<treeVars, calcVars, gomokuVars, recipeVars>>
     \/ running = "tree" /\ TreeNext /\ UNCHANGED <<listVars, calcVars, gomokuVars, recipeVars>>
     \/ running = "calculator" /\ CalcNext /\ UNCHANGED <<listVars, treeVars, gomokuVars, recipeVars>>
     \/ running = "gomoku" /\ GomokuNext /\ UNCHANGED <<listVars, treeVars, calcVars, recipeVars>>
     \/ running = "recipes" /\ RecipeNext /\ UNCHANGED <<listVars, treeVars, calcVars, gomokuVars>>

(* A sequential program that is in a loop goes on with it. *)
Spec ==
  /\ Init /\ [][Next]_vars
  /\ WF_vars(running = "tree" /\ BalanceStep /\ UNCHANGED <<running, listVars, calcVars, gomokuVars, recipeVars>>)
=============================================================================
