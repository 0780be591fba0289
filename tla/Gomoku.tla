------------------------------- MODULE Gomoku --------------------------------
(***************************************************************************)
(* Five in a row, in three copies of the same game: two players set stones *)
(* in turn on free points of the board, and after each stone the four      *)
(* lines through it are counted.  The board and the length of a line are   *)
(* parameters.  Nothing asks whether a coordinate is on the board: one     *)
(* that names a free byte of the array is accepted, and the lines are      *)
(* counted from where it is not.  A coordinate whose own byte is outside   *)
(* the array is not followed: what it overwrites is not the game's.        *)
(* Coordinates count from 0 here, as in ifwin, and from 1 for the players. *)
(***************************************************************************)
EXTENDS Integers, FiniteSets

CONSTANTS
  BOARD,       \* 15 in the program
  FIVE,        \* 5 in the program
  Coordinates  \* bound: the numbers that are typed

ASSUME GomokuAssumption == BOARD \in Nat \ {0} /\ FIVE \in 1 .. BOARD /\ Coordinates \subseteq Int

VARIABLES
  rules,       \* those of one copy
  qp,          \* the board: "0", "X", or "+" for a free point
  flag,        \* the player to move, 0 before the choice
  verdict,     \* what is announced at the end
  strayed      \* history: a coordinate outside the board was accepted

gomokuVars == <<rules, qp, flag, verdict, strayed>>
-----------------------------------------------------------------------------
Lines15 == 0 .. BOARD - 1
Points == Lines15 \X Lines15

(* The three copies play by the same rules: a full board is looked for     *)
(* before a line.                                                          *)
gomoku == [drawFirst |-> TRUE]
gomoku_plus == gomoku
wuziqi == gomoku

init == [p \in Points |-> "+"]

GomokuInit ==
  /\ rules \in {gomoku, gomoku_plus, wuziqi}
  /\ qp = init
  /\ flag = 0 /\ verdict = "none" /\ strayed = FALSE

(* Who moves first. *)
ChooseFirst ==
  /\ flag = 0
  /\ flag' \in {1, 2}
  /\ UNCHANGED <<rules, qp, verdict, strayed>>

(* writein: the stone, and the turn of the other player. *)
Stone(f) == IF f = 1 THEN "0" ELSE "X"
StoneSet(p) == [qp EXCEPT ![p] = Stone(flag)]

(* The byte of the array that qp[q[1]][q[2]] is, and whether it is s.  A   *)
(* byte outside the array may be anything: all of them s, or none, gives   *)
(* every answer that ifwin can give.                                       *)
Names(q, c) == BOARD * q[1] + q[2] = BOARD * c[1] + c[2]
Shows(b, q, s, outside) ==
  \/ \E c \in Points : Names(q, c) /\ b[c] = s
  \/ outside /\ \A c \in Points : ~Names(q, c)

(* The bytes s that follow p in the direction d without a gap; a loop only *)
(* looks at the edge it moves towards.                                     *)
Beyond(b, p, d, k) == <<p[1] + k * d[1], p[2] + k * d[2]>>
InBounds(q, d) == \A i \in {1, 2} : (d[i] = -1 => q[i] >= 0) /\ (d[i] = 1 => q[i] < BOARD)
RunLength(b, s, p, d, outside) ==
  Cardinality({n \in 1 .. BOARD : \A k \in 1 .. n : /\ InBounds(Beyond(b, p, d, k), d)
                                                 /\ Shows(b, Beyond(b, p, d, k), s, outside)})
DirectionsBut == {<<0, 1>>, <<1, 0>>, <<1, 1>>}
Directions == {<<0, 1>>, <<1, 0>>, <<1, 1>>, <<-1, 1>>}

BoardFull(b) == \A p \in Points : b[p] # "+"
LineThrough(b, s, p, outside) ==
  \E d \in Directions :
    1 + RunLength(b, s, p, d, outside) + RunLength(b, s, p, <<-d[1], -d[2]>>, outside) >= FIVE

ifwin(b, s, p, outside) ==
  LET draw == BoardFull(b) /\ (rules.drawFirst \/ ~LineThrough(b, s, p, outside))
  IN CASE draw -> "draw"
       [] ~draw /\ LineThrough(b, s, p, outside) -> IF flag = 1 THEN "one" ELSE "two"
       [] OTHER -> "none"

(* One turn of main's loop: iflegal asks until p names a free byte. *)
Play ==
  /\ flag # 0 /\ verdict = "none"
  /\ \E p \in Coordinates \X Coordinates, c \in Points, outside \in BOOLEAN :
       /\ Names(p, c) /\ qp[c] = "+"
       /\ qp' = StoneSet(c)
       /\ verdict' = ifwin(qp', Stone(flag), p, outside)
       /\ strayed' = (strayed \/ p \notin Points)
  /\ flag' = IF flag = 1 THEN 2 ELSE 1
  /\ UNCHANGED rules

GomokuNext == ChooseFirst \/ Play

GomokuSpec == GomokuInit /\ [][GomokuNext]_gomokuVars
-----------------------------------------------------------------------------
GomokuTypeOK ==
  /\ rules \in {gomoku, gomoku_plus, wuziqi} /\ qp \in [Points -> {"+", "0", "X"}]
  /\ flag \in 0 .. 2 /\ verdict \in {"none", "draw", "one", "two"} /\ strayed \in BOOLEAN

(* A line of FIVE stones of one colour anywhere on the board. *)
HasLine(s) ==
  \E p \in Points, d \in {<<0, 1>>, <<1, 0>>, <<1, 1>>, <<1, -1>>} :
    \A k \in 0 .. FIVE - 1 : Beyond(qp, p, d, k) \in Points /\ qp[Beyond(qp, p, d, k)] = s

(* Unless a coordinate outside the board was accepted: looking only at the *)
(* lines through the last stone, the game ends as soon as there is a line  *)
(* anywhere or no free point, never before; who has a line while there is  *)
(* a free point wins, nobody else ever does, and there is no draw before   *)
(* the board is full.                                                      *)
EndsWithFirstLine ==
  /\ GomokuTypeOK
  /\ ~strayed =>
       /\ verdict = "none" <=> ~BoardFull(qp) /\ ~HasLine("0") /\ ~HasLine("X")
       /\ (verdict = "one" => HasLine("0")) /\ (verdict = "two" => HasLine("X"))
       /\ ~BoardFull(qp) => (HasLine("0") => verdict = "one") /\ (HasLine("X") => verdict = "two")
       /\ verdict = "draw" => BoardFull(qp)

(* The comment above ifwin: common to all rules, once there are five in a  *)
(* row they win, whatever else was formed.  gomoku.c asks whether the      *)
(* board is full before it looks for a line.                               *)
FiveAlwaysWins ==
  ~strayed => (HasLine("0") => verdict = "one") /\ (HasLine("X") => verdict = "two")
=============================================================================
