----------------------------- MODULE Calculator -----------------------------
(***************************************************************************)
(* The two calculators of stack/04repolish and stack/05test: infix to      *)
(* postfix with an operator stack, then evaluation with a number stack,    *)
(* both upon the bounded array stack of stack.c.  An expression is a       *)
(* sequence of tokens; how digits make a number and how blanks separate    *)
(* tokens is left out.  One token, or one operator popped, is one step.    *)
(***************************************************************************)
EXTENDS Integers, Sequences, FiniteSets

CONSTANTS
  Inputs,     \* the expressions a user may type, as token sequences
  Programs    \* which of the two programs is run: Repolish or Test

ASSUME CalcAssumption ==
  /\ \A s \in Inputs : s \in Seq([k : STRING, v : Int])
  /\ \A p \in Programs : p.STACKSIZE \in Nat /\ p.refuses \in BOOLEAN

VARIABLES
  program, infix,
  phase,      \* "convert", "unwind", "evaluate", "done"
  at,         \* index of the next token of infix or postfix
  ops,        \* operator stack
  postfix, nums,
  ret, result,\* what repolish returns, and *result
  dropped     \* history: a push did not fit

calcVars == <<program, infix, phase, at, ops, postfix, nums, ret, result, dropped>>

Num(n) == [k |-> "num", v |-> n]
Op(c) == [k |-> c, v |-> 0]
Operators == {"+", "-", "*", "/"}

(***************************************************************************)
(* The programs: the size of their stacks, and whether repolish refuses a  *)
(* character that is no digit and no operator or looks at it for ever.     *)
(***************************************************************************)
Repolish == [STACKSIZE |-> 6, refuses |-> TRUE]
Test == [STACKSIZE |-> 32, refuses |-> FALSE]

(* stack_push refuses what does not fit; its callers do not look. *)
Full(s) == Len(s) = program.STACKSIZE
Pushed(s, x) == IF Full(s) THEN s ELSE Append(s, x)
Top(s) == s[Len(s)]
Popped(s) == SubSeq(s, 1, Len(s) - 1)

get_priority_flat(k) == IF k = "(" THEN 0 ELSE 1
get_priority(k) ==
  CASE k = "(" -> 0
    [] k \in {"+", "-"} -> 1
    [] k \in {"*", "/"} -> 2
    [] OTHER -> -1

(* Where a loop that pops stops, and what it puts out: from the top down   *)
(* what is above n.                                                        *)
Highest(S) == IF S = {} THEN 0 ELSE CHOOSE i \in S : \A j \in S : j <= i
FromTop(s, n) == [i \in 1 .. Len(s) - n |-> s[Len(s) + 1 - i]]

(* The while loop of a right parenthesis: operators back to the left one. *)
UpToParen(s, out) ==
  LET n == Highest({i \in DOMAIN s : s[i].k = "("})
  IN <<SubSeq(s, 1, n - 1), out \o FromTop(s, n)>>

(* The while loop of an operator: those that bind at least as tightly. *)
UpToWeaker(s, out, k) ==
  LET n == Highest({i \in DOMAIN s : get_priority(s[i].k) < get_priority(k)})
  IN <<SubSeq(s, 1, n), out \o FromTop(s, n)>>

CalcInit ==
  /\ program \in Programs /\ infix \in Inputs
  /\ phase = "convert" /\ at = 1
  /\ ops = <<>> /\ postfix = <<>> /\ nums = <<>>
  /\ ret = 0 /\ result = 0 /\ dropped = FALSE

(* One turn of the loop of infix_to_postfix. *)
infix_to_postfix ==
  /\ phase = "convert" /\ at <= Len(infix)
  /\ LET t == infix[at]
         closed == UpToParen(ops, postfix)
         weaker == UpToWeaker(ops, postfix, t.k)
     IN \/ t.k = "num" /\ postfix' = Append(postfix, t) /\ UNCHANGED <<ops, dropped>>
        \/ /\ t.k = "(" /\ ops' = Pushed(ops, t)
           /\ dropped' = (dropped \/ Full(ops)) /\ UNCHANGED postfix
        \/ t.k = ")" /\ ops' = closed[1] /\ postfix' = closed[2] /\ UNCHANGED dropped
        \/ /\ t.k \in Operators /\ ops' = Pushed(weaker[1], t) /\ postfix' = weaker[2]
           /\ dropped' = (dropped \/ Full(weaker[1]))
  /\ at' = at + 1
  /\ UNCHANGED <<program, infix, phase, nums, ret, result>>

UnknownCharacter ==
  /\ phase = "convert" /\ at <= Len(infix)
  /\ infix[at].k \notin Operators \cup {"num", "(", ")"}
  /\ phase' = "done" /\ ret' = -2
  /\ UNCHANGED <<program, infix, at, ops, postfix, nums, result, dropped>>

(* The rest of the operator stack goes to the output, left parentheses     *)
(* included.                                                               *)
Unwind ==
  /\ phase = "convert" /\ at > Len(infix)
  /\ IF ops # <<>>
     THEN /\ postfix' = Append(postfix, Top(ops)) /\ ops' = Popped(ops)
          /\ UNCHANGED <<phase, at>>
     ELSE phase' = "evaluate" /\ at' = 1 /\ UNCHANGED <<postfix, ops>>
  /\ UNCHANGED <<program, infix, nums, ret, result, dropped>>

(* Division of C truncates toward zero. *)
Abs(n) == IF n < 0 THEN -n ELSE n
Quotient(a, b) ==
  LET q == Abs(a) \div Abs(b) IN IF (a < 0) = (b < 0) THEN q ELSE -q
Apply(k, a, b) ==
  CASE k = "+" -> a + b
    [] k = "-" -> a - b
    [] k = "*" -> a * b
    [] k = "/" -> Quotient(a, b)

Fail(code) == phase' = "done" /\ ret' = code /\ UNCHANGED <<at, nums, result, dropped>>

(* One turn of the loop of repolish.  Without the refusal the loop looks   *)
(* at the same character again.                                            *)
repolish ==
  /\ phase = "evaluate" /\ at <= Len(postfix)
  /\ LET t == postfix[at]
         two == nums[Len(nums) - 1]
     IN \/ /\ t.k = "num"
           /\ nums' = Pushed(nums, t.v) /\ at' = at + 1
           /\ dropped' = (dropped \/ Full(nums))
           /\ UNCHANGED <<phase, ret, result>>
        \/ t.k \in Operators /\ Len(nums) = 0 /\ Fail(-2)
        \/ t.k \in Operators /\ Len(nums) = 1 /\ Fail(-3)
        \/ t.k = "/" /\ Len(nums) >= 2 /\ Top(nums) = 0 /\ Fail(-4)
        \/ /\ t.k \in Operators /\ Len(nums) >= 2 /\ ~(t.k = "/" /\ Top(nums) = 0)
           /\ nums' = Pushed(Popped(Popped(nums)), Apply(t.k, two, Top(nums)))
           /\ at' = at + 1
           /\ UNCHANGED <<phase, ret, result, dropped>>
        \/ t.k = "(" /\ program.refuses /\ Fail(-7)
        \/ t.k = "(" /\ ~program.refuses /\ UNCHANGED <<phase, at, nums, ret, result, dropped>>
  /\ UNCHANGED <<program, infix, ops, postfix>>

Finish ==
  /\ phase = "evaluate" /\ at > Len(postfix)
  /\ phase' = "done"
  /\ IF nums = <<>> THEN ret' = -5 /\ UNCHANGED <<nums, result>>
     ELSE /\ result' = Top(nums) /\ nums' = Popped(nums)
          /\ ret' = IF Len(nums) > 1 THEN -6 ELSE 0
  /\ UNCHANGED <<program, infix, at, ops, postfix, dropped>>

CalcNext == infix_to_postfix \/ UnknownCharacter \/ Unwind \/ repolish \/ Finish

CalcSpec == CalcInit /\ [][CalcNext]_calcVars /\ WF_calcVars(CalcNext)

-----------------------------------------------------------------------------
(***************************************************************************)
(* What tokens i to j of s mean: they are split at the last operator of    *)
(* lowest priority outside parentheses.                                    *)
(***************************************************************************)
Parens(s, i, j, k) == {p \in i .. j : s[p].k = k}
Depth(s, i, p) == Cardinality(Parens(s, i, p, "(")) - Cardinality(Parens(s, i, p, ")"))
SplitPoints(s, i, j, ks) == {p \in i .. j : s[p].k \in ks /\ Depth(s, i, p) = 0}
Split(s, i, j) ==
  LET weak == SplitPoints(s, i, j, {"+", "-"})
  IN Highest(IF weak # {} THEN weak ELSE SplitPoints(s, i, j, {"*", "/"}))

Malformed == [is |-> "malformed", val |-> 0]
Undefined == [is |-> "undefined", val |-> 0]
Known(n) == [is |-> "known", val |-> n]

Combined(k, a, b) ==
  IF Malformed \in {a, b} THEN Malformed
  ELSE IF Undefined \in {a, b} \/ (k = "/" /\ b.val = 0) THEN Undefined
  ELSE Known(Apply(k, a.val, b.val))

Meaning(s) ==
  LET m[span \in (1 .. Len(s) + 1) \X (0 .. Len(s))] ==
        LET i == span[1]
            j == span[2]
            p == Split(s, i, j)
        IN IF SplitPoints(s, i, j, Operators) # {}
           THEN Combined(s[p].k, m[<<i, p - 1>>], m[<<p + 1, j>>])
           ELSE IF i = j /\ s[i].k = "num" THEN Known(s[i].v)
           ELSE IF i + 1 < j /\ s[i].k = "(" /\ s[j].k = ")" THEN m[<<i + 1, j - 1>>]
           ELSE Malformed
  IN m
Value(s) == Meaning(s)[<<1, Len(s)>>]

(***************************************************************************)
(* A well-formed expression gets its value, or -4 when it divides by zero, *)
(* as long as the stacks are deep enough (infix_to_postfix and repolish).  *)
(***************************************************************************)
CalculatesValue ==
  phase = "done" /\ ~dropped =>
    CASE Value(infix).is = "known" -> ret = 0 /\ result = Value(infix).val
      [] Value(infix) = Undefined -> ret = -4
      [] OTHER -> TRUE
=============================================================================
