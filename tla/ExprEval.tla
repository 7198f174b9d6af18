------------------------------ MODULE ExprEval ------------------------------
(***************************************************************************)
(* The two evaluators of the logger.  main/expression_parser.c turns an    *)
(* expression over the bytes of a frame into a number with two stacks, one *)
(* token at a time; components/autopid/autopid.c evaluates a calculated    *)
(* channel by recursive descent.  A number is abstracted to the tree of    *)
(* operations that computes it: the order of evaluation is what can be     *)
(* wrong.  Of the values only a literal zero is kept apart, for division.  *)
(***************************************************************************)
EXTENDS Naturals, Sequences, SequencesExt

CONSTANTS
    Operators,    \* the operators tried, among those of precedence()
    MaxTokens,    \* bound: the length of an expression
    MaxSlips,     \* bound: tokens that cannot follow the one before
    CalcMaxDepth, \* CALC_MAX_DEPTH
    StackMax      \* STACK_MAX

VARIABLES
    seen,      \* the tokens read (history: the expression so far)
    operands,  \* operandStack, of trees; the last is the top
    operators, \* operatorStack
    stage,     \* reading, then ok or failed
    slips      \* how many tokens could not follow (bound)

vars == <<seen, operands, operators, stage, slips>>

\* "x": a byte range the frame cannot hold, or a channel without a value.
Operand == {"n", "0", "x"}
Token == Operand \cup Operators \cup {"(", ")"}

Init ==
    /\ seen = <<>> /\ operands = <<>> /\ operators = <<>> /\ stage = "reading" /\ slips = 0

\* Leaves and nodes; pop() on an empty stack gives a zero.
Leaf(t) == <<t>>
Node(op, a, b) == <<op, a, b>>
Zero == Leaf("0")

TypeOK ==
    /\ seen \in Seq(Token) /\ Len(seen) <= MaxTokens
    /\ Len(operands) <= StackMax
    /\ operators \in Seq(Operators \cup {"("})
    /\ stage \in {"reading", "ok", "failed"} /\ slips \in 0 .. MaxSlips

Precedence(t) ==
    CASE t \in {"|", "^"} -> 1
      [] t = "&" -> 2
      [] t \in {"<", ">"} -> 3
      [] t \in {"+", "-"} -> 4
      [] t \in {"*", "/"} -> 5
      [] OTHER -> 0

PushOn(s, x) == IF Len(s) = StackMax THEN s ELSE Append(s, x)
Pop(s) == IF s = <<>> THEN s ELSE Front(s)
TopOf(s) == IF s = <<>> THEN Zero ELSE Last(s)

\* The operator on the tree popped first and the one popped second.
Operate(op, x, y) == Node(op, y, x)

\* One operator off its stack.  A parenthesis is no operator: the switch has no
\* case for it and the result stays 0.
Apply(m) ==
    LET op == Last(m.ops)
        x == TopOf(m.vals)
        y == TopOf(Pop(m.vals))
        left == Pop(Pop(m.vals))
    IN  IF m.vals = <<>> \/ (op = "/" /\ x = Zero)
        THEN [m EXCEPT !.bad = TRUE]
        ELSE [bad |-> FALSE, ops |-> Front(m.ops),
              vals |-> PushOn(left, IF op = "(" THEN Zero ELSE Operate(op, x, y))]

\* What is on the stack goes before the operator read.
GoesFirst(top, t) == Precedence(top) >= Precedence(t)

RECURSIVE UntilOpen(_), Before(_, _), All(_)
UntilOpen(m) ==
    IF m.bad \/ m.ops = <<>> \/ Last(m.ops) = "(" THEN m ELSE UntilOpen(Apply(m))
Before(m, t) ==
    IF m.bad \/ m.ops = <<>> \/ ~GoesFirst(Last(m.ops), t) THEN m ELSE Before(Apply(m), t)
All(m) == IF m.bad \/ m.ops = <<>> THEN m ELSE All(Apply(m))

Machine == [bad |-> FALSE, ops |-> operators, vals |-> operands]

Becomes(m) ==
    /\ operands' = m.vals /\ operators' = m.ops
    /\ stage' = IF m.bad THEN "failed" ELSE stage

\* A token may follow: what ends an operand, or does not, comes before it.
Follows(t) ==
    LET ended == seen # <<>> /\ Last(seen) \in Operand \cup {")"}
    IN  ended <=> t \notin Operand \cup {"("}

ReadOperand(t) ==
    /\ t \in Operand
    /\ Becomes([Machine EXCEPT !.bad = t = "x", !.vals = PushOn(@, Leaf(t))])

ReadOpen(t) ==
    t = "(" /\ Becomes([Machine EXCEPT !.ops = PushOn(@, "(")])

ReadClose(t) ==
    LET m == UntilOpen(Machine) IN
    /\ t = ")"
    /\ Becomes(IF m.bad \/ m.ops = <<>> THEN [m EXCEPT !.bad = TRUE]
               ELSE [m EXCEPT !.ops = Front(@)])

ReadOperator(t) ==
    LET m == Before(Machine, t) IN
    t \in Operators /\ Becomes(IF m.bad THEN m ELSE [m EXCEPT !.ops = PushOn(@, t)])

Read(t) ==
    /\ stage = "reading" /\ Len(seen) < MaxTokens
    /\ seen' = Append(seen, t)
    /\ IF Follows(t) THEN slips' = slips ELSE slips < MaxSlips /\ slips' = slips + 1
    /\ ReadOperand(t) \/ ReadOpen(t) \/ ReadClose(t) \/ ReadOperator(t)

\* The end of the string: what is left is applied, and one operand must remain.
Finish ==
    LET m == All(Machine) IN
    /\ stage = "reading" /\ UNCHANGED <<seen, slips>>
    /\ operands' = m.vals /\ operators' = m.ops
    /\ stage' = IF m.bad \/ Len(m.vals) # 1 THEN "failed" ELSE "ok"

Next == (\E t \in Token : Read(t)) \/ Finish

Spec == Init /\ [][Next]_vars

-----------------------------------------------------------------------------
(* autopid.c: expr, term and primary over the rest of the tokens.  A parse *)
(* is what was read, what is left, and whether it held.                    *)

Parse(ok, val, rest) == [ok |-> ok, val |-> val, rest |-> rest]
Broken(rest) == Parse(FALSE, Zero, rest)

\* Mutant: the right side of a sum is the rest of the sum.
RightFirst(s, d) == "expr"

\* What the right side of a sum is.
RightSide(s, d) == "term"

\* What a sign applies to.
SignTakes(rest, d) == "primary"

RECURSIVE CalcPrimary(_, _), CalcTerm(_, _), CalcTermRest(_, _), CalcExpr(_, _), CalcExprRest(_, _)
CalcPrimary(s, d) ==
    IF s = <<>> THEN Broken(s)
    ELSE LET t == Head(s) IN
         CASE t \in {"+", "-"} ->
                IF d + 1 > CalcMaxDepth THEN Broken(Tail(s))
                ELSE LET p == IF SignTakes(Tail(s), d) = "primary"
                              THEN CalcPrimary(Tail(s), d + 1) ELSE CalcExpr(Tail(s), d + 1)
                     IN  [p EXCEPT !.val = IF t = "-" THEN <<"neg", @>> ELSE @]
           [] t = "(" ->
                IF d + 1 > CalcMaxDepth THEN Broken(Tail(s))
                ELSE LET p == CalcExpr(Tail(s), d + 1)
                     IN  IF p.rest # <<>> /\ Head(p.rest) = ")"
                         THEN [p EXCEPT !.rest = Tail(@)] ELSE [p EXCEPT !.ok = FALSE]
           [] t \in Operand \ {"x"} -> Parse(TRUE, Leaf(t), Tail(s))
           [] OTHER -> Broken(s)
CalcTermRest(p, d) ==
    IF ~p.ok \/ p.rest = <<>> \/ Head(p.rest) \notin {"*", "/"} THEN p
    ELSE LET q == CalcPrimary(Tail(p.rest), d)
             op == Head(p.rest)
         IN  IF ~q.ok \/ (op = "/" /\ q.val = Zero) THEN Broken(q.rest)
             ELSE CalcTermRest(Parse(TRUE, Node(op, p.val, q.val), q.rest), d)
CalcTerm(s, d) == CalcTermRest(CalcPrimary(s, d), d)
CalcExprRest(p, d) ==
    IF ~p.ok \/ p.rest = <<>> \/ Head(p.rest) \notin {"+", "-"} THEN p
    ELSE LET q == IF RightSide(Tail(p.rest), d) = "term"
                  THEN CalcTerm(Tail(p.rest), d) ELSE CalcExpr(Tail(p.rest), d) IN
         IF ~q.ok THEN Broken(q.rest)
         ELSE CalcExprRest(Parse(TRUE, Node(Head(p.rest), p.val, q.val), q.rest), d)
CalcExpr(s, d) == CalcExprRest(CalcTerm(s, d), d)

\* calc_evaluate: the whole string must have been read.
Calc(s) == LET p == CalcExpr(s, 0) IN [ok |-> p.ok /\ p.rest = <<>>, val |-> p.val]

-----------------------------------------------------------------------------
(* What an expression means: where the parentheses close, the last         *)
(* operator of the lowest precedence splits it.                            *)

Depth(s, i) ==
    Len(SelectSeq(SubSeq(s, 1, i), LAMBDA t : t = "("))
        - Len(SelectSeq(SubSeq(s, 1, i), LAMBDA t : t = ")"))

Balanced(s) ==
    /\ \A i \in 1 .. Len(s) : \A n \in {SubSeq(s, 1, i)} :
            Len(SelectSeq(n, LAMBDA t : t = ")")) <= Len(SelectSeq(n, LAMBDA t : t = "("))
    /\ Len(SelectSeq(s, LAMBDA t : t = ")")) = Len(SelectSeq(s, LAMBDA t : t = "("))

Ends(t) == t \in Operand \cup {")"}
Begins(t) == t \in Operand \cup {"("}

WellFormed(s) ==
    /\ s # <<>> /\ Balanced(s) /\ Begins(Head(s)) /\ Ends(Last(s))
    /\ \A i \in 1 .. Len(s) - 1 : Ends(s[i]) <=> ~Begins(s[i + 1])

\* The place to split a well-formed expression, if it has one.
Splits(s) ==
    {i \in 1 .. Len(s) : s[i] \in Operators /\ Depth(s, i) = 0
        /\ \A j \in 1 .. Len(s) : s[j] \in Operators /\ Depth(s, j) = 0 =>
                \/ Precedence(s[j]) > Precedence(s[i])
                \/ Precedence(s[j]) = Precedence(s[i]) /\ j <= i}

RECURSIVE Meaning(_)
Meaning(s) ==
    IF Len(s) = 1 THEN Leaf(s[1])
    ELSE IF Splits(s) = {} THEN Meaning(SubSeq(s, 2, Len(s) - 1))
    ELSE LET i == CHOOSE i \in Splits(s) : TRUE
         IN  Node(s[i], Meaning(SubSeq(s, 1, i - 1)), Meaning(SubSeq(s, i + 1, Len(s))))

\* The tree with a sign on its first operand.
RECURSIVE NegFirst(_)
NegFirst(v) == IF Len(v) = 1 THEN <<"neg", v>> ELSE Node(v[1], NegFirst(v[2]), v[3])

RECURSIVE Defined(_)
Defined(v) ==
    IF Len(v) = 3 THEN Defined(v[2]) /\ Defined(v[3]) /\ ~(v[1] = "/" /\ v[3] = Zero)
    ELSE v # Leaf("x")

Arithmetic(s) == \A i \in 1 .. Len(s) : s[i] \notin {"|", "^", "&", "<", ">"}

(* Every well-formed expression evaluates to what it means: brackets       *)
(* first, then * and /, + and -, shifts, and, or, each from the left       *)
(* (expression_parser.c:69-76, 284); it fails only for a division by zero  *)
(* or an operand that is not there.  (A push past STACK_MAX is dropped and *)
(* nothing fails: no expression tried here is as deep.)                    *)
MeansWhatItSays ==
    stage # "reading" /\ WellFormed(seen) =>
        IF Defined(Meaning(seen)) THEN stage = "ok" /\ operands = <<Meaning(seen)>>
        ELSE stage = "failed"

Nesting(s) == \A i \in 1 .. Len(s) : Depth(s, i) <= CalcMaxDepth

(* A calculated channel means the same as the same expression over a       *)
(* frame: the two evaluators share no code and are told apart by nothing   *)
(* but the names they read (autopid.c:507-514).  A channel nested too deep *)
(* stays empty.                                                            *)
CalcMeansTheSame ==
    WellFormed(seen) /\ Arithmetic(seen) =>
        IF Defined(Meaning(seen)) /\ Nesting(seen)
        THEN Calc(seen) = [ok |-> TRUE, val |-> Meaning(seen)] ELSE ~Calc(seen).ok

Signed == seen # <<>> /\ Head(seen) = "-"
Unsigned == Tail(seen)

(* A sign belongs to the operand after it and to nothing more:             *)
(* autopid.c:513, "unary +/- supported", binds tighter than * and /.       *)
SignBindsTightest ==
    Signed /\ WellFormed(Unsigned) /\ Head(Unsigned) \in Operand
           /\ Arithmetic(Unsigned) /\ Calc(Unsigned).ok =>
        Calc(seen) = [ok |-> TRUE, val |-> NegFirst(Meaning(Unsigned))]

-----------------------------------------------------------------------------
(* Claims the code does not keep.                                          *)

(* expression_parser.c:271 reports "Mismatched parentheses"; only a close  *)
(* without an open is one: an open left at the end evaluates to 0, and a   *)
(* sign or an operator after its operands is accepted too.                 *)
RejectsTheRest == stage = "ok" => WellFormed(seen)

BracketsMatch == stage = "ok" => Balanced(seen)
=============================================================================
