---------------------------- MODULE KconfigExpr -----------------------------
(***************************************************************************)
(* The dependency expressions of the kconfig tool (expr.c): how they are   *)
(* evaluated, compared and simplified before menu_finalize uses them.      *)
(*                                                                         *)
(* An expression is [t |-> "SYM", s], [t |-> "NOT", l], [t |-> op, l, r]   *)
(* with op "AND" or "OR", or a comparison [t |-> rel, s, c] of two symbols *)
(* with rel "EQ", "NE", "LE", "GE", "LT" or "GT".  The rewriting in place  *)
(* of expr.c is modelled by its result; its memory management is left out. *)
(***************************************************************************)
EXTENDS KconfigTristate, Sequences, SequencesExt

CONSTANTS Tristates, Booleans   \* the symbols of each type

Consts == {"n", "m", "y"}

ConstValue == [n |-> no, m |-> mod, y |-> yes]

Sym(s) == [t |-> "SYM", s |-> s]
Comp(rel, s, c) == [t |-> rel, s |-> s, c |-> c]
Not(e) == [t |-> "NOT", l |-> e]
Two(op, a, b) == [t |-> op, l |-> a, r |-> b]
Y == Sym("y")
N == Sym("n")

IsOp(e) == e.t \in {"AND", "OR"}
IsComp(e) == e.t \in {"EQ", "NE", "LE", "GE", "LT", "GT"}

(* symbol_yes, symbol_mod and symbol_no are tristate symbols themselves *)
IsTristate(s) == s \in Tristates \union Consts

Value(s, v) == IF s \in Consts THEN ConstValue[s] ELSE v[s]

Holds(p) == IF p THEN yes ELSE no

Compare(rel, a, b) ==
  Holds(CASE rel = "EQ" -> a = b
          [] rel = "NE" -> a # b
          [] rel = "LE" -> a <= b
          [] rel = "GE" -> a >= b
          [] rel = "LT" -> a < b
          [] rel = "GT" -> a > b)

RECURSIVE expr_calc_value(_, _)
expr_calc_value(e, v) ==
  CASE e.t = "SYM" -> Value(e.s, v)
    [] e.t = "AND" -> Least(expr_calc_value(e.l, v), expr_calc_value(e.r, v))
    [] e.t = "OR" -> Greatest(expr_calc_value(e.l, v), expr_calc_value(e.r, v))
    [] e.t = "NOT" -> yes - expr_calc_value(e.l, v)
    [] IsComp(e) -> Compare(e.t, Value(e.s, v), Value(e.c, v))

-----------------------------------------------------------------------------
(* The operand that decides alone, and the one that does not count. *)
Absorbing(op) == IF op = "AND" THEN N ELSE Y
Neutral(op) == IF op = "AND" THEN Y ELSE N

WithoutConstants(op, l, r) ==
  CASE l = Absorbing(op) -> l
    [] l = Neutral(op) -> r
    [] l \notin {Y, N} /\ r = Absorbing(op) -> r
    [] l \notin {Y, N} /\ r = Neutral(op) -> l
    [] OTHER -> Two(op, l, r)

RECURSIVE expr_eliminate_yn(_)
expr_eliminate_yn(e) ==
  IF IsOp(e) THEN WithoutConstants(e.t, expr_eliminate_yn(e.l), expr_eliminate_yn(e.r)) ELSE e

(* The operands of one level, in order, and the level with others put in   *)
(* their places.                                                           *)
RECURSIVE Operands(_, _)
Operands(op, e) ==
  IF e.t = op THEN Operands(op, e.l) \o Operands(op, e.r) ELSE <<e>>

Split(k, xs) == <<SubSeq(xs, 1, k), SubSeq(xs, k + 1, Len(xs))>>

RECURSIVE WithOperands(_, _, _)
WithOperands(op, e, xs) ==
  IF e.t # op THEN xs[1]
  ELSE LET halves(p) == Two(op, WithOperands(op, e.l, p[1]), WithOperands(op, e.r, p[2])) IN
       halves(Split(Len(Operands(op, e.l)), xs))

(* The order in which every operand of one list meets those of another. *)
Pairs(n, m) == [k \in 1 .. n * m |-> <<1 + ((k - 1) \div m), 1 + ((k - 1) % m)>>]

RECURSIVE expr_eq(_, _)
RECURSIVE expr_eliminate_eq(_, _)

(* Two equal operands of one level both become the neutral constant. *)
EliminatePair(op, xs, p, a, b) ==
  IF (a = b /\ a \in {Y, N}) \/ ~expr_eq(a, b) THEN xs
  ELSE <<[xs[1] EXCEPT ![p[1]] = Neutral(op)], [xs[2] EXCEPT ![p[2]] = Neutral(op)]>>

EliminateAll(op, x1, x2) ==
  FoldLeft(LAMBDA xs, p : EliminatePair(op, xs, p, xs[1][p[1]], xs[2][p[2]]),
           <<x1, x2>>, Pairs(Len(x1), Len(x2)))

Rebuilt(op, p, xs) == <<WithOperands(op, p[1], xs[1]), WithOperands(op, p[2], xs[2])>>

EliminateLevel(op, p) ==
  Rebuilt(op, p, EliminateAll(op, Operands(op, p[1]), Operands(op, p[2])))

(* The operator of the level to compare next: that of the i-th expression, *)
(* the second one's only if it is another.                                 *)
LevelOf(p, i) == IF IsOp(p[i]) /\ (i = 1 \/ p[1].t # p[2].t) THEN p[i].t ELSE "NONE"

AtLevel(op, p) == IF op = "NONE" THEN p ELSE EliminateLevel(op, p)

expr_eliminate_eq(e1, e2) ==
  LET clean(p) == <<expr_eliminate_yn(p[1]), expr_eliminate_yn(p[2])>> IN
  clean(FoldLeft(LAMBDA p, i : AtLevel(LevelOf(p, i), p), <<e1, e2>>, <<1, 2>>))

SameSymbol(p) == p[1].t = "SYM" /\ p[1] = p[2]

expr_eq(e1, e2) ==
  /\ e1.t = e2.t
  /\ CASE e1.t = "SYM" \/ IsComp(e1) -> e1 = e2
       [] e1.t = "NOT" -> expr_eq(e1.l, e2.l)
       [] IsOp(e1) -> SameSymbol(expr_eliminate_eq(e1, e2))

-----------------------------------------------------------------------------
None == [t |-> "NULL"]

(* The symbol two joinable operands are about: the first may be a negated  *)
(* comparison, the second only a negated symbol.                           *)
Simple(e) == e.t \in {"EQ", "NE", "SYM"}

About1(e) ==
  IF Simple(e) THEN {e.s}
  ELSE IF e.t = "NOT" THEN (IF Simple(e.l) THEN {e.l.s} ELSE {})
  ELSE {}

About2(e) ==
  IF Simple(e) THEN {e.s}
  ELSE IF e.t = "NOT" THEN (IF e.l.t = "SYM" THEN {e.l.s} ELSE {})
  ELSE {}

TypedSymbols == Tristates \union Booleans \union Consts

(* What two operands say together, by P on the symbol both are about. *)
Joined(e1, e2, P(_)) ==
  LET about(S) == IF S = {} THEN None ELSE P(CHOOSE s \in S : TRUE) IN
  IF expr_eq(e1, e2) THEN e1
  ELSE about(About1(e1) \intersect About2(e2) \intersect TypedSymbols)

Third(c, d) == CHOOSE x \in Consts : x \notin {c, d}

(* Both compare with constants, and not with the same one. *)
TwoConsts(rel, e1, e2) ==
  /\ e1.t = rel /\ e2.t = rel
  /\ e1.c \in Consts /\ e2.c \in Consts
  /\ e1.c # e2.c

OrOf(e1, e2, s) ==
  IF IsTristate(s) /\ TwoConsts("EQ", e1, e2) THEN Comp("NE", s, Third(e1.c, e2.c))
  ELSE IF s \in Booleans /\ {e1, e2} = {Sym(s), Not(Sym(s))} THEN Y
  ELSE None

expr_join_or(e1, e2) == Joined(e1, e2, LAMBDA s : OrOf(e1, e2, s))

(* Faulty variant: a && a!='n' becomes a='y'. *)
AndOfStrict(e1, e2, s) ==
  IF {e1, e2} = {Sym(s), Comp("NE", s, "n")} THEN Comp("EQ", s, "y") ELSE None

(* An equality and an inequality with constants. *)
EqualAndNot(eq, ne) == eq.t = "EQ" /\ ne.t = "NE" /\ {eq.c, ne.c} \subseteq Consts

AndOf(e1, e2, s) ==
  CASE {e1, e2} \in {{Sym(s), Comp("EQ", s, "y")}, {Sym(s), Comp("NE", s, "m")}} -> Comp("EQ", s, "y")
    [] {e1, e2} = {Sym(s), Comp("NE", s, "n")} -> Sym(s)
    [] IsTristate(s) /\ EqualAndNot(e1, e2) -> IF e1.c # e2.c THEN e1 ELSE N
    [] IsTristate(s) /\ EqualAndNot(e2, e1) -> IF e1.c # e2.c THEN e2 ELSE N
    [] IsTristate(s) /\ TwoConsts("NE", e1, e2) -> Comp("EQ", s, Third(e1.c, e2.c))
    [] OTHER -> None

expr_join_and(e1, e2) == Joined(e1, e2, LAMBDA s : AndOf(e1, e2, s))

(* One pass over a level: each operand meets every other one; an operand   *)
(* of the other kind is worked on first.  acc and the result: [x, done],   *)
(* the operands or the expression, and whether anything was joined.        *)
MeetJoined(op, acc, p, inner, j) ==
  IF j = None THEN [x |-> [acc.x EXCEPT ![p[1]] = inner.x], done |-> acc.done \/ inner.done]
  ELSE [x |-> [acc.x EXCEPT ![p[1]] = Neutral(op), ![p[2]] = j], done |-> TRUE]

Meet(op, acc, p, inner) ==
  LET a == inner.x
      b == acc.x[p[2]] IN
  MeetJoined(op, acc, p, inner, IF op = "OR" THEN expr_join_or(a, b) ELSE expr_join_and(a, b))

RECURSIVE expr_eliminate_dups1(_)
expr_eliminate_dups1(e) ==
  LET inner(x) == IF IsOp(x) THEN expr_eliminate_dups1(x) ELSE [x |-> x, done |-> FALSE]
      meet(acc, p) == IF p[1] = p[2] THEN acc ELSE Meet(e.t, acc, p, inner(acc.x[p[1]]))
      all(xs) == FoldLeft(meet, [x |-> xs, done |-> FALSE], Pairs(Len(xs), Len(xs)))
      rebuilt(acc) == [acc EXCEPT !.x = WithOperands(e.t, e, acc.x)] IN
  rebuilt(all(Operands(e.t, e)))

RECURSIVE expr_eliminate_dups(_)
expr_eliminate_dups(e) ==
  LET again(pass) == IF pass.done THEN expr_eliminate_dups(expr_eliminate_yn(pass.x)) ELSE pass.x IN
  IF IsOp(e) THEN again(expr_eliminate_dups1(e)) ELSE e

-----------------------------------------------------------------------------
Opposite == [EQ |-> "NE", NE |-> "EQ", LE |-> "GT", GE |-> "LT", LT |-> "GE", GT |-> "LE"]

(* A comparison of a boolean symbol with a constant. *)
BooleanTest(e) ==
  IF e.t \notin {"EQ", "NE"} \/ e.s \notin Booleans \/ e.c \notin Consts THEN e
  ELSE IF e.c = "m" THEN (IF e.t = "EQ" THEN N ELSE Y)
  ELSE IF (e.t = "EQ") = (e.c = "y") THEN Sym(e.s)
  ELSE Not(Sym(e.s))

RECURSIVE expr_transform(_)
expr_transform(e) ==
  LET negated(x) ==
        CASE x.t = "NOT" -> expr_transform(x.l)
          [] IsComp(x) -> Comp(Opposite[x.t], x.s, x.c)
          [] IsOp(x) -> expr_transform(Two(IF x.t = "OR" THEN "AND" ELSE "OR", Not(x.l), Not(x.r)))
          [] x = Y -> N
          [] x = N -> Y
          [] x = Sym("m") -> x
          [] x.t = "SYM" /\ x \notin {Y, N, Sym("m")} -> Not(x) IN
  CASE IsComp(e) -> BooleanTest(e)
    [] e.t = "SYM" -> e
    [] IsOp(e) -> Two(e.t, expr_transform(e.l), expr_transform(e.r))
    [] e.t = "NOT" -> negated(expr_transform(e.l))

(* FOO!=n -> FOO for a tristate symbol *)
RECURSIVE expr_trans_bool(_)
expr_trans_bool(e) ==
  CASE IsOp(e) -> Two(e.t, expr_trans_bool(e.l), expr_trans_bool(e.r))
    [] e.t = "NOT" -> Not(expr_trans_bool(e.l))
    [] e.t = "NE" -> IF IsTristate(e.s) /\ e.c = "n" THEN Sym(e.s) ELSE e
    [] OTHER -> e

(* The expression "e = sym" or "e != sym", for sym 'y' or 'n'. *)
RECURSIVE expr_trans_compare(_, _, _)
expr_trans_compare(e, rel, c) ==
  CASE IsOp(e) ->
         LET op == IF c = "y" THEN e.t ELSE IF e.t = "AND" THEN "OR" ELSE "AND"
             both == Two(op, expr_trans_compare(e.l, "EQ", c), expr_trans_compare(e.r, "EQ", c)) IN
         IF rel = "NE" THEN Not(both) ELSE both
    [] e.t = "NOT" -> expr_trans_compare(e.l, IF rel = "EQ" THEN "NE" ELSE "EQ", c)
    [] IsComp(e) -> IF (rel = "EQ") = (c = "y") THEN e ELSE Not(e)
    [] e.t = "SYM" -> Comp(rel, e.s, c)

RECURSIVE expr_contains_symbol(_, _)
expr_contains_symbol(e, s) ==
  CASE IsOp(e) -> expr_contains_symbol(e.l, s) \/ expr_contains_symbol(e.r, s)
    [] e.t = "NOT" -> expr_contains_symbol(e.l, s)
    [] e.t = "SYM" -> e.s = s
    [] IsComp(e) -> s \in {e.s, e.c}

RECURSIVE expr_depends_symbol(_, _)
expr_depends_symbol(e, s) ==
  CASE e.t = "AND" -> expr_depends_symbol(e.l, s) \/ expr_depends_symbol(e.r, s)
    [] e.t = "SYM" -> e.s = s
    [] e.t = "EQ" -> e.s = s /\ e.c \in {"y", "m"}
    [] e.t = "NE" -> e.s = s /\ e.c = "n"
    [] OTHER -> FALSE

(* m -> m && MODULES *)
RECURSIVE rewrite_m(_)
rewrite_m(e) ==
  CASE IsOp(e) -> Two(e.t, rewrite_m(e.l), rewrite_m(e.r))
    [] e.t = "NOT" -> Not(rewrite_m(e.l))
    [] e = Sym("m") -> Two("AND", e, Sym(modules_sym))
    [] OTHER -> e

-----------------------------------------------------------------------------
(* What menu_finalize makes of an entry's dependency below parent's, of    *)
(* that as the condition of a symbol that is not tristate, and of the test *)
(* that puts an entry into the submenu of another.                         *)
Simplified(e) == expr_eliminate_dups(expr_transform(e))

(* Below no dependency *)
AtTop(e) == Simplified(rewrite_m(e))

Propagated(parent, e) == expr_eliminate_dups(Two("AND", parent, expr_transform(rewrite_m(e))))

AsCondition(dep) == expr_trans_bool(dep)

NotNo(e) == Simplified(expr_trans_compare(e, "NE", "n"))

(* dep depends on sym, whose own condition is base. *)
InSubmenu(dep, sym, base) ==
  /\ expr_contains_symbol(dep, sym)
  /\ \/ expr_depends_symbol(dep, sym)
     \/ expr_eliminate_eq(NotNo(dep), NotNo(base))[2] = Y
=============================================================================
