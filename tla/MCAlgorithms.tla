---------------------------- MODULE MCAlgorithms ----------------------------
(***************************************************************************)
(* The algorithms of the repository that keep no state of their own, each  *)
(* on all its small inputs, and the kconfig symbols, which do.  A          *)
(* behaviour is about one part; the others keep their first state.         *)
(***************************************************************************)
EXTENDS Algorithms, KconfigExpr, KconfigSym

VARIABLES dep1, dep2   \* two dependency expressions

vars == <<algVars, dep1, dep2, symVars>>

Leaves == {Sym("T"), Sym("M"), Not(Sym("M")), Comp("NE", "T", "n"), Comp("NE", "T", "m"),
           Comp("LE", "T", "m")}
Terms == {Two(o, l, r) : o \in {"AND", "OR"}, l \in Leaves, r \in Leaves}
Exprs == Leaves \union Terms \union {Not(t) : t \in Terms}

(* The second one may also say m. *)
ModTerms == {Two(o, Sym("m"), l) : o \in {"AND", "OR"}, l \in Leaves}
ModExprs == {Sym("m")} \union ModTerms \union {Not(t) : t \in ModTerms}

Init ==
  /\ SymInit
  /\ part \in {"alu", "div", "copy", "expr", "sym"}
  /\ AlgInit
  /\ dep1 \in If("expr", Exprs, Y)
  /\ dep2 = None

Compute == AlgNext /\ UNCHANGED <<dep1, dep2, symVars>>

Second ==
  /\ part = "expr"
  /\ IF dep2 = None THEN dep2' \in Exprs \union ModExprs ELSE dep2' = None
  /\ UNCHANGED <<algVars, dep1, symVars>>

Configure ==
  /\ part = "sym"
  /\ SymNext
  /\ UNCHANGED <<algVars, dep1, dep2>>

Next == Compute \/ Second \/ Configure

Spec == Init /\ [][Next]_vars

-----------------------------------------------------------------------------
(* A menu with a modules symbol, a tristate that is hidden without it, one *)
(* that the tristate selects and the modules symbol implies, and a choice  *)
(* one value of which depends on the tristate.                             *)
MCEntry(s, type, prompt, rev, of) ==
  [sym |-> s, type |-> type, choice |-> FALSE, optional |-> TRUE, of |-> of,
   prompt |-> prompt, dir |-> prompt, rev |-> rev, imp |-> N, defs |-> <<>>]

MCMenu ==
  << [MCEntry("M", "bool", Y, N, "NULL") EXCEPT !.defs = <<[val |-> Y, cond |-> Y]>>],
     [MCEntry("T", "tri", Sym("M"), N, "NULL") EXCEPT !.defs = <<[val |-> Sym("m"), cond |-> Y]>>],
     [MCEntry("S", "tri", Y, Sym("T"), "NULL") EXCEPT !.imp = Sym("M")],
     [MCEntry("C", "tri", Y, Two("AND", Y, Sym("m")), "NULL") EXCEPT
        !.choice = TRUE, !.optional = FALSE, !.defs = <<[val |-> Sym("V2"), cond |-> Y]>>],
     MCEntry("V1", "tri", Sym("C"), N, "C"),
     MCEntry("V2", "tri", Two("AND", Sym("C"), Sym("T")), N, "C") >>

-----------------------------------------------------------------------------
Valuations == {[T |-> t, M |-> v] : t \in {no, mod, yes}, v \in {no, yes}}
IsNo(e, v) == expr_calc_value(e, v) = no

(* Nothing is m: neither a symbol nor a part of the dependencies. *)
NothingM(v) == v["T"] # mod /\ rewrite_m(dep2) = dep2

Agree(both, either, dep, cond, cmp, v) ==
  /\ expr_calc_value(dep, v) = expr_calc_value(both, v)
  /\ IsNo(cond, v) = IsNo(both, v)
  /\ expr_calc_value(cmp, v) \in {no, yes}
  /\ ~IsNo(cmp, v) => ~IsNo(either, v)
  /\ NothingM(v) => IsNo(cmp, v) = IsNo(either, v)

RewriteAgrees(parent, both, either) ==
  \A dep \in {Propagated(parent, dep2)}, cmp \in {NotNo(either)} :
    \A cond \in {AsCondition(dep)} :
      \A v \in Valuations : Agree(both, either, dep, cond, cmp, v)

(* The rewriting of a dependency below that of its parent keeps its value  *)
(* for every value of the symbols, m meaning m && MODULES; as a condition  *)
(* it is n exactly when the dependency is; expr_eq holds only of           *)
(* equivalent expressions; and the comparison with n that menu_finalize    *)
(* inserts holds only where the expression is not n, and everywhere else   *)
(* when nothing is m (expr.c:190-985, menu.c:82-105, 355-406).             *)
RewritesKeepMeaning ==
  part = "expr" /\ dep2 # None =>
    /\ \A d2 \in {rewrite_m(dep2)} :
         RewriteAgrees(AtTop(dep1), Two("AND", dep1, d2), Two("OR", dep1, d2))
    /\ expr_eq(dep1, dep2) => \A v \in Valuations : expr_calc_value(dep1, v) = expr_calc_value(dep2, v)

ShownUnder(dep, base) ==
  InSubmenu(dep, "M", base) =>
    \A v \in Valuations :
      NothingM(v) /\ ~IsNo(dep, v) => v["M"] # no \/ ~IsNo(base, v)

(* An entry is put into the submenu of a symbol only if it is hidden while *)
(* the symbol is n and cannot be set either: nothing being m, a visible    *)
(* entry has the symbol set or shown (menu.c:456-491).                     *)
SubmenuSound == part = "expr" /\ dep2 # None => ShownUnder(AtTop(dep1), AtTop(dep2))

-----------------------------------------------------------------------------
(* Whatever was edited, rewritten, saved or read before, reading the       *)
(* .config that conf_write writes gives every symbol the value it had when *)
(* it was written, without a warning and with nothing left to save, and    *)
(* reading the minimal file of conf_write_defconfig gives every symbol the *)
(* value it had there (confdata.c:508-580, 751-937).  These are the values *)
(* after the recalculation that the writer does first if nothing has       *)
(* changed (:865), or always (:761); CacheCoherent says when they are the  *)
(* ones the user saw.  So it is for menus like this one, without a default *)
(* above its prompt: a file makes that default a user value, which the     *)
(* prompt bounds.                                                          *)
FilesReadBack ==
  part = "sym" =>
    /\ \A a \in {ToWrite} : ReadBack(ConfigFile(a.c)) = [values |-> ValuesOf(a.c), clean |-> TRUE]
    /\ \A a \in {ToWriteMinimal} : ReadBack(MinimalFile(a.c)).values = ValuesOf(a.c)

(* Setting a symbol to the value it has keeps the cached values            *)
(* (symbol.c:529): they are still what a recalculation would give, except  *)
(* after a choice in mode y has lost its user value (symbol.c:288).  In    *)
(* that state the choice falls back to m at the next recalculation, and    *)
(* saving a second time writes another file.                               *)
CacheCoherent ==
  part = "sym" =>
    \/ ValuesOf(Calc(def, pick, user).c) = ValuesOf(cur)
    \/ \E c \in ChoiceSyms : cur[c].tri = yes /\ c \notin user
=============================================================================
