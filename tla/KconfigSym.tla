----------------------------- MODULE KconfigSym -----------------------------
(***************************************************************************)
(* The symbols of the kconfig tool (symbol.c) and the way their values go  *)
(* into .config and back (confdata.c): user values, visibility, selects,   *)
(* choices and the cached value of every symbol.                           *)
(*                                                                         *)
(* Menu is the list of the symbols in the order in which their values are  *)
(* calculated: a symbol depends only on symbols before it.  An entry has   *)
(* the fields                                                              *)
(*   sym, type  "bool" or "tri"        choice, optional  BOOLEAN           *)
(*   of         its choice, or NULL    prompt  condition, n if no prompt   *)
(*   dir, rev, imp  dir_dep, rev_dep, implied     defs  <<[val, cond]...>> *)
(* Strings and numbers, and so the ranges, are left out.                   *)
(***************************************************************************)
EXTENDS KconfigTristate, Sequences, FiniteSets, FiniteSetsExt

CONSTANTS
  Menu,            \* sequence of entries
  EvalExpr(_, _)   \* expr_calc_value: an expression's value, given the symbols'

VARIABLES
  def,    \* symbol -> the user's tristate   (sym->def[S_DEF_USER].tri)
  pick,   \* choice -> the user's value, or NULL   (.val)
  user,   \* the symbols with a user value   (SYMBOL_DEF_USER)
  cur,    \* symbol -> its calculated state, while SYMBOL_VALID
  changed \* whether there is something to save   (sym_change_count # 0)

symVars == <<def, pick, user, cur, changed>>

NULL == "NULL"

Entries == {Menu[i] : i \in DOMAIN Menu}
Syms == {e.sym : e \in Entries}
Entry == [s \in Syms |-> CHOOSE e \in Entries : e.sym = s]
ChoiceSyms == {s \in Syms : Entry[s].choice}
Valuation == [Syms -> Tristate]

(* The expressions of an entry. *)
ExprsOf(e) ==
  {e.prompt, e.dir, e.rev, e.imp} \union
    UNION {{e.defs[i].val, e.defs[i].cond} : i \in DOMAIN e.defs}

(* Every symbol is listed once, with the fields above; an expression has a *)
(* tristate value.                                                         *)
ASSUME MenuAssumption ==
  /\ Menu \in Seq(Entries)
  /\ \A i, j \in DOMAIN Menu : Menu[i].sym = Menu[j].sym => i = j
  /\ modules_sym \in Syms /\ NULL \notin Syms
  /\ \A e \in Entries :
       /\ e.type \in {"bool", "tri"}
       /\ e.choice \in BOOLEAN /\ e.of \in ChoiceSyms \union {NULL}
       /\ e.defs \in Seq({e.defs[i] : i \in DOMAIN e.defs})
       /\ \A x \in ExprsOf(e), v \in Valuation : EvalExpr(x, v) \in Tristate

(* A choice and its values as menu_finalize makes them of a file it does   *)
(* not warn about: the values come after the choice and are no choices     *)
(* (parser.y:134-139); its mode bounds what is shown of them               *)
(* (menu.c:338-344); they have no defaults (else a warning, :513-516); the *)
(* defaults of the choice name values of it (else a warning, :265-273);    *)
(* and what they depend on besides the choice is calculated before it:     *)
(* none depends on another one (else a recursive dependency,               *)
(* symbol.c:1213-1248), and, a limit of this model, none on a symbol that  *)
(* depends on the choice, which sym_calc_choice would calculate first.     *)
ASSUME ChoiceAssumption ==
  /\ \A i, j \in DOMAIN Menu : Menu[j].of = Menu[i].sym =>
       /\ i < j
       /\ Menu[i].choice /\ ~Menu[j].choice
       /\ Menu[j].defs = <<>>
       /\ \A v, w \in Valuation :
            /\ v[Menu[i].sym] = no => EvalExpr(Menu[j].prompt, v) = no
            /\ (\A k \in 1 .. i : v[Menu[k].sym] = w[Menu[k].sym])
                 => EvalExpr(Menu[j].prompt, v) = EvalExpr(Menu[j].prompt, w)
  /\ \A i \in DOMAIN Menu : Menu[i].choice =>
       \A k \in DOMAIN Menu[i].defs :
         /\ Menu[i].defs[k].val.s \in Syms
         /\ Entry[Menu[i].defs[k].val.s].of = Menu[i].sym

(* f applied to the entries in menu order, each time to the result so far. *)
OverMenu(f(_, _), base) ==
  LET upto[i \in 0 .. Len(Menu)] == IF i = 0 THEN base ELSE f(upto[i - 1], Menu[i]) IN
  upto[Len(Menu)]

(* What is known of the symbols while values are being calculated. *)
Ev(e, c) == EvalExpr(e, [s \in Syms |-> c[s].tri])

Blank == [s \in Syms |-> [tri |-> no, visible |-> no, dir |-> no, rev |-> no,
                          imp |-> no, write |-> FALSE, val |-> NULL]]

sym_get_type(e, visible, c) ==
  IF e.type = "tri" /\ ((e.of # NULL /\ visible = yes) \/ c[modules_sym].tri = no)
  THEN "bool" ELSE e.type

Whole(x, type) == IF x = mod /\ type = "bool" THEN yes ELSE x

(* What a prompt that evaluates to p shows of e. *)
Shown(e, c, p) ==
  IF p # mod THEN p
  ELSE IF e.of # NULL /\ e.type = "tri" /\ c[e.of].tri = yes THEN no
  ELSE Whole(mod, IF c[modules_sym].tri = no THEN "bool" ELSE e.type)

(* A choice value gets no dependencies. *)
WithVisibility(e, c, v) ==
  LET tri(x) == IF e.of # NULL THEN no ELSE Whole(Ev(x, c), sym_get_type(e, v, c)) IN
  [c[e.sym] EXCEPT !.visible = v, !.dir = tri(e.dir), !.rev = tri(e.rev), !.imp = tri(e.imp)]

sym_calc_visibility(e, c) == WithVisibility(e, c, Shown(e, c, Ev(e.prompt, c)))

(* The defaults that apply: the first is the one that counts. *)
Applicable(e, c) == {i \in DOMAIN e.defs : Ev(e.defs[i].cond, c) # no}

DefaultOf(d, c) == Least(Ev(d.val, c), Ev(d.cond, c))

Default(e, c) == IF Applicable(e, c) = {} THEN no ELSE DefaultOf(e.defs[Min(Applicable(e, c))], c)

sym_choice_default(s, c) ==
  LET defs == Entry[s].defs
      named == {i \in Applicable(Entry[s], c) : c[defs[i].val.s].visible # no}
      shown == {i \in DOMAIN Menu : Menu[i].of = s /\ c[Menu[i].sym].visible # no} IN
  IF named # {} THEN defs[Min(named)].val.s ELSE IF shown # {} THEN Menu[Min(shown)].sym ELSE NULL

(* The value of a choice that is y, for the user's pick p, and whether     *)
(* every value that is shown has a user value.                             *)
ChosenAmong(s, c, p, u, shown) ==
  <<IF p \in shown THEN p ELSE sym_choice_default(s, c), shown \subseteq u>>

ChosenIn(s, c, p, u) ==
  ChosenAmong(s, c, p, u, {x \in Syms : Entry[x].of = s /\ c[x].visible # no})

sym_calc_choice(s, c, p, u) ==
  ChosenIn(s, [x \in Syms |-> IF Entry[x].of = s THEN sym_calc_visibility(Entry[x], c) ELSE c[x]], p, u)

(* A faulty variant: a value of a choice is what the user set. *)
ChoiceValueFree(e, st, c, d, u, dflt) ==
  Greatest(st.rev, IF st.visible # no /\ e.sym \in u THEN Least(d, st.visible) ELSE dflt)

(* The tristate of e in state st, for user value d and default dflt. *)
NewTristate(e, st, c, d, u, dflt) ==
  IF e.of # NULL /\ st.visible = yes THEN (IF c[e.of].val = e.sym THEN yes ELSE no)
  ELSE Greatest(st.rev,
         IF st.visible # no /\ e.sym \in u THEN Least(d, st.visible)
         ELSE IF e.choice THEN no
         ELSE IF st.imp = no THEN dflt
         ELSE Least(Greatest(dflt, st.imp), st.dir))

(* Its value, and SYMBOL_WRITE: shown, or, if the user's value does not    *)
(* decide, selected, implied or set by a default.                          *)
NewState(e, st, c, d, u, dflt) ==
  [st EXCEPT
     !.tri = Whole(NewTristate(e, st, c, d, u, dflt), sym_get_type(e, st.visible, c)),
     !.write = st.visible # no \/ st.rev # no \/ (~e.choice /\ (dflt # no \/ st.imp # no))]

(* A choice that is y but shows a value the user has not seen loses its    *)
(* own user value.                                                         *)
WithChoice(a, s, c, chosen) ==
  [c |-> [c EXCEPT ![s].val = chosen[1], ![s].tri = IF chosen[1] = NULL THEN no ELSE yes],
   u |-> IF chosen[2] THEN a.u ELSE a.u \ {s}]

AfterValue(a, e, p, c) ==
  IF ~e.choice \/ c[e.sym].tri # yes THEN [a EXCEPT !.c = c]
  ELSE WithChoice(a, e.sym, c, sym_calc_choice(e.sym, c, p[e.sym], a.u))

AfterVisibility(a, e, d, p, c) ==
  AfterValue(a, e, p, [c EXCEPT ![e.sym] = NewState(e, @, c, d[e.sym], a.u, Default(e, c))])

(* One symbol; a = [c, u]: the states so far and the user values. *)
sym_calc_value(a, e, d, p) ==
  AfterVisibility(a, e, d, p, [a.c EXCEPT ![e.sym] = sym_calc_visibility(e, a.c)])

(* All symbols from nothing, as after sym_clear_all_valid. *)
Calc(d, p, u) ==
  OverMenu(LAMBDA a, e : sym_calc_value(a, e, d, p), [c |-> Blank, u |-> u])

(* sym_clear_all_valid also counts a change. *)
Recalculate(d, p, u) ==
  /\ \E a \in {Calc(d, p, u)} : def' = d /\ pick' = p /\ user' = a.u /\ cur' = a.c
  /\ changed' = TRUE

-----------------------------------------------------------------------------
sym_tristate_within_range(s, v) ==
  LET st == cur[s]
      type == sym_get_type(Entry[s], st.visible, cur) IN
  /\ st.visible # no
  /\ ~(type = "bool" /\ v = mod)
  /\ st.visible > st.rev
  /\ IF Entry[s].of # NULL /\ st.visible = yes THEN v = yes
     ELSE v >= st.rev /\ v <= st.visible

Settable(s, v) == cur[s].tri = v \/ sym_tristate_within_range(s, v)

(* A faulty variant: the cached values are kept. *)
SetKeepingCache(s, v, d, p, u) ==
  def' = d /\ pick' = p /\ user' = u /\ UNCHANGED <<cur, changed>>

(* The cached values are thrown away, and a change is counted, only when   *)
(* the value changes.                                                      *)
SetUser(s, v, d, p, u) ==
  IF cur[s].tri = v THEN def' = d /\ pick' = p /\ user' = u /\ UNCHANGED <<cur, changed>>
  ELSE Recalculate(d, p, u)

(* Setting a value of a choice also tells the choice's pick, and that all  *)
(* values that are shown have been seen.                                   *)
sym_set_tristate_value(s, v) ==
  LET c == Entry[s].of
      chosen == c # NULL /\ v = yes IN
  /\ Settable(s, v)
  /\ SetUser(s, v, [def EXCEPT ![s] = v],
             IF chosen THEN [pick EXCEPT ![c] = s] ELSE pick,
             user \union {s} \union
               (IF chosen THEN {c} \union {x \in Syms : Entry[x].of = c /\ cur[x].visible # no}
                ELSE {}))

(* n -> m -> y -> n, up to the first value that can be set. *)
Cycle(v) == (v + 1) % 3

NextSettable(s, v) ==
  IF Settable(s, Cycle(v)) THEN Cycle(v)
  ELSE IF Settable(s, Cycle(Cycle(v))) THEN Cycle(Cycle(v)) ELSE v

sym_toggle_tristate_value(s) == sym_set_tristate_value(s, NextSettable(s, cur[s].tri))

conf_rewrite_mod_or_yes(old, new) ==
  Recalculate([s \in Syms |-> IF sym_get_type(Entry[s], cur[s].visible, cur) = "tri" /\ def[s] = old
                              THEN new ELSE def[s]], pick, user)

-----------------------------------------------------------------------------
(* A faulty variant: only the symbols that are shown are written. *)
WriteShown(c) == [s \in {x \in Syms : ~Entry[x].choice /\ c[x].visible # no} |-> c[s].tri]

(* A configuration file: symbol -> tristate, for the symbols it names. *)
ConfigFile(c) ==
  LET named == {s \in Syms : ~Entry[s].choice /\ c[s].write} IN
  [s \in named |-> c[s].tri]

(* The default a symbol would have without its user value. *)
sym_get_string_default(e, c) ==
  LET v == Greatest(Default(e, c), c[e.sym].rev)
      modules == e.of # NULL \/ c[modules_sym].tri # no IN
  Greatest(Whole(v, IF modules THEN e.type ELSE "bool"), c[e.sym].imp)

(* The minimal file: what can be changed and differs from its default. *)
MinimalFile(c) ==
  LET skip(e) ==
        \/ ~c[e.sym].write
        \/ c[e.sym].visible <= c[e.sym].rev
        \/ c[e.sym].tri = sym_get_string_default(e, c)
        \/ /\ e.of # NULL /\ e.type = "bool" /\ c[e.sym].tri = yes
           /\ ~Entry[e.of].optional /\ sym_choice_default(e.of, c) = e.sym IN
  [s \in {x \in Syms : ~Entry[x].choice /\ ~skip(Entry[x])} |-> c[s].tri]

(* Both files are written from calculated values.  .config gets the cached *)
(* ones if there is a change to save; else, and for the minimal file       *)
(* always, sym_clear_all_valid has them calculated again first.            *)
ToWrite == IF changed THEN [c |-> cur, u |-> user] ELSE Calc(def, pick, user)

ToWriteMinimal == Calc(def, pick, user)

(* .config is saved and the user goes on. *)
conf_write ==
  /\ \E a \in {ToWrite} : user' = a.u /\ cur' = a.c
  /\ changed' = FALSE
  /\ UNCHANGED <<def, pick>>

(* A line of a file: a value of a choice also tells the choice's mode and  *)
(* pick.  w: a warning that it changes the state of the choice, or makes   *)
(* it inconsistent.                                                        *)
ReadLine(file, r, e) ==
  IF e.sym \notin DOMAIN file THEN r
  ELSE LET v == file[e.sym]
           c == e.of
           d == [r.d EXCEPT ![e.sym] = v]
           u == r.u \union {e.sym} IN
       IF c = NULL THEN [d |-> d, p |-> r.p, u |-> u, w |-> r.w]
       ELSE [d |-> [d EXCEPT ![c] = Greatest(@, v)],
             p |-> [r.p EXCEPT ![c] = IF v = yes THEN e.sym ELSE @],
             u |-> IF v = mod /\ r.d[c] = yes THEN u \ {c} ELSE u,
             w |-> r.w \/ (v = mod /\ r.d[c] = yes) \/ (v = yes /\ r.d[c] # no)]

(* The user state a file gives *)
conf_read_simple(file) ==
  OverMenu(LAMBDA r, e : ReadLine(file, r, e),
           [d |-> [s \in Syms |-> no], p |-> [s \in ChoiceSyms |-> NULL], u |-> ChoiceSyms,
            w |-> FALSE])

(* The values agree with the file, so that nothing has to be saved. *)
Saved(c, r) ==
  \A s \in Syms \ ChoiceSyms :
    (s \in r.u /\ c[s].write /\ r.d[s] = c[s].tri) \/ (s \notin r.u /\ ~c[s].write)

CalcFrom(r) == Calc(r.d, r.p, r.u)

(* The user value of a symbol that is hidden is dropped if nothing has to  *)
(* be saved.  dirty: a change is counted whatever the file says.           *)
ReadFile(file, dirty) ==
  \E r \in {conf_read_simple(file)} : \E a \in {CalcFrom(r)} :
    /\ def' = r.d /\ pick' = r.p
    /\ cur' = a.c
    /\ user' = IF ~Saved(a.c, [r EXCEPT !.u = a.u]) THEN a.u
               ELSE {s \in a.u : Entry[s].of # NULL \/ a.c[s].visible # no}
    /\ changed' = (dirty \/ r.w \/ ~Saved(a.c, [r EXCEPT !.u = a.u]))

conf_read(file) == ReadFile(file, FALSE)

(* mconf counts a change after loading a file the user names. *)
conf_load(file) == ReadFile(file, TRUE)

(* allyesconfig, allmodconfig, allnoconfig from a fresh start *)
conf_set_all_new_symbols(v) ==
  Recalculate([s \in Syms |-> v], [s \in ChoiceSyms |-> NULL], Syms)

(* No file yet, which counts as a change. *)
SymInit ==
  /\ changed = TRUE
  /\ def = [s \in Syms |-> no]
  /\ pick = [s \in ChoiceSyms |-> NULL]
  /\ \E a \in {Calc(def, pick, {})} : user = a.u /\ cur = a.c

Edit == \E s \in Syms : sym_toggle_tristate_value(s) \/ \E v \in {no, mod, yes} : sym_set_tristate_value(s, v)
(* A file is written and read by the next process, or loaded by this one.  *)
(* conf --savedefconfig, which ends after the minimal file, writes it      *)
(* right after conf_read; here it may be written in every state.           *)
Read(file) == conf_read(file) \/ conf_load(file)
Reopen ==
  \/ \E a \in {ToWrite} : Read(ConfigFile(a.c))
  \/ \E a \in {ToWriteMinimal} : Read(MinimalFile(a.c))
AllNew == \E v \in {no, mod, yes} : conf_set_all_new_symbols(v)
Rewrite == conf_rewrite_mod_or_yes(yes, mod) \/ conf_rewrite_mod_or_yes(mod, yes)

SymNext == Edit \/ conf_write \/ Reopen \/ AllNew \/ Rewrite

SymSpec == SymInit /\ [][SymNext]_symVars

-----------------------------------------------------------------------------
(* A choice that is y has exactly one value y, and one that is n none,     *)
(* after any edits of its values, their dependencies and the modules       *)
(* symbol (symbol.c:272-302, 371-376).                                     *)
ChoiceExclusive ==
  \A c \in ChoiceSyms :
    LET set == {s \in Syms : Entry[s].of = c /\ cur[s].tri = yes} IN
    /\ cur[c].tri = yes => Cardinality(set) = 1
    /\ cur[c].tri = no => set = {}

ValuesOf(c) == [s \in Syms |-> c[s].tri]

(* The values after reading a file, and whether nothing is left to save    *)
(* and there was no warning, so that no change is counted.                 *)
Outcome(r, a) == [values |-> ValuesOf(a.c), clean |-> Saved(a.c, [r EXCEPT !.u = a.u]) /\ ~r.w]

OutcomeOf(r) == Outcome(r, CalcFrom(r))

ReadBack(file) == OutcomeOf(conf_read_simple(file))
=============================================================================
