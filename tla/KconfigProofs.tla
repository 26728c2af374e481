---------------------------- MODULE KconfigProofs ---------------------------
(***************************************************************************)
(* Choices of kconfig are exclusive for every menu and every way to edit   *)
(* and reread it.                                                          *)
(***************************************************************************)
EXTENDS KconfigSym, Induction, FiniteSetTheorems

-----------------------------------------------------------------------------
(* Types *)

SymState ==
  [tri : Tristate, visible : Tristate, dir : Tristate, rev : Tristate, imp : Tristate,
   write : BOOLEAN, val : Syms \union {NULL}]

States == [Syms -> SymState]
Picks == [ChoiceSyms -> Syms \union {NULL}]

(* What sym_calc_value works on. *)
Acc == [c : States, u : SUBSET Syms]

(* A menu is a sequence of entries with different symbols. *)
LEMMA MenuFacts ==
  /\ Len(Menu) \in Nat /\ DOMAIN Menu = 1 .. Len(Menu)
  /\ \A i \in DOMAIN Menu :
       Menu[i] \in Entries /\ Menu[i].sym \in Syms /\ Entry[Menu[i].sym] = Menu[i]
  /\ \A s \in Syms : Entry[s] \in Entries /\ \E i \in DOMAIN Menu : Menu[i].sym = s /\ Entry[s] = Menu[i]
  <1>1. Len(Menu) \in Nat /\ DOMAIN Menu = 1 .. Len(Menu)
    BY MenuAssumption
  <1>2. ASSUME NEW i \in DOMAIN Menu
        PROVE  Menu[i] \in Entries /\ Menu[i].sym \in Syms /\ Entry[Menu[i].sym] = Menu[i]
    <2>1. Menu[i] \in Entries /\ Menu[i].sym \in Syms
      BY DEF Entries, Syms
    <2>2. \A e \in Entries : e.sym = Menu[i].sym => e = Menu[i]
      BY MenuAssumption DEF Entries
    <2>3. QED
      BY <2>1, <2>2 DEF Entry
  <1>3. ASSUME NEW s \in Syms
        PROVE  Entry[s] \in Entries /\ \E i \in DOMAIN Menu : Menu[i].sym = s /\ Entry[s] = Menu[i]
    <2>1. PICK i \in DOMAIN Menu : Menu[i].sym = s
      BY DEF Syms, Entries
    <2>2. QED
      BY <1>2, <2>1
  <1>4. QED
    BY <1>1, <1>2, <1>3

(* EXPR_AND, EXPR_OR and a mod that becomes yes stay tristate. *)
LEMMA TristateFacts ==
  /\ \A x, y \in Tristate : Least(x, y) \in Tristate /\ Greatest(x, y) \in Tristate
  /\ \A t : \A x \in Tristate : Whole(x, t) \in Tristate
  BY DEF Tristate, Least, Greatest, Whole, no, mod, yes

(* The values of the symbols are a valuation, and expressions have values. *)
LEMMA EvType ==
  ASSUME NEW c \in States, NEW e \in Entries, NEW x \in ExprsOf(e)
  PROVE  Ev(x, c) \in Tristate
  <1>1. [s \in Syms |-> c[s].tri] \in Valuation
    BY DEF States, SymState, Valuation
  <1>2. QED
    BY <1>1, MenuAssumption DEF Ev

LEMMA ExprsIn ==
  ASSUME NEW e \in Entries
  PROVE  /\ e.prompt \in ExprsOf(e) /\ e.dir \in ExprsOf(e)
         /\ e.rev \in ExprsOf(e) /\ e.imp \in ExprsOf(e)
         /\ \A i \in DOMAIN e.defs : e.defs[i].val \in ExprsOf(e) /\ e.defs[i].cond \in ExprsOf(e)
  BY DEF ExprsOf

LEMMA ShownType ==
  ASSUME NEW e \in Entries, NEW c \in States, NEW p \in Tristate
  PROVE  Shown(e, c, p) \in Tristate
  BY TristateFacts DEF Shown, Tristate, no, mod, yes

LEMMA VisibilityType ==
  ASSUME NEW e \in Entries, NEW c \in States, e.sym \in Syms
  PROVE  sym_calc_visibility(e, c) \in SymState
  <1> DEFINE v == Shown(e, c, Ev(e.prompt, c))
  <1>1. v \in Tristate
    BY ShownType, EvType, ExprsIn
  <1>2. ASSUME NEW x \in ExprsOf(e)
        PROVE  (IF e.of # NULL THEN no ELSE Whole(Ev(x, c), sym_get_type(e, v, c))) \in Tristate
    BY EvType, TristateFacts DEF Tristate
  <1>3. c[e.sym] \in SymState
    BY DEF States
  <1> HIDE DEF v
  <1>4. WithVisibility(e, c, v) \in SymState
    BY <1>1, <1>2, <1>3, ExprsIn DEF WithVisibility, SymState
  <1>5. QED
    BY <1>4 DEF sym_calc_visibility, v

(* The first element of a set of positions. *)
LEMMA MinIn ==
  ASSUME NEW S \in SUBSET Nat, S # {}
  PROVE  Min(S) \in S
  BY LeastElement DEF Min

(* Defaults are numbered. *)
LEMMA DefsNumbered ==
  ASSUME NEW e \in Entries
  PROVE  DOMAIN e.defs \subseteq Nat
  <1> DEFINE D == {e.defs[i] : i \in DOMAIN e.defs}
  <1>1. e.defs \in Seq(D)
    BY MenuAssumption
  <1> HIDE DEF D
  <1>2. QED
    BY <1>1

LEMMA DefaultType ==
  ASSUME NEW e \in Entries, NEW c \in States
  PROVE  Default(e, c) \in Tristate
  <1>1. DOMAIN e.defs \subseteq Nat
    BY DefsNumbered
  <1>2. Applicable(e, c) \subseteq DOMAIN e.defs
    BY DEF Applicable
  <1>3. CASE Applicable(e, c) = {}
    BY <1>3 DEF Default, Tristate
  <1>4. CASE Applicable(e, c) # {}
    <2>1. Min(Applicable(e, c)) \in DOMAIN e.defs
      BY <1>1, <1>2, <1>4, MinIn
    <2>2. QED
      BY <1>4, <2>1, ExprsIn, EvType, TristateFacts DEF Default, DefaultOf
  <1>5. QED
    BY <1>3, <1>4

-----------------------------------------------------------------------------
(* One symbol *)

(* The state in which sym_calc_value leaves a symbol that is no choice, or *)
(* a choice before sym_calc_choice.                                        *)
Valued(e, c, d, u) ==
  NewState(e, sym_calc_visibility(e, c), [c EXCEPT ![e.sym] = sym_calc_visibility(e, c)], d[e.sym],
           u, Default(e, [c EXCEPT ![e.sym] = sym_calc_visibility(e, c)]))

LEMMA ValuedType ==
  ASSUME NEW e \in Entries, e.sym \in Syms, NEW c \in States, NEW d \in Valuation, NEW u
  PROVE  Valued(e, c, d, u) \in SymState
  <1> DEFINE st == sym_calc_visibility(e, c)
             c1 == [c EXCEPT ![e.sym] = st]
             dflt == Default(e, c1)
  <1>1. st \in SymState
    BY VisibilityType
  <1>2. c1 \in States
    BY <1>1 DEF States
  <1>3. dflt \in Tristate /\ d[e.sym] \in Tristate
    BY <1>2, DefaultType DEF Valuation
  <1>4. /\ st.rev \in Tristate /\ st.imp \in Tristate /\ st.dir \in Tristate
        /\ st.visible \in Tristate
    BY <1>1 DEF SymState
  <1> HIDE DEF st, c1, dflt
  <1>5. NewTristate(e, st, c1, d[e.sym], u, dflt) \in Tristate
    <2>1. no \in Tristate /\ yes \in Tristate
      BY DEF Tristate
    <2>2. QED
      BY <1>3, <1>4, <2>1, TristateFacts DEF NewTristate
  <1>6. NewState(e, st, c1, d[e.sym], u, dflt) \in SymState
    BY <1>1, <1>5, TristateFacts DEF NewState, SymState
  <1>7. QED
    BY <1>6 DEF Valued, st, c1, dflt

(* What sym_calc_value does in terms of Valued. *)
LEMMA CalcValueIs ==
  ASSUME NEW a \in Acc, NEW e \in Entries, e.sym \in Syms, NEW d \in Valuation, NEW p
  PROVE  LET c == [a.c EXCEPT ![e.sym] = Valued(e, a.c, d, a.u)] IN
         sym_calc_value(a, e, d, p) =
           IF ~e.choice \/ c[e.sym].tri # yes THEN [c |-> c, u |-> a.u]
           ELSE WithChoice(a, e.sym, c, sym_calc_choice(e.sym, c, p[e.sym], a.u))
  <1> DEFINE st == sym_calc_visibility(e, a.c)
             c1 == [a.c EXCEPT ![e.sym] = st]
             c == [a.c EXCEPT ![e.sym] = Valued(e, a.c, d, a.u)]
  <1>0. a.c \in States /\ a = [c |-> a.c, u |-> a.u]
    BY DEF Acc
  <1>1. c1[e.sym] = st
    BY <1>0 DEF States
  <1>2. [c1 EXCEPT ![e.sym] = NewState(e, @, c1, d[e.sym], a.u, Default(e, c1))] = c
    <2>1. NewState(e, c1[e.sym], c1, d[e.sym], a.u, Default(e, c1)) = Valued(e, a.c, d, a.u)
      BY <1>1 DEF Valued
    <2> HIDE DEF st
    <2>2. QED
      BY <2>1, <1>0 DEF States
  <1>3. sym_calc_value(a, e, d, p) = AfterValue(a, e, p, c)
    BY <1>2 DEF sym_calc_value, AfterVisibility
  <1> HIDE DEF c
  <1>4. [a EXCEPT !.c = c] = [c |-> c, u |-> a.u]
    BY <1>0
  <1>5. QED
    BY <1>3, <1>4 DEF AfterValue, c

(* The state of the choice s after sym_calc_choice: its value is one of    *)
(* those shown, or it has none and is no.                                  *)
VisibleIn(s, c) == {x \in Syms : Entry[x].of = s /\ sym_calc_visibility(Entry[x], c).visible # no}

LEMMA ChoiceDefaultShown ==
  ASSUME NEW s \in ChoiceSyms, NEW c \in States
  PROVE  sym_choice_default(s, c) \in {x \in Syms : Entry[x].of = s /\ c[x].visible # no} \union {NULL}
  <1> DEFINE defs == Entry[s].defs
             named == {i \in Applicable(Entry[s], c) : c[defs[i].val.s].visible # no}
             shown == {i \in DOMAIN Menu : Menu[i].of = s /\ c[Menu[i].sym].visible # no}
  <1>0. s \in Syms
    BY DEF ChoiceSyms
  <1>1. PICK i \in DOMAIN Menu : Menu[i].sym = s /\ Entry[s] = Menu[i]
    BY <1>0, MenuFacts
  <1>2. CASE named # {}
    <2>0. Entry[s] \in Entries
      BY <1>0, MenuFacts
    <2>1. named \subseteq DOMAIN defs /\ DOMAIN defs \subseteq Nat
      <3>1. DOMAIN defs \subseteq Nat
        BY <2>0, DefsNumbered
      <3>2. named \subseteq DOMAIN defs
        BY DEF Applicable
      <3>3. QED
        BY <3>1, <3>2
    <2>2. Min(named) \in named
      BY <1>2, <2>1, MinIn
    <2>3. sym_choice_default(s, c) = defs[Min(named)].val.s
      BY <1>2 DEF sym_choice_default
    <2>4. Menu[i].choice
      <3>1. Entry[s].choice
        BY DEF ChoiceSyms
      <3>2. QED
        BY <1>1, <3>1
    <2>5. defs[Min(named)].val.s \in Syms /\ Entry[defs[Min(named)].val.s].of = s
      <3> DEFINE k == Min(named)
      <3>1. k \in DOMAIN Menu[i].defs /\ defs = Menu[i].defs
        BY <1>1, <2>1, <2>2
      <3> HIDE DEF k, defs, named
      <3>2. \A l \in DOMAIN Menu[i].defs :
              Menu[i].defs[l].val.s \in Syms /\ Entry[Menu[i].defs[l].val.s].of = Menu[i].sym
        BY <2>4, ChoiceAssumption, Zenon
      <3>3. Menu[i].defs[k].val.s \in Syms /\ Entry[Menu[i].defs[k].val.s].of = s
        BY <1>1, <3>1, <3>2, Zenon
      <3>4. QED
        BY <3>1, <3>3 DEF k
    <2>6. QED
      BY <2>2, <2>3, <2>5
  <1>3. CASE named = {} /\ shown # {}
    <2>1. shown \subseteq DOMAIN Menu /\ DOMAIN Menu \subseteq Nat
      BY MenuFacts
    <2>2. Min(shown) \in shown
      BY <1>3, <2>1, MinIn
    <2>3. sym_choice_default(s, c) = Menu[Min(shown)].sym
      BY <1>3 DEF sym_choice_default
    <2>4. QED
      BY <2>2, <2>3, MenuFacts
  <1>4. CASE named = {} /\ shown = {}
    BY <1>4 DEF sym_choice_default
  <1>5. QED
    BY <1>2, <1>3, <1>4

LEMMA EntryFacts ==
  ASSUME NEW x \in Syms
  PROVE  Entry[x] \in Entries /\ Entry[x].sym = x
  BY MenuFacts

(* sym_calc_choice gives a choice one of the values that are shown, or     *)
(* none.                                                                   *)
LEMMA ChosenIsShown ==
  ASSUME NEW s \in ChoiceSyms, NEW c \in States, NEW p, NEW u
  PROVE  /\ sym_calc_choice(s, c, p, u)[1] \in VisibleIn(s, c) \union {NULL}
         /\ VisibleIn(s, c) \subseteq Syms
  <1> DEFINE c2 == [x \in Syms |-> IF Entry[x].of = s THEN sym_calc_visibility(Entry[x], c) ELSE c[x]]
             shown == {x \in Syms : Entry[x].of = s /\ c2[x].visible # no}
  <1>1. c2 \in States
    BY EntryFacts, VisibilityType DEF States
  <1>2. shown = VisibleIn(s, c)
    BY DEF VisibleIn
  <1> HIDE DEF c2
  <1>3. sym_choice_default(s, c2) \in shown \union {NULL}
    BY <1>1, ChoiceDefaultShown
  <1>4. sym_calc_choice(s, c, p, u) = ChosenAmong(s, c2, p, u, shown)
    BY DEF sym_calc_choice, ChosenIn, c2
  <1> HIDE DEF shown
  <1>5. ChosenAmong(s, c2, p, u, shown)[1] = IF p \in shown THEN p ELSE sym_choice_default(s, c2)
    BY DEF ChosenAmong
  <1>6. VisibleIn(s, c) \subseteq Syms
    BY DEF VisibleIn
  <1>7. QED
    BY <1>2, <1>3, <1>4, <1>5, <1>6

(* A choice that is y after sym_calc_choice: one of its values that are    *)
(* shown is its value, or it is n.                                         *)
ChoiceDone(a, s, c, p) == WithChoice(a, s, c, sym_calc_choice(s, c, p, a.u))

LEMMA WithChoiceIs ==
  ASSUME NEW a \in Acc, NEW s \in ChoiceSyms, NEW c \in States, NEW p,
         c[s].tri = yes
  PROVE  /\ ChoiceDone(a, s, c, p) \in Acc
         /\ \A x \in Syms : x # s => ChoiceDone(a, s, c, p).c[x] = c[x]
         /\ ChoiceDone(a, s, c, p).c[s].val \in VisibleIn(s, c) \union {NULL}
         /\ ChoiceDone(a, s, c, p).c[s].tri =
              IF ChoiceDone(a, s, c, p).c[s].val = NULL THEN no ELSE yes
  <1> DEFINE ch == sym_calc_choice(s, c, p, a.u)
             st == [c[s] EXCEPT !.val = ch[1], !.tri = IF ch[1] = NULL THEN no ELSE yes]
  <1>0. s \in Syms /\ c[s] \in SymState /\ a.u \in SUBSET Syms /\ no \in Tristate /\ yes \in Tristate
    BY DEF ChoiceSyms, States, Acc, Tristate
  <1>1. ch[1] \in Syms \union {NULL} /\ ch[1] \in VisibleIn(s, c) \union {NULL}
    BY ChosenIsShown
  <1> HIDE DEF ch
  <1>2. st \in SymState /\ st.val = ch[1] /\ st.tri = IF ch[1] = NULL THEN no ELSE yes
    BY <1>0, <1>1 DEF SymState
  <1>3. [c EXCEPT ![s].val = ch[1], ![s].tri = IF ch[1] = NULL THEN no ELSE yes] = [c EXCEPT ![s] = st]
    BY <1>0 DEF States
  <1> HIDE DEF st
  <1>4. /\ [c EXCEPT ![s] = st] \in States /\ [c EXCEPT ![s] = st][s] = st
        /\ \A x \in Syms : x # s => [c EXCEPT ![s] = st][x] = c[x]
    BY <1>0, <1>2 DEF States
  <1> DEFINE c2 == [c EXCEPT ![s] = st]
             u2 == IF ch[2] THEN a.u ELSE a.u \ {s}
  <1>5. u2 \in SUBSET Syms
    BY <1>0
  <1>6. WithChoice(a, s, c, ch) = [c |-> c2, u |-> u2]
    BY <1>3 DEF WithChoice
  <1> HIDE DEF c2, u2
  <1>7. WithChoice(a, s, c, ch) \in Acc /\ WithChoice(a, s, c, ch).c = c2
    BY <1>4, <1>5, <1>6 DEF Acc, c2
  <1>8. QED
    BY <1>1, <1>2, <1>4, <1>7 DEF c2, ch, ChoiceDone

(* A step of the calculation *)
LEMMA StepType ==
  ASSUME NEW a \in Acc, NEW e \in Entries, e.sym \in Syms, Entry[e.sym] = e,
         NEW d \in Valuation, NEW p
  PROVE  /\ sym_calc_value(a, e, d, p) \in Acc
         /\ \A x \in Syms : x # e.sym => sym_calc_value(a, e, d, p).c[x] = a.c[x]
  <1> DEFINE st == Valued(e, a.c, d, a.u)
             c == [a.c EXCEPT ![e.sym] = st]
             r == sym_calc_value(a, e, d, p)
  <1>0. a.c \in States /\ a.u \in SUBSET Syms
    BY DEF Acc
  <1>1. st \in SymState
    BY <1>0, ValuedType
  <1> HIDE DEF st
  <1>2. c \in States /\ c[e.sym] = st /\ \A x \in Syms : x # e.sym => c[x] = a.c[x]
    BY <1>0, <1>1 DEF States
  <1>3. r = IF ~e.choice \/ c[e.sym].tri # yes THEN [c |-> c, u |-> a.u]
            ELSE WithChoice(a, e.sym, c, sym_calc_choice(e.sym, c, p[e.sym], a.u))
    BY CalcValueIs DEF st
  <1> HIDE DEF c, r
  <1>4. CASE ~e.choice \/ c[e.sym].tri # yes
    <2>1. r = [c |-> c, u |-> a.u]
      BY <1>3, <1>4
    <2>2. r \in Acc /\ r.c = c
      BY <1>0, <1>2, <2>1 DEF Acc
    <2>3. QED
      BY <1>2, <2>2 DEF r
  <1>5. CASE e.choice /\ c[e.sym].tri = yes
    <2>1. r = ChoiceDone(a, e.sym, c, p[e.sym])
      BY <1>3, <1>5 DEF ChoiceDone
    <2>2. e.sym \in ChoiceSyms
      BY <1>5 DEF ChoiceSyms
    <2>3. r \in Acc /\ \A x \in Syms : x # e.sym => r.c[x] = c[x]
      BY <1>2, <1>5, <2>1, <2>2, WithChoiceIs
    <2>4. QED
      BY <1>2, <2>3 DEF r
  <1>6. QED
    BY <1>4, <1>5

(* A choice that ends up y has one of its values that were shown.          *)
LEMMA ChoiceStep ==
  ASSUME NEW a \in Acc, NEW e \in Entries, e.sym \in Syms, Entry[e.sym] = e, e.choice,
         NEW d \in Valuation, NEW p, sym_calc_value(a, e, d, p).c[e.sym].tri = yes
  PROVE  \E c \in States :
           /\ c[e.sym].tri = yes
           /\ \A x \in Syms : x # e.sym => c[x] = a.c[x]
           /\ sym_calc_value(a, e, d, p).c[e.sym].val \in VisibleIn(e.sym, c)
  <1> DEFINE st == Valued(e, a.c, d, a.u)
             c == [a.c EXCEPT ![e.sym] = st]
             r == sym_calc_value(a, e, d, p)
  <1>0. a.c \in States /\ a.u \in SUBSET Syms
    BY DEF Acc
  <1>1. st \in SymState
    BY <1>0, ValuedType
  <1> HIDE DEF st
  <1>2. c \in States /\ \A x \in Syms : x # e.sym => c[x] = a.c[x]
    BY <1>0, <1>1 DEF States
  <1>3. r = IF ~e.choice \/ c[e.sym].tri # yes THEN [c |-> c, u |-> a.u]
            ELSE WithChoice(a, e.sym, c, sym_calc_choice(e.sym, c, p[e.sym], a.u))
    BY CalcValueIs DEF st
  <1>4. r.c[e.sym].tri = yes
    OBVIOUS
  <1> HIDE DEF c, r
  <1>5. c[e.sym].tri = yes
    <2>1. SUFFICES ASSUME c[e.sym].tri # yes PROVE FALSE
      OBVIOUS
    <2>2. r = [c |-> c, u |-> a.u]
      BY <1>3, <2>1
    <2>3. r.c = c
      BY <2>2
    <2>4. QED
      BY <1>4, <2>1, <2>3
  <1>6. r = ChoiceDone(a, e.sym, c, p[e.sym])
    BY <1>3, <1>5 DEF ChoiceDone
  <1>7. e.sym \in ChoiceSyms
    BY DEF ChoiceSyms
  <1>8. /\ r.c[e.sym].val \in VisibleIn(e.sym, c) \union {NULL}
        /\ r.c[e.sym].tri = IF r.c[e.sym].val = NULL THEN no ELSE yes
    BY <1>2, <1>5, <1>6, <1>7, WithChoiceIs
  <1>9. r.c[e.sym].val # NULL
    BY <1>4, <1>8 DEF no, yes
  <1>10. QED
    BY <1>2, <1>5, <1>8, <1>9 DEF r

(* What a choice in mode y shows of a value with a prompt that is p.       *)
ShownInYes(e, p) == IF p # mod THEN p ELSE IF e.type = "tri" THEN no ELSE yes

LEMMA VisibleInYes ==
  ASSUME NEW e \in Entries, e.sym \in Syms, e.of # NULL, NEW c \in States, c[e.of].tri = yes
  PROVE  /\ sym_calc_visibility(e, c).visible = ShownInYes(e, Ev(e.prompt, c))
         /\ ShownInYes(e, Ev(e.prompt, c)) \in {no, yes}
  <1>1. Ev(e.prompt, c) \in Tristate
    BY EvType, ExprsIn
  <1>2. e.type \in {"bool", "tri"}
    BY MenuAssumption
  <1>3. Shown(e, c, Ev(e.prompt, c)) = ShownInYes(e, Ev(e.prompt, c))
    BY <1>2 DEF Shown, ShownInYes, Whole
  <1>4. c[e.sym] \in SymState
    BY DEF States
  <1>5. sym_calc_visibility(e, c).visible = Shown(e, c, Ev(e.prompt, c))
    <2> DEFINE v == Shown(e, c, Ev(e.prompt, c))
    <2> HIDE DEF v
    <2>1. WithVisibility(e, c, v).visible = v
      BY <1>4 DEF WithVisibility, SymState
    <2>2. QED
      BY <2>1 DEF sym_calc_visibility, v
  <1>6. QED
    BY <1>1, <1>3, <1>5 DEF ShownInYes, Tristate

(* A hidden prompt shows nothing. *)
LEMMA HiddenPrompt ==
  ASSUME NEW e \in Entries, e.sym \in Syms, NEW c \in States, Ev(e.prompt, c) = no
  PROVE  sym_calc_visibility(e, c).visible = no
  <1>1. Shown(e, c, no) = no
    BY DEF Shown, no, mod
  <1>2. c[e.sym] \in SymState
    BY DEF States
  <1>3. WithVisibility(e, c, no).visible = no
    BY <1>2 DEF WithVisibility, SymState
  <1>4. QED
    BY <1>1, <1>3 DEF sym_calc_visibility

(* A value of a choice that is hidden or shown as y is y exactly if it is  *)
(* the one the choice has.                                                 *)
LEMMA ValueStep ==
  ASSUME NEW a \in Acc, NEW e \in Entries, e.sym \in Syms, Entry[e.sym] = e, ~e.choice,
         e.of \in Syms, e.of # NULL, e.of # e.sym, e.defs = <<>>,
         NEW d \in Valuation, NEW p, sym_calc_visibility(e, a.c).visible \in {no, yes}
  PROVE  sym_calc_value(a, e, d, p).c[e.sym].tri =
           IF sym_calc_visibility(e, a.c).visible = yes /\ a.c[e.of].val = e.sym THEN yes ELSE no
  <1> DEFINE st == sym_calc_visibility(e, a.c)
             c1 == [a.c EXCEPT ![e.sym] = st]
             dflt == Default(e, c1)
             new == Valued(e, a.c, d, a.u)
             c == [a.c EXCEPT ![e.sym] = new]
             r == sym_calc_value(a, e, d, p)
  <1>0. a.c \in States /\ a.u \in SUBSET Syms
    BY DEF Acc
  <1>1. st \in SymState /\ new \in SymState
    BY <1>0, VisibilityType, ValuedType
  <1>2. st.rev = no /\ st.imp = no
    <2> DEFINE v == Shown(e, a.c, Ev(e.prompt, a.c))
    <2>1. a.c[e.sym] \in SymState
      BY <1>0 DEF States
    <2> HIDE DEF v
    <2>2. WithVisibility(e, a.c, v).rev = no /\ WithVisibility(e, a.c, v).imp = no
      BY <2>1 DEF WithVisibility, SymState
    <2>3. QED
      BY <2>2 DEF sym_calc_visibility, v
  <1>3. dflt = no
    <2>1. Applicable(e, c1) = {}
      BY DEF Applicable
    <2> HIDE DEF c1
    <2>2. QED
      BY <2>1 DEF Default
  <1>4. new = NewState(e, st, c1, d[e.sym], a.u, dflt)
    BY DEF Valued
  <1>5. r = [c |-> c, u |-> a.u]
    BY CalcValueIs
  <1>6. c[e.sym] = new
    BY <1>0 DEF States
  <1>7. c1[e.of].val = a.c[e.of].val
    BY <1>0 DEF States
  <1> HIDE DEF st, c1, dflt, new, c, r
  <1>8. NewTristate(e, st, c1, d[e.sym], a.u, dflt) =
          IF st.visible = yes /\ a.c[e.of].val = e.sym THEN yes ELSE no
    <2>0. st.visible \in {no, yes}
      BY DEF st
    <2>1. CASE st.visible = yes
      BY <1>7, <2>1 DEF NewTristate
    <2>2. CASE st.visible = no
      BY <1>2, <1>3, <2>2 DEF NewTristate, Greatest, no, yes
    <2>3. QED
      BY <2>0, <2>1, <2>2
  <1>9. new.tri = NewTristate(e, st, c1, d[e.sym], a.u, dflt)
    <2>1. new.tri = Whole(NewTristate(e, st, c1, d[e.sym], a.u, dflt), sym_get_type(e, st.visible, c1))
      BY <1>1, <1>4 DEF NewState, SymState
    <2>2. QED
      BY <1>8, <2>1 DEF Whole, no, mod, yes
  <1>10. r.c = c
    BY <1>5
  <1>11. QED
    BY <1>6, <1>8, <1>9, <1>10 DEF r, st

-----------------------------------------------------------------------------
(* All symbols *)

(* f[k] is the state after the first k entries. *)
Steps(f, d, p, u) ==
  /\ f \in [0 .. Len(Menu) -> Acc]
  /\ f[0] = [c |-> Blank, u |-> u]
  /\ \A k \in 1 .. Len(Menu) : f[k] = sym_calc_value(f[k - 1], Menu[k], d, p)

LEMMA BlankType ==
  ASSUME NEW u \in SUBSET Syms
  PROVE  [c |-> Blank, u |-> u] \in Acc
  <1>1. Blank \in States
    BY DEF Blank, States, SymState, Tristate
  <1>2. QED
    BY <1>1 DEF Acc

LEMMA MenuStep ==
  ASSUME NEW k \in 1 .. Len(Menu)
  PROVE  /\ Menu[k] \in Entries /\ Menu[k].sym \in Syms /\ Entry[Menu[k].sym] = Menu[k]
         /\ k - 1 \in 0 .. Len(Menu) /\ k \in DOMAIN Menu
  BY MenuFacts

(* The calculation goes through the menu step by step. *)
LEMMA CalcSteps ==
  ASSUME NEW d \in Valuation, NEW p, NEW u \in SUBSET Syms
  PROVE  \E f : Steps(f, d, p, u) /\ Calc(d, p, u) = f[Len(Menu)]
  <1> DEFINE n == Len(Menu)
             base == [c |-> Blank, u |-> u]
             step == [x \in (1 .. n) \X Acc |-> sym_calc_value(x[2], Menu[x[1]], d, p)]
             IsRec(g) == g = [i \in 0 .. n |-> IF i = 0 THEN base ELSE sym_calc_value(g[i - 1], Menu[i], d, p)]
             upto == CHOOSE g : IsRec(g)
  <1>0. n \in Nat
    BY MenuFacts
  <1>1. Calc(d, p, u) = upto[n]
    BY DEF Calc, OverMenu
  <1>2. step \in [(1 .. n) \X Acc -> Acc]
    <2> SUFFICES ASSUME NEW k \in 1 .. n, NEW a \in Acc PROVE sym_calc_value(a, Menu[k], d, p) \in Acc
      OBVIOUS
    <2> QED BY MenuStep, StepType
  <1>3. base \in Acc
    BY BlankType
  <1>4. \A k \in 1 .. n : \A a \in Acc : step[<<k, a>>] = sym_calc_value(a, Menu[k], d, p)
    OBVIOUS
  <1> HIDE DEF step, base, n
  <1>5. PICK g : IterateUpTo(g, n, Acc, base, step)
    BY <1>0, <1>2, <1>3, IteratesUpTo
  <1>6. g \in [0 .. n -> Acc] /\ g = [i \in 0 .. n |-> IF i = 0 THEN base ELSE step[<<i, g[i - 1]>>]]
    BY <1>5 DEF IterateUpTo
  <1>7. IsRec(g)
    <2>1. ASSUME NEW i \in 0 .. n
          PROVE  g[i] = IF i = 0 THEN base ELSE sym_calc_value(g[i - 1], Menu[i], d, p)
      <3>1. CASE i = 0
        BY <1>0, <1>6, <3>1
      <3>2. CASE i # 0
        <4>1. i \in 1 .. n /\ i - 1 \in 0 .. n
          BY <1>0, <3>2
        <4>2. g[i - 1] \in Acc /\ g[i] = step[<<i, g[i - 1]>>]
          BY <1>6, <3>2, <4>1
        <4>3. QED
          BY <1>4, <3>2, <4>1, <4>2
      <3>3. QED
        BY <3>1, <3>2
    <2>2. QED
      BY <1>6, <2>1
  <1>8. IsRec(upto)
    <2> HIDE DEF IsRec
    <2> QED BY <1>7
  <1>9. upto = g
    <2> HIDE DEF upto
    <2>1. upto = [i \in 0 .. n |-> IF i = 0 THEN base ELSE sym_calc_value(upto[i - 1], Menu[i], d, p)]
      BY <1>8
    <2>2. g = [i \in 0 .. n |-> IF i = 0 THEN base ELSE sym_calc_value(g[i - 1], Menu[i], d, p)]
      BY <1>7
    <2> DEFINE A == {k \in Nat : k <= n => upto[k] = g[k]}
    <2>3. A \in SUBSET Nat /\ 0 \in A
      BY <1>0, <2>1, <2>2
    <2>4. \A k \in A : k + 1 \in A
      <3> SUFFICES ASSUME NEW k \in A, k + 1 <= n PROVE upto[k + 1] = g[k + 1]
        OBVIOUS
      <3>1. upto[k] = g[k] /\ k \in Nat /\ k + 1 \in 0 .. n /\ k + 1 # 0 /\ (k + 1) - 1 = k
        BY <1>0
      <3>2. upto[k + 1] = sym_calc_value(upto[k], Menu[k + 1], d, p)
        BY <2>1, <3>1
      <3>3. g[k + 1] = sym_calc_value(g[k], Menu[k + 1], d, p)
        BY <2>2, <3>1
      <3>4. QED
        BY <3>1, <3>2, <3>3
    <2>5. A = Nat
      <3> HIDE DEF A
      <3> QED BY <2>3, <2>4, NatSetInduction
    <2>6. \A k \in 0 .. n : upto[k] = g[k]
      BY <1>0, <2>5
    <2>7. QED
      BY <2>1, <2>2, <2>6
  <1>10. Steps(g, d, p, u)
    <2>1. g[0] = base
      BY <1>0, <1>6
    <2>2. \A k \in 1 .. n : g[k] = sym_calc_value(g[k - 1], Menu[k], d, p)
      BY <1>0, <1>7
    <2>3. QED
      BY <1>6, <2>1, <2>2 DEF Steps, n, base
  <1>11. QED
    BY <1>1, <1>9, <1>10 DEF n

(* Once calculated, a symbol keeps its state. *)
LEMMA StateKept ==
  ASSUME NEW d \in Valuation, NEW p, NEW u, NEW f, Steps(f, d, p, u),
         NEW i \in DOMAIN Menu, NEW m \in i .. Len(Menu)
  PROVE  f[m].c[Menu[i].sym] = f[i].c[Menu[i].sym]
  <1> DEFINE n == Len(Menu)
             s == Menu[i].sym
             A == {k \in Nat : i <= k /\ k <= n => f[k].c[s] = f[i].c[s]}
  <1>0. n \in Nat /\ i \in 1 .. n /\ s \in Syms
    BY MenuFacts
  <1>1. A \in SUBSET Nat /\ 0 \in A
    BY <1>0
  <1>2. \A k \in A : k + 1 \in A
    <2> SUFFICES ASSUME NEW k \in A, i <= k + 1, k + 1 <= n PROVE f[k + 1].c[s] = f[i].c[s]
      OBVIOUS
    <2>1. CASE k + 1 = i
      BY <2>1
    <2>2. CASE k + 1 # i
      <3>1. k \in Nat /\ i <= k /\ k <= n /\ k + 1 \in 1 .. n /\ (k + 1) - 1 = k /\ k \in 0 .. n
        BY <1>0, <2>2
      <3>2. f[k].c[s] = f[i].c[s]
        BY <3>1
      <3>3. f[k + 1] = sym_calc_value(f[k], Menu[k + 1], d, p) /\ f[k] \in Acc
        BY <3>1 DEF Steps
      <3>4. Menu[k + 1].sym # s
        BY <1>0, <2>2, <3>1, MenuAssumption, MenuFacts
      <3> HIDE DEF s
      <3>5. f[k + 1].c[s] = f[k].c[s]
        BY <1>0, <3>1, <3>3, <3>4, StepType, MenuStep
      <3>6. QED
        BY <3>2, <3>5
    <2>3. QED
      BY <2>1, <2>2
  <1>3. A = Nat
    <2> HIDE DEF A
    <2> QED BY <1>1, <1>2, NatSetInduction
  <1>4. QED
    BY <1>0, <1>3

(* When a value of a choice is calculated, what was calculated before the  *)
(* choice, and the choice, are as they were then.                          *)
LEMMA KeptUpTo ==
  ASSUME NEW d \in Valuation, NEW p, NEW u, NEW f, Steps(f, d, p, u),
         NEW i \in DOMAIN Menu, NEW m \in i .. Len(Menu), NEW k \in 1 .. i
  PROVE  f[m].c[Menu[k].sym] = f[i].c[Menu[k].sym]
  <1>1. k \in DOMAIN Menu /\ m \in k .. Len(Menu) /\ i \in k .. Len(Menu)
    BY MenuFacts
  <1>2. f[m].c[Menu[k].sym] = f[k].c[Menu[k].sym]
    BY <1>1, StateKept
  <1>3. f[i].c[Menu[k].sym] = f[k].c[Menu[k].sym]
    BY <1>1, StateKept
  <1>4. QED
    BY <1>2, <1>3

(* The prompt of a value of the choice at i depends on the symbols up to i *)
LEMMA PromptKept ==
  ASSUME NEW i \in DOMAIN Menu, NEW j \in DOMAIN Menu, Menu[j].of = Menu[i].sym,
         NEW b \in States, NEW c \in States,
         \A k \in 1 .. i : b[Menu[k].sym].tri = c[Menu[k].sym].tri
  PROVE  Ev(Menu[j].prompt, b) = Ev(Menu[j].prompt, c)
  <1> DEFINE v == [s \in Syms |-> b[s].tri]
             w == [s \in Syms |-> c[s].tri]
  <1>1. v \in Valuation /\ w \in Valuation
    BY DEF States, SymState, Valuation
  <1>2. \A k \in 1 .. i : v[Menu[k].sym] = w[Menu[k].sym]
    <2> SUFFICES ASSUME NEW k \in 1 .. i PROVE v[Menu[k].sym] = w[Menu[k].sym]
      OBVIOUS
    <2>1. Menu[k].sym \in Syms
      BY MenuFacts
    <2>2. QED
      BY <2>1
  <1> HIDE DEF v, w
  <1>3. EvalExpr(Menu[j].prompt, v) = EvalExpr(Menu[j].prompt, w)
    BY <1>1, <1>2, ChoiceAssumption
  <1>4. QED
    BY <1>3 DEF Ev, v, w

LEMMA PromptBelowNo ==
  ASSUME NEW i \in DOMAIN Menu, NEW j \in DOMAIN Menu, Menu[j].of = Menu[i].sym,
         NEW c \in States, c[Menu[i].sym].tri = no
  PROVE  Ev(Menu[j].prompt, c) = no
  <1> DEFINE v == [s \in Syms |-> c[s].tri]
  <1>1. v \in Valuation
    BY DEF States, SymState, Valuation
  <1>2. v[Menu[i].sym] = no
    BY MenuFacts
  <1> HIDE DEF v
  <1>3. EvalExpr(Menu[j].prompt, v) = no
    BY <1>1, <1>2, ChoiceAssumption
  <1>4. QED
    BY <1>3 DEF Ev, v

(* ChoiceExclusive of the values c *)
Exclusive(c) ==
  \A ch \in ChoiceSyms :
    LET set == {s \in Syms : Entry[s].of = ch /\ c[s].tri = yes} IN
    /\ c[ch].tri = yes => Cardinality(set) = 1
    /\ c[ch].tri = no => set = {}

(* The value at j of a choice at i, when all is calculated. *)
LEMMA ValueAt ==
  ASSUME NEW d \in Valuation, NEW p, NEW u, NEW f, Steps(f, d, p, u),
         NEW i \in DOMAIN Menu, NEW j \in DOMAIN Menu, Menu[j].of = Menu[i].sym,
         sym_calc_visibility(Menu[j], f[j - 1].c).visible \in {no, yes}
  PROVE  f[Len(Menu)].c[Menu[j].sym].tri =
           IF sym_calc_visibility(Menu[j], f[j - 1].c).visible = yes /\ f[i].c[Menu[i].sym].val = Menu[j].sym
           THEN yes ELSE no
  <1> DEFINE n == Len(Menu)
             e == Menu[j]
             a == f[j - 1]
  <1>0. /\ n \in Nat /\ i \in 1 .. n /\ j \in 1 .. n
        /\ e \in Entries /\ e.sym \in Syms /\ Entry[e.sym] = e /\ Menu[i].sym \in Syms
    BY MenuFacts
  <1>1. i < j /\ ~e.choice /\ e.defs = <<>>
    BY ChoiceAssumption
  <1>2. j - 1 \in i .. n /\ j - 1 \in 0 .. n /\ i \in 1 .. i /\ n \in j .. n
    BY <1>0, <1>1
  <1>3. a \in Acc /\ f[j] = sym_calc_value(a, e, d, p)
    BY <1>0, <1>2 DEF Steps
  <1>4. e.of = Menu[i].sym /\ e.of \in Syms /\ e.of # NULL /\ e.of # e.sym
    BY <1>0, <1>1, MenuAssumption
  <1>5. f[n].c[e.sym] = f[j].c[e.sym]
    BY <1>0, <1>2, StateKept
  <1>6. a.c[e.of] = f[i].c[Menu[i].sym]
    BY <1>2, <1>4, KeptUpTo
  <1> HIDE DEF e, a, n
  <1>7. sym_calc_visibility(e, a.c).visible \in {no, yes}
    BY DEF e, a
  <1>8. f[j].c[e.sym].tri = IF sym_calc_visibility(e, a.c).visible = yes /\ a.c[e.of].val = e.sym THEN yes ELSE no
    BY <1>0, <1>1, <1>3, <1>4, <1>7, ValueStep
  <1>9. QED
    BY <1>5, <1>6, <1>8 DEF e, a, n

(* The value of a choice in mode y is y, and its other values are n: what  *)
(* was shown when the choice was calculated is shown when its values are.  *)
LEMMA ValuesOfYes ==
  ASSUME NEW d \in Valuation, NEW p, NEW u, NEW f, Steps(f, d, p, u),
         NEW i \in DOMAIN Menu, Menu[i].choice, f[i].c[Menu[i].sym].tri = yes
  PROVE  \E y \in Syms :
           {s \in Syms : Entry[s].of = Menu[i].sym /\ f[Len(Menu)].c[s].tri = yes} = {y}
  <1> DEFINE n == Len(Menu)
             e == Menu[i]
             a == f[i - 1]
             y == f[i].c[e.sym].val
  <1>0. /\ n \in Nat /\ i \in 1 .. n /\ i - 1 \in 0 .. n
        /\ e \in Entries /\ e.sym \in Syms /\ Entry[e.sym] = e
    BY MenuFacts
  <1>1. a \in Acc /\ f[i] = sym_calc_value(a, e, d, p) /\ f[i] \in Acc
    BY <1>0 DEF Steps
  <1>2. PICK c \in States :
          /\ c[e.sym].tri = yes
          /\ \A x \in Syms : x # e.sym => c[x] = a.c[x]
          /\ y \in VisibleIn(e.sym, c)
    <2> HIDE DEF e, a
    <2>1. e.choice /\ sym_calc_value(a, e, d, p).c[e.sym].tri = yes
      BY <1>1 DEF e
    <2>2. QED
      BY <1>0, <1>1, <2>1, ChoiceStep
  <1>3. \A x \in Syms : x # e.sym => f[i].c[x] = a.c[x]
    <2> HIDE DEF e, a
    <2> QED BY <1>0, <1>1, StepType
  <1>4. \A k \in 1 .. i : c[Menu[k].sym].tri = f[i].c[Menu[k].sym].tri
    <2> SUFFICES ASSUME NEW k \in 1 .. i PROVE c[Menu[k].sym].tri = f[i].c[Menu[k].sym].tri
      OBVIOUS
    <2>1. Menu[k].sym \in Syms
      BY <1>0, MenuFacts
    <2>2. QED
      BY <1>2, <1>3, <2>1
  <1>5. ASSUME NEW j \in DOMAIN Menu, Menu[j].of = e.sym
        PROVE  /\ sym_calc_visibility(Menu[j], f[j - 1].c).visible = sym_calc_visibility(Menu[j], c).visible
               /\ sym_calc_visibility(Menu[j], c).visible \in {no, yes}
               /\ Menu[j].sym \in VisibleIn(e.sym, c) <=> sym_calc_visibility(Menu[j], c).visible = yes
    <2> DEFINE b == f[j - 1].c
    <2>1. i < j /\ j \in 1 .. n /\ j - 1 \in i .. n /\ j - 1 \in 0 .. n
      <3>1. i < j
        BY <1>5, ChoiceAssumption
      <3>2. j \in 1 .. n
        BY MenuFacts
      <3>3. QED
        BY <1>0, <3>1, <3>2
    <2>2. b \in States
      BY <2>1 DEF Steps, Acc
    <2>3. \A k \in 1 .. i : b[Menu[k].sym].tri = c[Menu[k].sym].tri
      BY <1>4, <2>1, KeptUpTo
    <2> HIDE DEF b
    <2>4. Ev(Menu[j].prompt, b) = Ev(Menu[j].prompt, c)
      BY <1>5, <2>2, <2>3, PromptKept
    <2>5. b[e.sym].tri = yes /\ c[e.sym].tri = yes
      BY <1>0, <1>2, <2>3
    <2>6. Menu[j] \in Entries /\ Menu[j].sym \in Syms /\ Entry[Menu[j].sym] = Menu[j]
      BY MenuFacts
    <2>7. e.sym # NULL
      BY <1>0, MenuAssumption
    <2>8. /\ sym_calc_visibility(Menu[j], b).visible = ShownInYes(Menu[j], Ev(Menu[j].prompt, b))
          /\ sym_calc_visibility(Menu[j], c).visible = ShownInYes(Menu[j], Ev(Menu[j].prompt, c))
          /\ ShownInYes(Menu[j], Ev(Menu[j].prompt, c)) \in {no, yes}
      BY <1>5, <2>2, <2>5, <2>6, <2>7, VisibleInYes
    <2>9. Menu[j].sym \in VisibleIn(e.sym, c) <=> sym_calc_visibility(Menu[j], c).visible = yes
      BY <1>5, <2>6, <2>8 DEF VisibleIn, no, yes
    <2>10. QED
      BY <2>4, <2>8, <2>9 DEF b
  <1> HIDE DEF y
  <1>6. ASSUME NEW j \in DOMAIN Menu, Menu[j].of = e.sym
        PROVE  f[n].c[Menu[j].sym].tri = yes <=> y = Menu[j].sym
    <2>1. /\ sym_calc_visibility(Menu[j], f[j - 1].c).visible = sym_calc_visibility(Menu[j], c).visible
          /\ sym_calc_visibility(Menu[j], c).visible \in {no, yes}
          /\ Menu[j].sym \in VisibleIn(e.sym, c) <=> sym_calc_visibility(Menu[j], c).visible = yes
      BY <1>5, <1>6
    <2>2. f[n].c[Menu[j].sym].tri =
            IF sym_calc_visibility(Menu[j], f[j - 1].c).visible = yes /\ y = Menu[j].sym
            THEN yes ELSE no
      BY <1>6, <2>1, ValueAt DEF y
    <2>3. QED
      BY <1>2, <2>1, <2>2 DEF no, yes
  <1>7. y \in Syms /\ Entry[y].of = e.sym
    BY <1>2 DEF VisibleIn
  <1>8. \A s \in Syms : Entry[s].of = e.sym => (f[n].c[s].tri = yes <=> s = y)
    <2> SUFFICES ASSUME NEW s \in Syms, Entry[s].of = e.sym PROVE f[n].c[s].tri = yes <=> s = y
      OBVIOUS
    <2>1. PICK j \in DOMAIN Menu : Menu[j].sym = s /\ Entry[s] = Menu[j]
      BY MenuFacts
    <2>2. f[n].c[Menu[j].sym].tri = yes <=> y = Menu[j].sym
      BY <1>6, <2>1
    <2>3. QED
      BY <2>1, <2>2
  <1>9. QED
    BY <1>7, <1>8

(* The values of a choice that is n are n. *)
LEMMA ValuesOfNo ==
  ASSUME NEW d \in Valuation, NEW p, NEW u, NEW f, Steps(f, d, p, u),
         NEW i \in DOMAIN Menu, f[i].c[Menu[i].sym].tri = no,
         NEW j \in DOMAIN Menu, Menu[j].of = Menu[i].sym
  PROVE  f[Len(Menu)].c[Menu[j].sym].tri = no
  <1> DEFINE n == Len(Menu)
             b == f[j - 1].c
  <1>1. i < j /\ n \in Nat /\ j \in 1 .. n /\ i \in 1 .. n
    BY ChoiceAssumption, MenuFacts
  <1>2. j - 1 \in i .. n /\ j - 1 \in 0 .. n /\ i \in 1 .. i
    BY <1>1
  <1>3. b \in States
    BY <1>2 DEF Steps, Acc
  <1>4. b[Menu[i].sym].tri = no
    BY <1>2, KeptUpTo
  <1> HIDE DEF b
  <1>5. Ev(Menu[j].prompt, b) = no
    BY <1>3, <1>4, PromptBelowNo
  <1>6. Menu[j] \in Entries /\ Menu[j].sym \in Syms
    BY MenuFacts
  <1>7. sym_calc_visibility(Menu[j], b).visible = no
    BY <1>3, <1>5, <1>6, HiddenPrompt
  <1>8. sym_calc_visibility(Menu[j], f[j - 1].c).visible = no
    BY <1>7 DEF b
  <1>9. QED
    BY <1>8, ValueAt DEF no, yes

(* A calculation leaves every choice with one value or none. *)
LEMMA CalcExclusive ==
  ASSUME NEW d \in Valuation, NEW p, NEW u \in SUBSET Syms
  PROVE  Calc(d, p, u) \in Acc /\ Exclusive(Calc(d, p, u).c)
  <1>1. PICK f : Steps(f, d, p, u) /\ Calc(d, p, u) = f[Len(Menu)]
    BY CalcSteps
  <1>2. f[Len(Menu)] \in Acc
    BY <1>1, MenuFacts DEF Steps
  <1> DEFINE C == f[Len(Menu)].c
             set(s) == {x \in Syms : Entry[x].of = s /\ C[x].tri = yes}
  <1>3. ASSUME NEW s \in ChoiceSyms
        PROVE  (C[s].tri = yes => Cardinality(set(s)) = 1) /\ (C[s].tri = no => set(s) = {})
    <2>1. PICK i \in DOMAIN Menu : Menu[i].sym = s /\ Entry[s] = Menu[i]
      BY MenuFacts DEF ChoiceSyms
    <2>2. C[s] = f[i].c[s]
      <3>1. Len(Menu) \in i .. Len(Menu)
        BY MenuFacts
      <3>2. QED
        BY <1>1, <2>1, <3>1, StateKept
    <2>3. ASSUME C[s].tri = yes PROVE Cardinality(set(s)) = 1
      <3>1. Menu[i].choice
        BY <2>1 DEF ChoiceSyms
      <3>2. PICK y \in Syms : set(s) = {y}
        BY <1>1, <2>1, <2>2, <2>3, <3>1, ValuesOfYes
      <3>3. QED
        BY <3>2, FS_Singleton
    <2>4. ASSUME C[s].tri = no, NEW x \in set(s) PROVE FALSE
      <3>1. x \in Syms /\ Entry[x].of = s /\ C[x].tri = yes
        OBVIOUS
      <3>2. PICK j \in DOMAIN Menu : Menu[j].sym = x /\ Entry[x] = Menu[j]
        BY <3>1, MenuFacts
      <3>3. Menu[j].of = Menu[i].sym
        BY <2>1, <3>1, <3>2
      <3>4. f[i].c[Menu[i].sym].tri = no
        BY <2>1, <2>2, <2>4
      <3>5. C[Menu[j].sym].tri = no
        BY <1>1, <3>3, <3>4, ValuesOfNo
      <3>6. QED
        BY <3>1, <3>2, <3>5 DEF no, yes
    <2>5. QED
      BY <2>3, <2>4
  <1>4. Exclusive(C)
    BY <1>3 DEF Exclusive
  <1>5. QED
    BY <1>1, <1>2, <1>4

-----------------------------------------------------------------------------
(* The actions *)

(* What a file gives: tristates for symbols. *)
Files == UNION {[F -> Tristate] : F \in SUBSET Syms}

(* What conf_read_simple works on *)
UserState == [d : Valuation, p : Picks, u : SUBSET Syms, w : BOOLEAN]

LEMMA ReadLineType ==
  ASSUME NEW file \in Files, NEW r \in UserState, NEW e \in Entries, e.sym \in Syms
  PROVE  ReadLine(file, r, e) \in UserState
  <1>1. CASE e.sym \notin DOMAIN file
    BY <1>1 DEF ReadLine
  <1>2. CASE e.sym \in DOMAIN file
    <2> DEFINE v == file[e.sym]
               c == e.of
               d1 == [r.d EXCEPT ![e.sym] = v]
               u1 == r.u \union {e.sym}
    <2>1. v \in Tristate
      BY <1>2 DEF Files
    <2>2. r.d \in Valuation /\ r.p \in Picks /\ r.u \subseteq Syms /\ r.w \in BOOLEAN
      BY DEF UserState
    <2>3. d1 \in Valuation /\ u1 \subseteq Syms
      BY <2>1, <2>2 DEF Valuation
    <2>4. CASE c = NULL
      <3>1. ReadLine(file, r, e) = [d |-> d1, p |-> r.p, u |-> u1, w |-> r.w]
        BY <1>2, <2>4 DEF ReadLine
      <3> HIDE DEF d1, u1
      <3>2. QED
        BY <2>2, <2>3, <3>1 DEF UserState
    <2>5. CASE c # NULL
      <3> DEFINE d2 == [d1 EXCEPT ![c] = Greatest(@, v)]
                 p2 == [r.p EXCEPT ![c] = IF v = yes THEN e.sym ELSE @]
                 u2 == IF v = mod /\ r.d[c] = yes THEN u1 \ {c} ELSE u1
                 w2 == r.w \/ (v = mod /\ r.d[c] = yes) \/ (v = yes /\ r.d[c] # no)
      <3>1. ReadLine(file, r, e) = [d |-> d2, p |-> p2, u |-> u2, w |-> w2]
        BY <1>2, <2>5 DEF ReadLine
      <3>2. c \in ChoiceSyms /\ c \in Syms
        BY <2>5, MenuAssumption DEF ChoiceSyms
      <3> HIDE DEF d1, u1, v
      <3>3. d2 \in Valuation
        <4>1. d1[c] \in Tristate /\ Greatest(d1[c], v) \in Tristate
          BY <2>1, <2>3, <3>2, TristateFacts DEF Valuation
        <4>2. QED
          BY <2>3, <4>1 DEF Valuation
      <3>4. p2 \in Picks /\ u2 \subseteq Syms
        BY <2>2, <2>3, <3>2 DEF Picks
      <3>5. w2 \in BOOLEAN
        OBVIOUS
      <3> HIDE DEF d2, p2, u2, w2
      <3>6. QED
        BY <3>1, <3>3, <3>4, <3>5 DEF UserState
    <2>6. QED
      BY <2>4, <2>5
  <1>3. QED
    BY <1>1, <1>2

LEMMA ReadType ==
  ASSUME NEW file \in Files
  PROVE  conf_read_simple(file) \in UserState
  <1> DEFINE n == Len(Menu)
             base == [d |-> [s \in Syms |-> no], p |-> [s \in ChoiceSyms |-> NULL], u |-> ChoiceSyms,
                      w |-> FALSE]
             step == [x \in (1 .. n) \X UserState |-> ReadLine(file, x[2], Menu[x[1]])]
             IsRec(g) == g = [i \in 0 .. n |-> IF i = 0 THEN base ELSE ReadLine(file, g[i - 1], Menu[i])]
             upto == CHOOSE g : IsRec(g)
  <1>0. n \in Nat
    BY MenuFacts
  <1>1. conf_read_simple(file) = upto[n]
    BY DEF conf_read_simple, OverMenu
  <1>2. step \in [(1 .. n) \X UserState -> UserState]
    <2> SUFFICES ASSUME NEW k \in 1 .. n, NEW a \in UserState
                 PROVE  ReadLine(file, a, Menu[k]) \in UserState
      OBVIOUS
    <2> QED BY MenuStep, ReadLineType
  <1>3. base \in UserState
    BY DEF UserState, Valuation, Picks, ChoiceSyms, Tristate
  <1>4. \A k \in 1 .. n : \A a \in UserState : step[<<k, a>>] = ReadLine(file, a, Menu[k])
    OBVIOUS
  <1> HIDE DEF step, base, n
  <1>5. PICK g : IterateUpTo(g, n, UserState, base, step)
    BY <1>0, <1>2, <1>3, IteratesUpTo
  <1>6. g \in [0 .. n -> UserState] /\ g = [i \in 0 .. n |-> IF i = 0 THEN base ELSE step[<<i, g[i - 1]>>]]
    BY <1>5 DEF IterateUpTo
  <1>7. IsRec(g)
    <2>1. ASSUME NEW i \in 0 .. n
          PROVE  g[i] = IF i = 0 THEN base ELSE ReadLine(file, g[i - 1], Menu[i])
      <3>1. CASE i = 0
        BY <1>0, <1>6, <3>1
      <3>2. CASE i # 0
        <4>1. i \in 1 .. n /\ i - 1 \in 0 .. n
          BY <1>0, <3>2
        <4>2. g[i - 1] \in UserState /\ g[i] = step[<<i, g[i - 1]>>]
          BY <1>6, <3>2, <4>1
        <4>3. QED
          BY <1>4, <3>2, <4>1, <4>2
      <3>3. QED
        BY <3>1, <3>2
    <2>2. QED
      BY <1>6, <2>1
  <1>8. IsRec(upto)
    <2> HIDE DEF IsRec
    <2> QED BY <1>7
  <1> HIDE DEF upto
  <1>9. upto = [i \in 0 .. n |-> IF i = 0 THEN base ELSE ReadLine(file, upto[i - 1], Menu[i])]
    BY <1>8
  <1> DEFINE A == {k \in Nat : k <= n => upto[k] \in UserState}
  <1>10. A \in SUBSET Nat /\ 0 \in A
    BY <1>0, <1>3, <1>9
  <1>11. \A k \in A : k + 1 \in A
    <2> SUFFICES ASSUME NEW k \in A, k + 1 <= n PROVE upto[k + 1] \in UserState
      OBVIOUS
    <2>1. k \in Nat /\ upto[k] \in UserState /\ k + 1 \in 1 .. n /\ k + 1 \in 0 .. n /\ (k + 1) - 1 = k /\ k + 1 # 0
      BY <1>0
    <2>2. upto[k + 1] = ReadLine(file, upto[k], Menu[k + 1])
      BY <1>9, <2>1
    <2>3. QED
      BY <2>1, <2>2, MenuStep, ReadLineType DEF n
  <1>12. A = Nat
    <2> HIDE DEF A
    <2> QED BY <1>10, <1>11, NatSetInduction
  <1>13. QED
    BY <1>0, <1>1, <1>12

(* The types of the user state and of the calculated states. *)
SymTypeOK ==
  /\ def \in Valuation /\ pick \in Picks
  /\ user \subseteq Syms /\ cur \in States
  /\ changed \in BOOLEAN

(* A recalculation ends in typed, exclusive values. *)
LEMMA RecalculateSafe ==
  ASSUME NEW d \in Valuation, NEW p \in Picks, NEW u \in SUBSET Syms, Recalculate(d, p, u)
  PROVE  SymTypeOK' /\ Exclusive(cur')
  <1>1. /\ def' = d /\ pick' = p /\ user' = Calc(d, p, u).u /\ cur' = Calc(d, p, u).c
        /\ changed' = TRUE
    BY DEF Recalculate
  <1>2. Calc(d, p, u) \in Acc /\ Exclusive(Calc(d, p, u).c)
    BY CalcExclusive
  <1>3. Calc(d, p, u).u \subseteq Syms /\ Calc(d, p, u).c \in States
    BY <1>2 DEF Acc
  <1>4. QED
    BY <1>1, <1>2, <1>3 DEF SymTypeOK

LEMMA SetSafe ==
  ASSUME SymTypeOK, Exclusive(cur), NEW s \in Syms, NEW v \in Tristate, sym_set_tristate_value(s, v)
  PROVE  SymTypeOK' /\ Exclusive(cur')
  <1> DEFINE c == Entry[s].of
             chosen == c # NULL /\ v = yes
             d == [def EXCEPT ![s] = v]
             p == IF chosen THEN [pick EXCEPT ![c] = s] ELSE pick
             u == user \union {s} \union
                    (IF chosen THEN {c} \union {x \in Syms : Entry[x].of = c /\ cur[x].visible # no}
                     ELSE {})
  <1>1. SetUser(s, v, d, p, u)
    BY DEF sym_set_tristate_value
  <1>2. c \in ChoiceSyms \union {NULL}
    BY EntryFacts, MenuAssumption
  <1>3. d \in Valuation
    BY DEF SymTypeOK, Valuation
  <1>4. p \in Picks
    BY <1>2 DEF SymTypeOK, Picks
  <1>5. u \in SUBSET Syms
    BY <1>2 DEF SymTypeOK, ChoiceSyms
  <1> HIDE DEF d, p, u
  <1>6. CASE cur[s].tri = v
    <2>1. def' = d /\ pick' = p /\ user' = u /\ cur' = cur /\ changed' = changed
      BY <1>1, <1>6 DEF SetUser
    <2>2. QED
      BY <1>3, <1>4, <1>5, <2>1 DEF SymTypeOK
  <1>7. CASE cur[s].tri # v
    <2>1. Recalculate(d, p, u)
      BY <1>1, <1>7 DEF SetUser
    <2>2. QED
      BY <1>3, <1>4, <1>5, <2>1, RecalculateSafe
  <1>8. QED
    BY <1>6, <1>7

LEMMA ToggleSafe ==
  ASSUME SymTypeOK, Exclusive(cur), NEW s \in Syms, sym_toggle_tristate_value(s)
  PROVE  SymTypeOK' /\ Exclusive(cur')
  <1>1. cur[s].tri \in Tristate
    BY DEF SymTypeOK, States, SymState
  <1>2. \A v \in Tristate : Cycle(v) \in Tristate
    BY DEF Cycle, Tristate, no, mod, yes
  <1>3. NextSettable(s, cur[s].tri) \in Tristate
    BY <1>1, <1>2 DEF NextSettable
  <1>4. QED
    BY <1>3, SetSafe DEF sym_toggle_tristate_value

LEMMA ReadFileSafe ==
  ASSUME SymTypeOK, NEW file \in Files, NEW dirty \in BOOLEAN, ReadFile(file, dirty)
  PROVE  SymTypeOK' /\ Exclusive(cur')
  <1> DEFINE r == conf_read_simple(file)
             a == CalcFrom(r)
             clean == Saved(a.c, [r EXCEPT !.u = a.u])
  <1>1. /\ def' = r.d /\ pick' = r.p /\ cur' = a.c
        /\ user' = IF ~clean THEN a.u
                   ELSE {s \in a.u : Entry[s].of # NULL \/ a.c[s].visible # no}
        /\ changed' = (dirty \/ r.w \/ ~clean)
    BY DEF ReadFile
  <1> HIDE DEF clean
  <1>2. r \in UserState
    BY ReadType
  <1> HIDE DEF r
  <1>3. r.d \in Valuation /\ r.p \in Picks /\ r.u \in SUBSET Syms
    BY <1>2 DEF UserState
  <1>4. a \in Acc /\ Exclusive(a.c)
    BY <1>3, CalcExclusive DEF CalcFrom
  <1> HIDE DEF a
  <1>5. a.u \subseteq Syms /\ a.c \in States
    BY <1>4 DEF Acc
  <1>6. user' \subseteq a.u
    BY <1>1
  <1>7. changed' \in BOOLEAN
    BY <1>1
  <1>8. QED
    BY <1>1, <1>3, <1>4, <1>5, <1>6, <1>7 DEF SymTypeOK

LEMMA ReadSafe ==
  ASSUME SymTypeOK, NEW file \in Files, Read(file)
  PROVE  SymTypeOK' /\ Exclusive(cur')
  BY ReadFileSafe DEF Read, conf_read, conf_load

(* The values that are written, cached or calculated again. *)
LEMMA WrittenValues ==
  ASSUME SymTypeOK, Exclusive(cur)
  PROVE  /\ ToWrite \in Acc /\ Exclusive(ToWrite.c)
         /\ ToWriteMinimal \in Acc
  <1>1. Calc(def, pick, user) \in Acc /\ Exclusive(Calc(def, pick, user).c)
    BY CalcExclusive DEF SymTypeOK
  <1>2. [c |-> cur, u |-> user] \in Acc /\ [c |-> cur, u |-> user].c = cur
    BY DEF Acc, SymTypeOK
  <1>3. CASE changed
    BY <1>1, <1>2, <1>3 DEF ToWrite, ToWriteMinimal
  <1>4. CASE ~changed
    BY <1>1, <1>4 DEF ToWrite, ToWriteMinimal
  <1>5. QED
    BY <1>3, <1>4

LEMMA SaveSafe ==
  ASSUME SymTypeOK, Exclusive(cur), conf_write
  PROVE  SymTypeOK' /\ Exclusive(cur')
  <1>1. user' = ToWrite.u /\ cur' = ToWrite.c /\ changed' = FALSE /\ def' = def /\ pick' = pick
    BY DEF conf_write
  <1>2. ToWrite.u \subseteq Syms /\ ToWrite.c \in States /\ Exclusive(ToWrite.c)
    BY WrittenValues DEF Acc
  <1>3. QED
    BY <1>1, <1>2 DEF SymTypeOK

LEMMA WrittenFiles ==
  ASSUME NEW c \in States
  PROVE  ConfigFile(c) \in Files /\ MinimalFile(c) \in Files
  <1>1. \A s \in Syms : c[s].tri \in Tristate
    BY DEF States, SymState
  <1>2. \A F \in SUBSET Syms : [s \in F |-> c[s].tri] \in Files
    BY <1>1 DEF Files
  <1>3. ConfigFile(c) \in Files
    <2> DEFINE F == {s \in Syms : ~Entry[s].choice /\ c[s].write}
    <2>1. F \in SUBSET Syms /\ ConfigFile(c) = [s \in F |-> c[s].tri]
      BY DEF ConfigFile
    <2> HIDE DEF F
    <2>2. QED
      BY <1>2, <2>1
  <1>4. MinimalFile(c) \in Files
    <2> DEFINE skip(e) ==
                 \/ ~c[e.sym].write
                 \/ c[e.sym].visible <= c[e.sym].rev
                 \/ c[e.sym].tri = sym_get_string_default(e, c)
                 \/ /\ e.of # NULL /\ e.type = "bool" /\ c[e.sym].tri = yes
                    /\ ~Entry[e.of].optional /\ sym_choice_default(e.of, c) = e.sym
               F == {x \in Syms : ~Entry[x].choice /\ ~skip(Entry[x])}
    <2>1. F \in SUBSET Syms
      OBVIOUS
    <2>2. MinimalFile(c) = [s \in F |-> c[s].tri]
      BY DEF MinimalFile
    <2> HIDE DEF F
    <2>3. QED
      BY <1>2, <2>1, <2>2
  <1>5. QED
    BY <1>3, <1>4

LEMMA ReopenSafe ==
  ASSUME SymTypeOK, Exclusive(cur), Reopen
  PROVE  SymTypeOK' /\ Exclusive(cur')
  <1>1. ToWrite.c \in States /\ ToWriteMinimal.c \in States
    BY WrittenValues DEF Acc
  <1>2. PICK c \in States : Read(ConfigFile(c)) \/ Read(MinimalFile(c))
    BY <1>1 DEF Reopen
  <1>3. QED
    BY <1>2, WrittenFiles, ReadSafe

(* For every menu that satisfies the assumptions, and after any number of  *)
(* edits, toggles, rewrites, bulk settings, saves and readings of its      *)
(* files: a choice that is y has exactly one value y, and one that is n    *)
(* has none (sym_calc_value and sym_calc_choice, symbol.c:230-430).        *)
THEOREM ChoicesStayExclusive == SymSpec => [](SymTypeOK /\ ChoiceExclusive)
  <1>0. ChoiceExclusive <=> Exclusive(cur)
    BY DEF ChoiceExclusive, Exclusive
  <1>1. SymInit => SymTypeOK /\ ChoiceExclusive
    <2> SUFFICES ASSUME SymInit PROVE SymTypeOK /\ Exclusive(cur)
      BY <1>0
    <2>1. def \in Valuation /\ pick \in Picks
      BY DEF SymInit, Valuation, Picks, Tristate
    <2>2. user = Calc(def, pick, {}).u /\ cur = Calc(def, pick, {}).c
      BY DEF SymInit
    <2>3. Calc(def, pick, {}) \in Acc /\ Exclusive(Calc(def, pick, {}).c)
      BY <2>1, CalcExclusive
    <2>4. changed \in BOOLEAN
      BY DEF SymInit
    <2>5. QED
      BY <2>1, <2>2, <2>3, <2>4 DEF SymTypeOK, Acc
  <1>2. SymTypeOK /\ ChoiceExclusive /\ [SymNext]_symVars => SymTypeOK' /\ ChoiceExclusive'
    <2> SUFFICES ASSUME SymTypeOK, Exclusive(cur), [SymNext]_symVars
                 PROVE  SymTypeOK' /\ Exclusive(cur')
      BY <1>0 DEF ChoiceExclusive, Exclusive
    <2>1. CASE Edit
      BY <2>1, SetSafe, ToggleSafe DEF Edit, Tristate
    <2>2. CASE Reopen
      BY <2>2, ReopenSafe
    <2>3. CASE AllNew
      <3>1. PICK v \in Tristate : conf_set_all_new_symbols(v)
        BY <2>3 DEF AllNew, Tristate
      <3>2. [s \in Syms |-> v] \in Valuation /\ [s \in ChoiceSyms |-> NULL] \in Picks /\ Syms \in SUBSET Syms
        BY DEF Valuation, Picks
      <3>3. QED
        BY <3>1, <3>2, RecalculateSafe DEF conf_set_all_new_symbols
    <2>4. CASE Rewrite
      <3>1. PICK old \in Tristate, new \in Tristate : conf_rewrite_mod_or_yes(old, new)
        BY <2>4 DEF Rewrite, Tristate
      <3> DEFINE d == [s \in Syms |-> IF sym_get_type(Entry[s], cur[s].visible, cur) = "tri" /\ def[s] = old
                                      THEN new ELSE def[s]]
      <3>2. d \in Valuation
        BY DEF SymTypeOK, Valuation
      <3>3. Recalculate(d, pick, user)
        BY <3>1 DEF conf_rewrite_mod_or_yes
      <3> HIDE DEF d
      <3>4. QED
        BY <3>2, <3>3, RecalculateSafe DEF SymTypeOK
    <2>5. CASE conf_write
      BY <2>5, SaveSafe
    <2>6. CASE UNCHANGED symVars
      BY <2>6 DEF symVars, SymTypeOK
    <2>7. QED
      BY <2>1, <2>2, <2>3, <2>4, <2>5, <2>6 DEF SymNext
  <1>3. QED
    BY <1>1, <1>2, PTL DEF SymSpec
=============================================================================
