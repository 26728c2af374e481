---------------------------- MODULE PartsProofs -----------------------------
(***************************************************************************)
(* What the smaller parts promise, for every number of CPUs and threads,   *)
(* every size of memory and every length of a run: the page tables of the  *)
(* x86 machine, its contexts and its clock, the instruction trace, the     *)
(* snapshot file and the guest memory.                                     *)
(***************************************************************************)
EXTENDS MCParts, FiniteSetTheorems, SequenceTheorems, TLAPS

-----------------------------------------------------------------------------
(* Page tables *)

(* What the entries of a user's table hold: nothing, or a user page. *)
UserEntries ==
  {e \in Entries : e = Zero \/ \E f \in Frames, w \in BOOLEAN : e = Entry(f, w, TRUE)}

(* The kernel's directory and its tables, which never change again. *)
KernelOK ==
  /\ kpt \in Pool
  /\ \A i \in KernelPd : \E t \in Pool \ {kpt} :
       /\ pt[kpt][i] = Entry(t, TRUE, FALSE)
       /\ pt[t] = [j \in Index |-> Entry(Identity, TRUE, FALSE)]

(* The directory of a live space: the kernel's entries, and a table of its *)
(* own behind each other entry that is present.                            *)
SpaceOK(as) ==
  /\ Directory(as) \in Pool
  /\ \A i \in KernelPd : pt[Directory(as)][i] = pt[kpt][i]
  /\ \A i \in Index \ KernelPd :
       \/ pt[Directory(as)][i] = Zero
       \/ \E t \in Pool \ {Directory(as)} :
            pt[Directory(as)][i] = Entry(t, TRUE, TRUE) /\ pt[t] \in [Index -> UserEntries]
  /\ \A i, j \in Index \ KernelPd :
       /\ pt[Directory(as)][i].P /\ pt[Directory(as)][j].P
       /\ pt[Directory(as)][i].base = pt[Directory(as)][j].base
       => i = j

(* TablesOwned, page by page. *)
PagesOwned ==
  /\ \A q \in Pool :
       q \in used <=> q \in KernelTables \/ \E as \in live : q \in TablesOf(as)
  /\ \A as \in live, q \in Pool :
       q \in TablesOf(as) =>
         q \notin KernelTables /\ \A bs \in live \ {as} : q \notin TablesOf(bs)

VmeInv ==
  /\ X86VmeTypeOK
  /\ kpt = NoPage => used = {} /\ live = {}
  /\ kpt # NoPage => KernelOK /\ PagesOwned /\ \A as \in live : SpaceOK(as)

(* An entry of a directory is present, and determines the table behind it. *)
LEMMA EntryFacts ==
  ASSUME NEW e, NEW b, NEW w, NEW u, e = Entry(b, w, u)
  PROVE  e.P = TRUE /\ e.base = b /\ e.W = w /\ e.U = u /\ e # Zero
  BY DEF Entry, Zero

(* A cleared entry is not present. *)
LEMMA ZeroAbsent == Zero.P = FALSE
  BY DEF Zero

(* The pages are numbers, and a page is not the absence of one. *)
LEMMA PoolFacts ==
  /\ NoPage \notin Pool /\ KernelPd \subseteq Index /\ Vas \subseteq Index \X Index
  /\ Zero \in Entries
  /\ \A f \in Pool \cup Frames \cup {Identity}, w, u \in BOOLEAN : Entry(f, w, u) \in Entries
  /\ UserEntries \subseteq Entries /\ Zero \in UserEntries
  /\ \A f \in Frames, w \in BOOLEAN : Entry(f, w, TRUE) \in UserEntries
  <1>1. NoPage \notin Pool
    BY X86VmeAssumption DEF NoPage
  <1>2. KernelPd \subseteq Index /\ Vas \subseteq Index \X Index
    BY X86VmeAssumption
  <1>3. Zero \in Entries
    BY DEF Entries
  <1>4. ASSUME NEW f \in Pool \cup Frames \cup {Identity},
               NEW w \in BOOLEAN, NEW u \in BOOLEAN
        PROVE  Entry(f, w, u) \in Entries
    BY DEF Entries
  <1>5. UserEntries \subseteq Entries /\ Zero \in UserEntries
    BY <1>3 DEF UserEntries
  <1>7. ASSUME NEW f \in Frames, NEW w \in BOOLEAN PROVE Entry(f, w, TRUE) \in UserEntries
    <2>1. Entry(f, w, TRUE) \in Entries
      BY <1>4
    <2>2. QED
      BY <2>1 DEF UserEntries
  <1>6. QED
    BY <1>1, <1>2, <1>3, <1>4, <1>5, <1>7

(* An entry of a user table is absent, or maps a page of the client to     *)
(* user code.                                                              *)
LEMMA UserEntryFacts ==
  ASSUME NEW e \in UserEntries
  PROVE  /\ ~e.P => e = Zero
         /\ e.P => e.P = TRUE /\ e.U = TRUE /\ e.base \in Frames /\ e.W \in BOOLEAN
  <1>1. CASE e = Zero
    BY <1>1 DEF Zero
  <1>2. CASE e # Zero
    <2>1. PICK f \in Frames, w \in BOOLEAN : e = Entry(f, w, TRUE)
      BY <1>2 DEF UserEntries
    <2>2. e.P = TRUE /\ e.base = f /\ e.W = w /\ e.U = TRUE
      BY <2>1 DEF Entry, Zero
    <2>3. QED
      BY <2>2
  <1>3. QED
    BY <1>1, <1>2

(* The tables of the kernel, entry by entry of kpt. *)
LEMMA KernelTable ==
  ASSUME KernelOK, NEW q
  PROVE  /\ q \in KernelTables <=> \/ q = kpt
                                   \/ \E i \in KernelPd : pt[kpt][i] = Entry(q, TRUE, FALSE)
         /\ q \in KernelTables => q \in Pool
  <1>1. q \in KernelTables <=> q = kpt \/ \E i \in KernelPd : q = pt[kpt][i].base
    BY DEF KernelTables
  <1>2. ASSUME NEW i \in KernelPd
        PROVE  /\ q = pt[kpt][i].base <=> pt[kpt][i] = Entry(q, TRUE, FALSE)
               /\ pt[kpt][i].base \in Pool
    <2>1. PICK t \in Pool : pt[kpt][i] = Entry(t, TRUE, FALSE)
      BY DEF KernelOK
    <2>2. pt[kpt][i].base = t /\ Entry(q, TRUE, FALSE).base = q
      BY <2>1 DEF Entry, Zero
    <2>3. QED
      BY <2>1, <2>2
  <1>3. kpt \in Pool
    BY DEF KernelOK
  <1>4. QED
    BY <1>1, <1>2, <1>3

(* The tables of a space, entry by entry of its directory. *)
LEMMA SpaceTable ==
  ASSUME KernelOK, NEW as, SpaceOK(as), NEW q
  PROVE  /\ q \in TablesOf(as) <=>
              \/ q = Directory(as)
              \/ \E i \in Index \ KernelPd : pt[Directory(as)][i] = Entry(q, TRUE, TRUE)
         /\ q \in TablesOf(as) => q \in Pool
  <1> DEFINE dir == Directory(as)
  <1>1. q \in TablesOf(as) <=>
          q = dir \/ \E i \in Index : pt[dir][i].P /\ pt[dir][i].U /\ q = pt[dir][i].base
    BY DEF TablesOf, teardown
  <1>2. ASSUME NEW i \in KernelPd PROVE ~(pt[dir][i].P /\ pt[dir][i].U)
    <2>1. PICK t \in Pool : pt[dir][i] = Entry(t, TRUE, FALSE)
      BY DEF KernelOK, SpaceOK
    <2>2. QED
      BY <2>1 DEF Entry, Zero
  <1>3. ASSUME NEW i \in Index \ KernelPd
        PROVE  /\ (pt[dir][i].P /\ pt[dir][i].U /\ q = pt[dir][i].base)
                    <=> pt[dir][i] = Entry(q, TRUE, TRUE)
               /\ pt[dir][i] = Entry(q, TRUE, TRUE) => q \in Pool
    <2>1. CASE pt[dir][i] = Zero
      BY <2>1 DEF Entry, Zero
    <2>2. CASE pt[dir][i] # Zero
      <3>1. PICK t \in Pool : pt[dir][i] = Entry(t, TRUE, TRUE)
        BY <2>2 DEF SpaceOK
      <3>2. /\ pt[dir][i].P = TRUE /\ pt[dir][i].U = TRUE /\ pt[dir][i].base = t
            /\ Entry(q, TRUE, TRUE).base = q
        BY <3>1 DEF Entry, Zero
      <3>3. QED
        BY <3>1, <3>2
    <2>3. QED
      BY <2>1, <2>2
  <1>4. dir \in Pool
    BY DEF SpaceOK
  <1> HIDE DEF dir
  <1>5. QED
    BY <1>1, <1>2, <1>3, <1>4 DEF dir

(* The page-by-page form is TablesOwned. *)
LEMMA OwnedPageByPage ==
  ASSUME VmeInv, kpt # NoPage
  PROVE  TablesOwned
  <1>1. KernelOK /\ PagesOwned /\ (\A as \in live : SpaceOK(as)) /\ used \subseteq Pool
    BY DEF VmeInv, X86VmeTypeOK
  <1>2. KernelTables \subseteq Pool /\ \A as \in live : TablesOf(as) \subseteq Pool
    BY <1>1, KernelTable, SpaceTable
  <1>3. used = KernelTables \cup UNION {TablesOf(as) : as \in live}
    BY <1>1, <1>2 DEF PagesOwned
  <1>4. \A as \in live : TablesOf(as) \cap KernelTables = {}
    BY <1>1, <1>2 DEF PagesOwned
  <1>5. \A as \in live : \A bs \in live \ {as} : TablesOf(as) \cap TablesOf(bs) = {}
    BY <1>1, <1>2 DEF PagesOwned
  <1>6. QED
    BY <1>3, <1>4, <1>5 DEF TablesOwned

(* A step that leaves the kernel's tables alone leaves the kernel alone. *)
LEMMA KernelFrame ==
  ASSUME KernelOK, kpt' = kpt, \A q \in KernelTables : pt'[q] = pt[q]
  PROVE  KernelOK' /\ \A q : q \in KernelTables' <=> q \in KernelTables
  <1>1. pt'[kpt] = pt[kpt]
    BY KernelTable
  <1>2. KernelOK'
    <2> SUFFICES ASSUME NEW i \in KernelPd
                 PROVE  \E t \in Pool \ {kpt} :
                          /\ pt'[kpt][i] = Entry(t, TRUE, FALSE)
                          /\ pt'[t] = [j \in Index |-> Entry(Identity, TRUE, FALSE)]
      BY DEF KernelOK
    <2>1. PICK t \in Pool \ {kpt} :
            /\ pt[kpt][i] = Entry(t, TRUE, FALSE)
            /\ pt[t] = [j \in Index |-> Entry(Identity, TRUE, FALSE)]
      BY DEF KernelOK
    <2>2. t \in KernelTables
      BY <2>1, KernelTable
    <2>3. QED
      BY <1>1, <2>1, <2>2
  <1>3. KernelTables' = KernelTables
    BY <1>1 DEF KernelTables
  <1>4. QED
    BY <1>2, <1>3

(* A step that leaves the tables of a space and the kernel's alone leaves  *)
(* the space alone, and what user code sees in it.                         *)
LEMMA SpaceFrame ==
  ASSUME KernelOK, NEW as, SpaceOK(as), kpt' = kpt, ptr'[as] = ptr[as],
         pt'[kpt] = pt[kpt], \A q \in TablesOf(as) : pt'[q] = pt[q]
  PROVE  /\ SpaceOK(as)'
         /\ TablesOf(as)' = TablesOf(as)
         /\ \A va \in Index \X Index : UserEntry(as, va)' = UserEntry(as, va)
  <1> DEFINE dir == Directory(as)
  <1>1. Directory(as)' = dir
    BY DEF Directory
  <1>2. pt'[dir] = pt[dir]
    BY SpaceTable
  <1>3. ASSUME NEW i \in Index \ KernelPd, NEW t, pt[dir][i] = Entry(t, TRUE, TRUE)
        PROVE  pt'[t] = pt[t]
    BY <1>3, SpaceTable
  <1>4. SpaceOK(as)'
    <2>1. \A i \in KernelPd : pt'[dir][i] = pt'[kpt][i]
      BY <1>2 DEF SpaceOK
    <2>2. ASSUME NEW i \in Index \ KernelPd
          PROVE  \/ pt'[dir][i] = Zero
                 \/ \E t \in Pool \ {dir} :
                      pt'[dir][i] = Entry(t, TRUE, TRUE) /\ pt'[t] \in [Index -> UserEntries]
      BY <1>2, <1>3 DEF SpaceOK
    <2>3. \A i, j \in Index \ KernelPd :
            pt'[dir][i].P /\ pt'[dir][j].P /\ pt'[dir][i].base = pt'[dir][j].base => i = j
      BY <1>2 DEF SpaceOK
    <2>4. dir \in Pool
      BY DEF SpaceOK
    <2> HIDE DEF dir
    <2>5. QED
      BY <1>1, <2>1, <2>2, <2>3, <2>4 DEF SpaceOK
  <1>5. TablesOf(as)' = TablesOf(as)
    BY <1>1, <1>2 DEF TablesOf, teardown
  <1>6. ASSUME NEW va \in Index \X Index PROVE UserEntry(as, va)' = UserEntry(as, va)
    <2> DEFINE i == va[1]
    <2>0. i \in Index /\ va[2] \in Index
      OBVIOUS
    <2>1. CASE pt[dir][i].P /\ pt[dir][i].U
      <3>0. ASSUME i \in KernelPd PROVE FALSE
        <4>1. PICK t \in Pool : pt[dir][i] = Entry(t, TRUE, FALSE)
          BY <3>0, pt[dir][i] = pt[kpt][i] DEF KernelOK, SpaceOK
        <4>2. QED
          BY <2>1, <4>1 DEF Entry, Zero
      <3>1. i \in Index \ KernelPd /\ pt[dir][i] # Zero
        <4>1. pt[dir][i] # Zero
          BY <2>1, ZeroAbsent
        <4>2. QED
          BY <2>0, <3>0, <4>1
      <3>2. PICK t \in Pool : pt[dir][i] = Entry(t, TRUE, TRUE)
        BY <3>1 DEF SpaceOK
      <3>3. pt'[t] = pt[t] /\ pt[dir][i].base = t
        <4>1. pt[dir][i].base = t
          BY <3>2 DEF Entry
        <4>2. QED
          BY <1>3, <3>1, <3>2, <4>1
      <3>4. QED
        BY <1>1, <1>2, <2>1, <3>3 DEF UserEntry
    <2>2. CASE ~(pt[dir][i].P /\ pt[dir][i].U)
      BY <1>1, <1>2, <2>2 DEF UserEntry
    <2>3. QED
      BY <2>1, <2>2
  <1>7. QED
    BY <1>4, <1>5, <1>6

(* KernelTable in the state after a step. *)
LEMMA KernelTableNext ==
  (KernelOK => \A q : /\ q \in KernelTables <=>
                           \/ q = kpt
                           \/ \E i \in KernelPd : pt[kpt][i] = Entry(q, TRUE, FALSE)
                      /\ q \in KernelTables => q \in Pool)'
  <1>1. KernelOK => \A q : /\ q \in KernelTables <=>
                                \/ q = kpt
                                \/ \E i \in KernelPd : pt[kpt][i] = Entry(q, TRUE, FALSE)
                           /\ q \in KernelTables => q \in Pool
    BY KernelTable
  <1>2. QED
    BY <1>1, PTL

(* SpaceTable in the state after a step. *)
LEMMA SpaceTableNext ==
  (KernelOK =>
     \A as : SpaceOK(as) =>
       \A q : /\ q \in TablesOf(as) <=>
                   \/ q = Directory(as)
                   \/ \E i \in Index \ KernelPd : pt[Directory(as)][i] = Entry(q, TRUE, TRUE)
              /\ q \in TablesOf(as) => q \in Pool)'
  <1>1. KernelOK =>
     \A as : SpaceOK(as) =>
       \A q : /\ q \in TablesOf(as) <=>
                   \/ q = Directory(as)
                   \/ \E i \in Index \ KernelPd : pt[Directory(as)][i] = Entry(q, TRUE, TRUE)
              /\ q \in TablesOf(as) => q \in Pool
    BY SpaceTable
  <1>2. QED
    BY <1>1, PTL

(* Before vme_init no page is given out and no space exists. *)
LEMMA VmeInitInv == X86VmeInit => VmeInv
  <1> SUFFICES ASSUME X86VmeInit PROVE VmeInv
    OBVIOUS
  <1>1. ZeroPage \in [Index -> Entries]
    BY PoolFacts DEF ZeroPage
  <1>2. X86VmeTypeOK
    BY <1>1, PoolFacts DEF X86VmeInit, X86VmeTypeOK
  <1>3. QED
    BY <1>2 DEF VmeInv, X86VmeInit

(* vme_init builds the kernel's tables and gives out nothing else. *)
LEMMA VmeInitStep ==
  ASSUME VmeInv, vme_init
  PROVE  VmeInv'
  <1>1. used = {} /\ live = {} /\ X86VmeTypeOK
    BY DEF VmeInv, vme_init
  <1>0. PICK k \in pgalloc :
          \E table \in [KernelPd -> Pool \ {k}] :
            /\ kpt' = k
            /\ used' = {k} \cup {table[i] : i \in KernelPd}
            /\ pt' = [p \in Pool |->
                 IF p = k
                 THEN [i \in Index |->
                         IF i \in KernelPd THEN Entry(table[i], TRUE, FALSE) ELSE Zero]
                 ELSE IF p \in used' THEN [i \in Index |-> Entry(Identity, TRUE, FALSE)]
                 ELSE pt[p]]
    BY DEF vme_init
  <1>2. PICK table \in [KernelPd -> Pool \ {k}] :
          /\ kpt' = k
          /\ used' = {k} \cup {table[i] : i \in KernelPd}
          /\ pt' = [p \in Pool |->
               IF p = k
               THEN [i \in Index |-> IF i \in KernelPd THEN Entry(table[i], TRUE, FALSE) ELSE Zero]
               ELSE IF p \in used' THEN [i \in Index |-> Entry(Identity, TRUE, FALSE)]
               ELSE pt[p]]
    BY <1>0
  <1>3. UNCHANGED <<ptr, live, panicked>>
    BY DEF vme_init
  <1>4. k \in Pool /\ k # NoPage /\ KernelPd \subseteq Index
    BY PoolFacts DEF pgalloc
  <1> DEFINE top == [i \in Index |-> IF i \in KernelPd THEN Entry(table[i], TRUE, FALSE) ELSE Zero]
             full == [i \in Index |-> Entry(Identity, TRUE, FALSE)]
  <1>5. top \in [Index -> Entries]
    <2>1. \A i \in KernelPd : Entry(table[i], TRUE, FALSE) \in Entries
      BY PoolFacts
    <2>2. QED
      BY <2>1, PoolFacts
  <1>6. full \in [Index -> Entries]
    <2>1. Entry(Identity, TRUE, FALSE) \in Entries
      BY PoolFacts
    <2>2. QED
      BY <2>1
  <1>7. /\ pt'[k] = top
        /\ \A p \in Pool \ {k} : pt'[p] = IF p \in used' THEN full ELSE pt[p]
        /\ \A i \in KernelPd : top[i] = Entry(table[i], TRUE, FALSE)
    BY <1>2, <1>4
  <1> HIDE DEF top, full
  <1>8. X86VmeTypeOK'
    <2>1. pt' \in [Pool -> [Index -> Entries]]
      BY <1>1, <1>2, <1>5, <1>6 DEF X86VmeTypeOK, top, full
    <2>2. used' \subseteq Pool /\ kpt' \in Pool
      BY <1>2, <1>4
    <2>3. QED
      BY <1>1, <1>3, <2>1, <2>2 DEF X86VmeTypeOK
  <1>9. KernelOK'
    <2>1. ASSUME NEW i \in KernelPd
          PROVE  /\ table[i] \in Pool \ {k}
                 /\ pt'[k][i] = Entry(table[i], TRUE, FALSE)
                 /\ pt'[table[i]] = full
      <3>1. table[i] \in Pool \ {k} /\ table[i] \in used'
        BY <1>2
      <3>2. QED
        BY <1>7, <3>1
    <2>2. QED
      BY <1>2, <1>4, <2>1 DEF KernelOK, full
  <1>10. \A q : q \in used' <=> q \in KernelTables'
    <2>1. ASSUME NEW q, NEW i \in KernelPd
          PROVE  pt'[k][i] = Entry(q, TRUE, FALSE) <=> q = table[i]
      <3>1. pt'[k][i] = Entry(table[i], TRUE, FALSE)
        BY <1>7
      <3>2. Entry(q, TRUE, FALSE) = Entry(table[i], TRUE, FALSE) <=> q = table[i]
        BY DEF Entry
      <3>3. QED
        BY <3>1, <3>2
    <2>2. \A q : q \in KernelTables' <=>
             q = kpt' \/ \E i \in KernelPd : pt'[kpt'][i] = Entry(q, TRUE, FALSE)
      BY <1>9, KernelTableNext, Zenon
    <2>3. \A q : q \in KernelTables' <=> q = k \/ \E i \in KernelPd : q = table[i]
      <3>1. kpt' = k
        BY <1>2
      <3>2. QED
        BY <2>1, <2>2, <3>1, Zenon
    <2>4. \A q : q \in used' <=> q = k \/ \E i \in KernelPd : q = table[i]
      BY <1>2
    <2>5. QED
      BY <2>3, <2>4
  <1>11. PagesOwned'
    BY <1>1, <1>3, <1>10 DEF PagesOwned
  <1>12. QED
    BY <1>1, <1>2, <1>3, <1>4, <1>8, <1>9, <1>11 DEF VmeInv

(* The tables of the kernel and of the live spaces are given out. *)
LEMMA TablesUsed ==
  ASSUME VmeInv, kpt # NoPage
  PROVE  /\ KernelOK /\ PagesOwned
         /\ kpt \in KernelTables /\ \A q \in KernelTables : q \in Pool /\ q \in used
         /\ \A as \in live : /\ SpaceOK(as)
                             /\ Directory(as) \in TablesOf(as)
                             /\ \A q \in TablesOf(as) :
                                  /\ q \in Pool /\ q \in used /\ q \notin KernelTables
                                  /\ \A bs \in live \ {as} : q \notin TablesOf(bs)
  <1>1. KernelOK /\ PagesOwned /\ \A as \in live : SpaceOK(as)
    BY DEF VmeInv
  <1>2. kpt \in KernelTables /\ \A q \in KernelTables : q \in Pool
    BY <1>1, KernelTable
  <1>3. \A q \in KernelTables : q \in used
    BY <1>1, <1>2 DEF PagesOwned
  <1>4. \A as \in live : /\ Directory(as) \in TablesOf(as)
                         /\ \A q \in TablesOf(as) : q \in Pool
    BY <1>1, SpaceTable
  <1>5. ASSUME NEW as \in live, NEW q \in TablesOf(as)
        PROVE  /\ q \in used /\ q \notin KernelTables
               /\ \A bs \in live \ {as} : q \notin TablesOf(bs)
    BY <1>1, <1>4 DEF PagesOwned
  <1>6. QED
    BY <1>1, <1>2, <1>3, <1>4, <1>5

(* A call for one space that writes only pages that are free or belong to  *)
(* that space leaves the kernel and every other space as they are.         *)
LEMMA OthersKept ==
  ASSUME VmeInv, kpt # NoPage, kpt' = kpt, NEW as, NEW S,
         \A bs \in live \ {as} : ptr'[bs] = ptr[bs],
         \A q \in Pool : q \notin S => pt'[q] = pt[q],
         \A q \in S : q \notin used \/ (as \in live /\ q \in TablesOf(as))
  PROVE  /\ KernelOK' /\ \A q : q \in KernelTables' <=> q \in KernelTables
         /\ pt'[kpt] = pt[kpt]
         /\ \A bs \in live \ {as} :
              /\ SpaceOK(bs)'
              /\ \A q : q \in TablesOf(bs)' <=> q \in TablesOf(bs)
              /\ \A va \in Index \X Index : UserEntry(bs, va)' = UserEntry(bs, va)
  <1>1. \A q \in KernelTables : q \in Pool /\ q \notin S
    BY TablesUsed
  <1>2. \A q \in KernelTables : pt'[q] = pt[q]
    BY <1>1
  <1>3. pt'[kpt] = pt[kpt]
    BY <1>2, TablesUsed
  <1>4. ASSUME NEW bs \in live \ {as}
        PROVE  /\ SpaceOK(bs)' /\ TablesOf(bs)' = TablesOf(bs)
               /\ \A va \in Index \X Index : UserEntry(bs, va)' = UserEntry(bs, va)
    <2>1. \A q \in TablesOf(bs) : q \in Pool /\ q \notin S
      BY TablesUsed
    <2>2. (\A q \in TablesOf(bs) : pt'[q] = pt[q]) /\ ptr'[bs] = ptr[bs]
      BY <2>1
    <2>3. KernelOK /\ SpaceOK(bs)
      BY TablesUsed
    <2>4. QED
      BY <1>3, <2>2, <2>3, SpaceFrame
  <1>5. KernelOK' /\ \A q : q \in KernelTables' <=> q \in KernelTables
    BY <1>2, TablesUsed, KernelFrame
  <1>6. QED
    BY <1>3, <1>4, <1>5

(* protect: a fresh directory with the kernel's entries and nothing else.  *)
LEMMA ProtectStep ==
  ASSUME VmeInv, kpt # NoPage, NEW as \in Spaces, protect(as), panicked' = panicked,
         panicked = FALSE
  PROVE  /\ VmeInv'
         /\ as \notin live /\ live' = live \cup {as}
         /\ \A bs \in live, va \in Index \X Index : UserEntry(bs, va)' = UserEntry(bs, va)
         /\ \A va \in Index \X Index : ~(UserEntry(as, va)'.P /\ UserEntry(as, va)'.U)
  <1> DEFINE row == [i \in Index |-> IF i \in KernelPd THEN pt[kpt][i] ELSE Zero]
  <1>1. PICK p \in pgalloc :
          /\ pt' = [pt EXCEPT ![p] = row]
          /\ used' = used \cup {p}
          /\ ptr' = [ptr EXCEPT ![as] = Entry(p, FALSE, TRUE)]
          /\ live' = live \cup {as}
          /\ UNCHANGED <<kpt, panicked>>
    BY DEF protect, panic
  <1>2. as \notin live /\ p \in Pool /\ p \notin used /\ X86VmeTypeOK /\ KernelPd \subseteq Index
    BY PoolFacts DEF protect, pgalloc, VmeInv
  <1>3. KernelOK /\ kpt \in Pool
    BY TablesUsed DEF KernelOK
  <1>4. row \in [Index -> Entries]
    <2>1. \A i \in KernelPd : pt[kpt][i] \in Entries
      BY <1>2, <1>3 DEF X86VmeTypeOK
    <2>2. QED
      BY <2>1, PoolFacts
  <1>5. (\A i \in KernelPd : row[i] = pt[kpt][i]) /\ \A i \in Index \ KernelPd : row[i] = Zero
    BY <1>2
  <1> HIDE DEF row
  <1>6. pt'[p] = row /\ (\A q \in Pool : q \notin {p} => pt'[q] = pt[q])
    BY <1>1, <1>2 DEF X86VmeTypeOK
  <1>7. /\ ptr'[as] = Entry(p, FALSE, TRUE) /\ \A bs \in live \ {as} : ptr'[bs] = ptr[bs]
    BY <1>1, <1>2 DEF X86VmeTypeOK
  <1>8. kpt' = kpt
    BY <1>1
  <1>9. /\ KernelOK' /\ \A q : q \in KernelTables' <=> q \in KernelTables
        /\ pt'[kpt] = pt[kpt]
        /\ \A bs \in live \ {as} :
             /\ SpaceOK(bs)'
             /\ \A q : q \in TablesOf(bs)' <=> q \in TablesOf(bs)
             /\ \A va \in Index \X Index : UserEntry(bs, va)' = UserEntry(bs, va)
    <2> DEFINE S == {p}
    <2>1. \A q \in S : q \notin used \/ (as \in live /\ q \in TablesOf(as))
      BY <1>2
    <2>2. \A q \in Pool : q \notin S => pt'[q] = pt[q]
      BY <1>6
    <2> HIDE DEF S
    <2>3. QED
      BY <1>7, <1>8, <2>1, <2>2, OthersKept
  <1>10. Directory(as)' = p
    BY <1>7 DEF Directory, Entry
  <1>11. SpaceOK(as)'
    <2>1. \A i \in KernelPd : pt'[p][i] = pt'[kpt][i]
      BY <1>5, <1>6, <1>9
    <2>2. \A i \in Index \ KernelPd : pt'[p][i] = Zero
      BY <1>5, <1>6
    <2>3. \A i, j \in Index \ KernelPd :
            pt'[p][i].P /\ pt'[p][j].P /\ pt'[p][i].base = pt'[p][j].base => i = j
      BY <2>2, ZeroAbsent
    <2>4. QED
      BY <1>2, <1>8, <1>10, <2>1, <2>2, <2>3 DEF SpaceOK
  <1>12. \A q : q \in TablesOf(as)' <=> q = p
    <2>1. \A q : q \in TablesOf(as)' <=>
             \/ q = Directory(as)'
             \/ \E i \in Index \ KernelPd : pt'[Directory(as)'][i] = Entry(q, TRUE, TRUE)
      BY <1>9, <1>11, SpaceTableNext, Zenon
    <2>2. ASSUME NEW q, NEW i \in Index \ KernelPd PROVE pt'[p][i] # Entry(q, TRUE, TRUE)
      <3>1. pt'[p][i] = Zero
        BY <1>5, <1>6
      <3>2. QED
        BY <3>1 DEF Zero, Entry
    <2>3. QED
      BY <1>10, <2>1, <2>2
  <1>13. PagesOwned'
    <2>1. live' = live \cup {as} /\ used' = used \cup {p} /\ PagesOwned
      BY <1>1, TablesUsed
    <2>2. /\ p \notin KernelTables /\ \A bs \in live : p \notin TablesOf(bs)
      BY <1>2, TablesUsed
    <2>6. \A bs \in live : \A q : q \in TablesOf(bs)' <=> q \in TablesOf(bs)
      BY <1>2, <1>9
    <2>3. ASSUME NEW q \in Pool
          PROVE  q \in used' <=> q \in KernelTables' \/ \E bs \in live' : q \in TablesOf(bs)'
      <3>1. (\E bs \in live' : q \in TablesOf(bs)') <=>
               q = p \/ \E bs \in live : q \in TablesOf(bs)
        BY <1>12, <2>1, <2>6
      <3>2. q \in used <=> q \in KernelTables \/ \E bs \in live : q \in TablesOf(bs)
        BY <2>1 DEF PagesOwned
      <3>3. QED
        BY <1>9, <2>1, <3>1, <3>2
    <2>4. ASSUME NEW bs \in live', NEW q \in Pool, q \in TablesOf(bs)'
          PROVE  q \notin KernelTables' /\ \A cs \in live' \ {bs} : q \notin TablesOf(cs)'
      <3>1. CASE bs = as
        <4>1. q = p
          BY <1>12, <2>4, <3>1
        <4>2. q \notin KernelTables'
          BY <1>9, <2>2, <4>1
        <4>3. \A cs \in live : q \notin TablesOf(cs)'
          BY <2>2, <2>6, <4>1
        <4>4. QED
          BY <2>1, <3>1, <4>2, <4>3
      <3>2. CASE bs # as
        <4>1. bs \in live /\ q \in TablesOf(bs) /\ q # p
          BY <2>1, <2>2, <2>4, <2>6, <3>2
        <4>2. q \notin KernelTables /\ \A cs \in live \ {bs} : q \notin TablesOf(cs)
          BY <2>1, <4>1 DEF PagesOwned
        <4>3. QED
          BY <1>9, <1>12, <2>1, <2>6, <4>1, <4>2
      <3>3. QED
        BY <3>1, <3>2
    <2>5. QED
      BY <2>3, <2>4 DEF PagesOwned
  <1>14. X86VmeTypeOK'
    <2>1. Entry(p, FALSE, TRUE) \in Entries
      BY <1>2, PoolFacts
    <2>2. QED
      BY <1>1, <1>2, <1>4, <2>1 DEF X86VmeTypeOK
  <1>15. VmeInv'
    BY <1>1, <1>2, <1>9, <1>11, <1>13, <1>14 DEF VmeInv
  <1>16. ASSUME NEW va \in Index \X Index
         PROVE  ~(UserEntry(as, va)'.P /\ UserEntry(as, va)'.U)
    <2> DEFINE i == va[1]
    <2>1. ~(pt'[p][i].P /\ pt'[p][i].U)
      <3>1. CASE i \in KernelPd
        <4>1. PICK t \in Pool : pt[kpt][i] = Entry(t, TRUE, FALSE)
          BY <1>3, <3>1 DEF KernelOK
        <4>2. pt'[p][i] = Entry(t, TRUE, FALSE)
          BY <1>5, <1>6, <3>1, <4>1
        <4>3. QED
          BY <4>2 DEF Entry
      <3>2. CASE i \notin KernelPd
        <4>1. pt'[p][i] = Zero
          BY <1>5, <1>6, <3>2
        <4>2. QED
          BY <4>1, ZeroAbsent
      <3>3. QED
        BY <3>1, <3>2
    <2>2. UserEntry(as, va)' = Zero
      BY <1>10, <2>1 DEF UserEntry
    <2>3. QED
      BY <2>2, ZeroAbsent
  <1>17. QED
    BY <1>1, <1>2, <1>9, <1>15, <1>16

(* unprotect: the tables of the space are free again, and no other is.     *)
LEMMA UnprotectStep ==
  ASSUME VmeInv, kpt # NoPage, NEW as \in Spaces, unprotect(as)
  PROVE  /\ VmeInv'
         /\ as \in live /\ live' = live \ {as}
         /\ \A bs \in live \ {as}, va \in Index \X Index : UserEntry(bs, va)' = UserEntry(bs, va)
  <1>1. /\ as \in live /\ live' = live \ {as} /\ used' = used \ TablesOf(as)
        /\ UNCHANGED <<pt, kpt, ptr, panicked>>
    BY DEF unprotect, TablesOf
  <1>2. /\ KernelOK' /\ \A q : q \in KernelTables' <=> q \in KernelTables
        /\ \A bs \in live \ {as} :
             /\ SpaceOK(bs)'
             /\ \A q : q \in TablesOf(bs)' <=> q \in TablesOf(bs)
             /\ \A va \in Index \X Index : UserEntry(bs, va)' = UserEntry(bs, va)
    <2> DEFINE S == {}
    <2>1. \A q \in S : q \notin used \/ (as \in live /\ q \in TablesOf(as))
      OBVIOUS
    <2>2. /\ kpt' = kpt /\ \A bs \in live \ {as} : ptr'[bs] = ptr[bs]
          /\ \A q \in Pool : q \notin S => pt'[q] = pt[q]
      BY <1>1
    <2> HIDE DEF S
    <2>3. QED
      BY <2>1, <2>2, OthersKept
  <1>3. PagesOwned'
    <2>1. PagesOwned /\ \A q \in TablesOf(as) : /\ q \notin KernelTables
                                                /\ \A bs \in live \ {as} : q \notin TablesOf(bs)
      BY <1>1, TablesUsed
    <2>2. ASSUME NEW q \in Pool
          PROVE  q \in used' <=> q \in KernelTables' \/ \E bs \in live' : q \in TablesOf(bs)'
      <3>1. (\E bs \in live' : q \in TablesOf(bs)') <=> \E bs \in live \ {as} : q \in TablesOf(bs)
        BY <1>1, <1>2
      <3>2. q \in used <=> q \in KernelTables \/ \E bs \in live : q \in TablesOf(bs)
        BY <2>1 DEF PagesOwned
      <3>3. QED
        BY <1>1, <1>2, <2>1, <3>1, <3>2
    <2>3. ASSUME NEW bs \in live', NEW q \in Pool, q \in TablesOf(bs)'
          PROVE  q \notin KernelTables' /\ \A cs \in live' \ {bs} : q \notin TablesOf(cs)'
      <3>1. bs \in live \ {as} /\ q \in TablesOf(bs)
        BY <1>1, <1>2, <2>3
      <3>2. q \notin KernelTables /\ \A cs \in live \ {bs} : q \notin TablesOf(cs)
        BY <2>1, <3>1 DEF PagesOwned
      <3>3. QED
        BY <1>1, <1>2, <3>1, <3>2
    <2>4. QED
      BY <2>2, <2>3 DEF PagesOwned
  <1>4. X86VmeTypeOK'
    BY <1>1 DEF X86VmeTypeOK, VmeInv
  <1>5. QED
    BY <1>1, <1>2, <1>3, <1>4 DEF VmeInv

(* The table behind the entry i of the directory of as, before the walk.   *)
OldRow(as, i) ==
  IF pt[Directory(as)][i] = Zero THEN ZeroPage ELSE pt[pt[Directory(as)][i].base]

(* The call leaves table t, with the contents row, behind entry i of the   *)
(* directory of as, and writes nothing else.                               *)
Installed(as, i, t, row) ==
  /\ \/ pt[Directory(as)][i] = Entry(t, TRUE, TRUE)
     \/ pt[Directory(as)][i] = Zero /\ t \notin used
  /\ used' = used \cup {t}
  /\ pt' \in [Pool -> [Index -> Entries]]
  /\ pt'[t] = row
  /\ pt'[Directory(as)] = [pt[Directory(as)] EXCEPT ![i] = Entry(t, TRUE, TRUE)]
  /\ \A q \in Pool : q \notin {t, Directory(as)} => pt'[q] = pt[q]

(* The new entry of map, and what it means for the call. *)
NewRow(as, va, pa, w, unmap, row) ==
  \/ row = OldRow(as, va[1]) /\ panicked' = TRUE
  \/ /\ row = [OldRow(as, va[1]) EXCEPT ![va[2]] = IF unmap THEN Zero ELSE Entry(pa, w, TRUE)]
     /\ OldRow(as, va[1])[va[2]].P = unmap
     /\ panicked' = panicked

(* What a call of map does to the tables. *)
MapOutcome(as, va, pa, w, unmap) ==
  \/ UNCHANGED <<pt, used>> /\ panicked' = TRUE
  \/ /\ va \in UserVas
     /\ \E t \in Pool \ {Directory(as)} : \E row \in [Index -> UserEntries] :
          Installed(as, va[1], t, row) /\ NewRow(as, va, pa, w, unmap, row)

(* map: the table that ptwalk finds or allocates changes at one entry.     *)
LEMMA MapEffect ==
  ASSUME VmeInv, kpt # NoPage, NEW as \in Spaces, NEW va \in Vas, NEW pa \in Frames,
         NEW w \in BOOLEAN, NEW unmap \in BOOLEAN, map(as, va, pa, w, unmap)
  PROVE  /\ as \in live /\ UNCHANGED <<kpt, ptr, live>>
         /\ MapOutcome(as, va, pa, w, unmap)
  <1> DEFINE dir == Directory(as)
             i == va[1]
             j == va[2]
             new == IF unmap THEN Zero ELSE Entry(pa, w, TRUE)
  <1>1. as \in live /\ UNCHANGED <<kpt, ptr, live>>
    BY DEF map, panic
  <1>2. CASE UNCHANGED <<pt, used>> /\ panicked' = TRUE
    BY <1>1, <1>2 DEF MapOutcome
  <1>3. CASE ~(UNCHANGED <<pt, used>> /\ panicked' = TRUE)
    <2>1. va \in UserVas
      BY <1>3 DEF map, panic
    <2>2. PICK r \in ptwalk(dir, i) :
            /\ used' = r.used
            /\ IF r.pages[r.table][j].P = unmap
               THEN /\ pt' = [r.pages EXCEPT ![r.table][j] = new]
                    /\ UNCHANGED panicked
               ELSE pt' = r.pages /\ panicked' = TRUE
      BY <1>3 DEF map, panic
    <2>3. i \in Index \ KernelPd /\ j \in Index
      BY <2>1, PoolFacts DEF UserVas
    <2>4. dir \in Pool /\ dir \in used /\ SpaceOK(as) /\ X86VmeTypeOK
      BY <1>1, TablesUsed DEF VmeInv
    <2>5. new \in UserEntries
      <3>1. Entry(pa, w, TRUE) \in UserEntries /\ Zero \in UserEntries
        BY PoolFacts
      <3>2. QED
        BY <3>1
    <2> HIDE DEF dir, i, j, new
    <2>6. CASE pt[dir][i] = Zero
      <3>1. ~pt[dir][i].P
        BY <2>6, ZeroAbsent
      <3>2. PICK p \in pgalloc :
              r = [pages |-> [pt EXCEPT ![p] = ZeroPage, ![dir][i] = Entry(p, TRUE, TRUE)],
                   used |-> used \cup {p}, table |-> p]
        BY <2>2, <3>1 DEF ptwalk
      <3> DEFINE mid == [pt EXCEPT ![p] = ZeroPage, ![dir][i] = Entry(p, TRUE, TRUE)]
      <3>3. r.pages = mid /\ r.used = used \cup {p} /\ r.table = p
        BY <3>2
      <3>4. p \in Pool /\ p # dir /\ p \notin used
        BY <2>4 DEF pgalloc
      <3>5. Entry(p, TRUE, TRUE) \in Entries /\ ZeroPage \in [Index -> Entries]
        BY <3>4, PoolFacts DEF ZeroPage
      <3>6. /\ mid \in [Pool -> [Index -> Entries]]
            /\ mid[p] = ZeroPage
            /\ mid[dir] = [pt[dir] EXCEPT ![i] = Entry(p, TRUE, TRUE)]
            /\ \A q \in Pool : q \notin {p, dir} => mid[q] = pt[q]
        BY <2>3, <2>4, <3>4, <3>5 DEF X86VmeTypeOK
      <3> HIDE DEF mid
      <3>7. ZeroPage \in [Index -> UserEntries] /\ OldRow(as, i) = ZeroPage
        BY <2>6, PoolFacts DEF ZeroPage, OldRow, dir
      <3>8. PICK row \in [Index -> UserEntries] :
              /\ pt' = [mid EXCEPT ![p] = row]
              /\ NewRow(as, va, pa, w, unmap, row)
        <4>1. CASE ZeroPage[j].P = unmap
          <5>1. pt' = [mid EXCEPT ![p] = [ZeroPage EXCEPT ![j] = new]] /\ panicked' = panicked
            BY <2>2, <3>3, <3>4, <3>6, <4>1
          <5>2. [ZeroPage EXCEPT ![j] = new] \in [Index -> UserEntries]
            BY <2>3, <2>5, <3>7
          <5>3. QED
            BY <3>7, <4>1, <5>1, <5>2 DEF NewRow, i, j, new
        <4>2. CASE ZeroPage[j].P # unmap
          <5>1. pt' = mid /\ panicked' = TRUE
            BY <2>2, <3>3, <3>6, <4>2
          <5>2. mid = [mid EXCEPT ![p] = ZeroPage]
            BY <3>4, <3>6
          <5>3. QED
            BY <3>7, <5>1, <5>2 DEF NewRow, i
        <4>3. QED
          BY <4>1, <4>2
      <3>9. row \in [Index -> Entries]
        BY PoolFacts
      <3>10. Installed(as, i, p, row)
        <4>1. /\ pt' \in [Pool -> [Index -> Entries]] /\ pt'[p] = row
              /\ pt'[dir] = [pt[dir] EXCEPT ![i] = Entry(p, TRUE, TRUE)]
              /\ \A q \in Pool : q \notin {p, dir} => pt'[q] = pt[q]
          BY <2>4, <3>4, <3>6, <3>8, <3>9
        <4>2. used' = used \cup {p}
          BY <2>2, <3>3
        <4>3. QED
          BY <2>6, <3>4, <4>1, <4>2 DEF Installed, dir
      <3>11. QED
        BY <1>1, <2>1, <3>4, <3>8, <3>10 DEF dir, i, MapOutcome
    <2>7. CASE pt[dir][i] # Zero
      <3>1. PICK t \in Pool \ {dir} :
              pt[dir][i] = Entry(t, TRUE, TRUE) /\ pt[t] \in [Index -> UserEntries]
        BY <2>3, <2>4, <2>7 DEF SpaceOK, dir
      <3>2. pt[dir][i].P = TRUE /\ pt[dir][i].base = t
        BY <3>1 DEF Entry
      <3>3. r = [pages |-> pt, used |-> used, table |-> t]
        BY <2>2, <3>2 DEF ptwalk
      <3>4. r.pages = pt /\ r.used = used /\ r.table = t
        BY <3>3
      <3>5. t \in used
        <4>1. t \in TablesOf(as)
          BY <1>1, <2>3, <3>1, SpaceTable, TablesUsed DEF dir
        <4>2. QED
          BY <1>1, <4>1, TablesUsed
      <3>6. OldRow(as, i) = pt[t]
        BY <2>7, <3>2 DEF OldRow, dir
      <3>7. PICK row \in [Index -> UserEntries] :
              /\ pt' = [pt EXCEPT ![t] = row]
              /\ NewRow(as, va, pa, w, unmap, row)
        <4>1. CASE pt[t][j].P = unmap
          <5>1. pt' = [pt EXCEPT ![t] = [pt[t] EXCEPT ![j] = new]] /\ panicked' = panicked
            BY <2>2, <2>4, <3>1, <3>4, <4>1 DEF X86VmeTypeOK
          <5>2. [pt[t] EXCEPT ![j] = new] \in [Index -> UserEntries]
            BY <2>3, <2>5, <3>1
          <5>3. QED
            BY <3>6, <4>1, <5>1, <5>2 DEF NewRow, i, j, new
        <4>2. CASE pt[t][j].P # unmap
          <5>1. pt' = pt /\ panicked' = TRUE
            BY <2>2, <3>4, <4>2
          <5>2. pt = [pt EXCEPT ![t] = pt[t]]
            BY <2>4, <3>1 DEF X86VmeTypeOK
          <5>3. QED
            BY <3>1, <3>6, <5>1, <5>2 DEF NewRow, i
        <4>3. QED
          BY <4>1, <4>2
      <3>8. row \in [Index -> Entries]
        BY PoolFacts
      <3>9. Installed(as, i, t, row)
        <4>1. /\ pt' \in [Pool -> [Index -> Entries]] /\ pt'[t] = row
              /\ \A q \in Pool : q \notin {t, dir} => pt'[q] = pt[q]
          BY <2>4, <3>1, <3>7, <3>8 DEF X86VmeTypeOK
        <4>2. pt'[dir] = pt[dir]
          BY <2>4, <3>1, <3>7 DEF X86VmeTypeOK
        <4>3. pt[dir] = [pt[dir] EXCEPT ![i] = Entry(t, TRUE, TRUE)]
          BY <2>3, <2>4, <3>1 DEF X86VmeTypeOK
        <4>4. used' = used \cup {t}
          BY <2>2, <3>4, <3>5
        <4>5. QED
          BY <3>1, <4>1, <4>2, <4>3, <4>4 DEF Installed, dir
      <3>10. QED
        BY <1>1, <2>1, <3>1, <3>7, <3>9 DEF dir, i, MapOutcome
    <2>8. QED
      BY <2>6, <2>7
  <1>4. QED
    BY <1>2, <1>3

(* What user code of a space finds behind an entry of its directory.       *)
LEMMA UserEntryIs ==
  ASSUME KernelOK, NEW as, SpaceOK(as), NEW v \in Index \X Index
  PROVE  /\ v[1] \in KernelPd => UserEntry(as, v) = Zero
         /\ v[1] \notin KernelPd => UserEntry(as, v) = OldRow(as, v[1])[v[2]]
         /\ UserEntry(as, v) \in UserEntries
  <1> DEFINE dir == Directory(as)
             i == v[1]
             j == v[2]
  <1>0. i \in Index /\ j \in Index
    OBVIOUS
  <1>1. CASE i \in KernelPd
    <2>1. PICK t \in Pool : pt[dir][i] = Entry(t, TRUE, FALSE)
      BY <1>1 DEF KernelOK, SpaceOK
    <2>2. ~(pt[dir][i].P /\ pt[dir][i].U)
      BY <2>1 DEF Entry
    <2>3. UserEntry(as, v) = Zero
      BY <2>2 DEF UserEntry
    <2>4. QED
      BY <1>1, <2>3, PoolFacts
  <1>2. CASE i \notin KernelPd /\ pt[dir][i] = Zero
    <2>1. ~(pt[dir][i].P /\ pt[dir][i].U)
      BY <1>2, ZeroAbsent
    <2>2. UserEntry(as, v) = Zero
      BY <2>1 DEF UserEntry
    <2>3. OldRow(as, i)[j] = Zero
      BY <1>0, <1>2 DEF OldRow, ZeroPage
    <2>4. QED
      BY <1>2, <2>2, <2>3, PoolFacts
  <1>3. CASE i \notin KernelPd /\ pt[dir][i] # Zero
    <2>1. PICK t \in Pool \ {dir} :
            pt[dir][i] = Entry(t, TRUE, TRUE) /\ pt[t] \in [Index -> UserEntries]
      BY <1>0, <1>3 DEF SpaceOK
    <2>2. pt[dir][i].P /\ pt[dir][i].U /\ pt[dir][i].base = t
      BY <2>1 DEF Entry
    <2>3. UserEntry(as, v) = pt[t][j]
      BY <2>2 DEF UserEntry
    <2>4. OldRow(as, i) = pt[t]
      BY <1>3, <2>2 DEF OldRow
    <2>5. pt[t][j] \in UserEntries
      BY <1>0, <2>1
    <2>6. QED
      BY <1>3, <2>3, <2>4, <2>5
  <1>4. QED
    BY <1>1, <1>2, <1>3

(* UserEntryIs in the state after a step. *)
LEMMA UserEntryIsNext ==
  (KernelOK => \A as : SpaceOK(as) => \A v \in Index \X Index :
     /\ v[1] \in KernelPd => UserEntry(as, v) = Zero
     /\ v[1] \notin KernelPd => UserEntry(as, v) = OldRow(as, v[1])[v[2]]
     /\ UserEntry(as, v) \in UserEntries)'
  <1>1. KernelOK => \A as : SpaceOK(as) => \A v \in Index \X Index :
          /\ v[1] \in KernelPd => UserEntry(as, v) = Zero
          /\ v[1] \notin KernelPd => UserEntry(as, v) = OldRow(as, v[1])[v[2]]
          /\ UserEntry(as, v) \in UserEntries
    BY UserEntryIs
  <1>2. QED
    BY <1>1, PTL

(* User code of as sees row behind entry i, and the rest as it was.        *)
SeesRow(as, i, row) ==
  /\ \A bs \in live \ {as}, v \in Index \X Index : UserEntry(bs, v)' = UserEntry(bs, v)
  /\ \A v \in Index \X Index :
       UserEntry(as, v)' = IF v[1] = i THEN row[v[2]] ELSE UserEntry(as, v)

(* Leaving a table behind an entry of one directory keeps the invariant,   *)
(* and user code sees the contents of the table there and nowhere else.    *)
LEMMA InstallStep ==
  ASSUME VmeInv, kpt # NoPage, NEW as \in live, NEW i \in Index \ KernelPd,
         NEW t \in Pool \ {Directory(as)}, NEW row \in [Index -> UserEntries],
         Installed(as, i, t, row), UNCHANGED <<kpt, ptr, live>>, panicked' \in BOOLEAN
  PROVE  VmeInv' /\ SeesRow(as, i, row)
  <1> DEFINE dir == Directory(as)
  <1>1. /\ pt[dir][i] = Entry(t, TRUE, TRUE) \/ (pt[dir][i] = Zero /\ t \notin used)
        /\ used' = used \cup {t}
        /\ pt' \in [Pool -> [Index -> Entries]]
        /\ pt'[t] = row
        /\ pt'[dir] = [pt[dir] EXCEPT ![i] = Entry(t, TRUE, TRUE)]
        /\ \A q \in Pool : q \notin {t, dir} => pt'[q] = pt[q]
    BY DEF Installed
  <1>2. /\ X86VmeTypeOK /\ KernelOK /\ SpaceOK(as) /\ PagesOwned /\ KernelPd \subseteq Index
        /\ dir \in TablesOf(as) /\ dir \in Pool /\ dir \in used /\ t \in Pool /\ t # dir
    BY TablesUsed, PoolFacts DEF VmeInv
  <1>3. \A q : /\ q \in TablesOf(as) <=>
                    q = dir \/ \E j \in Index \ KernelPd : pt[dir][j] = Entry(q, TRUE, TRUE)
               /\ q \in TablesOf(as) => q \in used
    BY <1>2, SpaceTable, TablesUsed
  <1>4. Directory(as)' = dir
    BY DEF Directory
  <1> HIDE DEF dir
  <1>5. t \notin used \/ t \in TablesOf(as)
    BY <1>1, <1>3
  <1>6. /\ KernelOK' /\ \A q : q \in KernelTables' <=> q \in KernelTables
        /\ pt'[kpt] = pt[kpt]
        /\ \A bs \in live \ {as} :
             /\ SpaceOK(bs)'
             /\ \A q : q \in TablesOf(bs)' <=> q \in TablesOf(bs)
             /\ \A va \in Index \X Index : UserEntry(bs, va)' = UserEntry(bs, va)
    <2> DEFINE S == {t, dir}
    <2>1. \A q \in S : q \notin used \/ (as \in live /\ q \in TablesOf(as))
      BY <1>2, <1>5
    <2>2. /\ kpt' = kpt /\ \A bs \in live \ {as} : ptr'[bs] = ptr[bs]
          /\ \A q \in Pool : q \notin S => pt'[q] = pt[q]
      BY <1>1
    <2> HIDE DEF S
    <2>3. QED
      BY <2>1, <2>2, OthersKept
  <1>7. /\ pt'[dir][i] = Entry(t, TRUE, TRUE)
        /\ \A j \in Index \ {i} : pt'[dir][j] = pt[dir][j]
    BY <1>1, <1>2 DEF X86VmeTypeOK
  <1>8. ASSUME NEW j \in Index \ KernelPd, j # i, NEW s, pt[dir][j] = Entry(s, TRUE, TRUE)
        PROVE  s # t /\ s \in Pool /\ s # dir /\ pt'[s] = pt[s] /\ pt[s] \in [Index -> UserEntries]
    <2>1. s \in TablesOf(as) /\ s \in used
      BY <1>3, <1>8
    <2>2. s # t
      <3>1. CASE pt[dir][i] = Entry(t, TRUE, TRUE)
        <4>1. pt[dir][i].P /\ pt[dir][i].base = t /\ pt[dir][j].P /\ pt[dir][j].base = s
          BY <1>8, <3>1 DEF Entry
        <4>2. QED
          BY <1>2, <1>8, <4>1 DEF SpaceOK, dir
      <3>2. CASE t \notin used
        BY <2>1, <3>2
      <3>3. QED
        BY <1>1, <3>1, <3>2
    <2>3. PICK z \in Pool \ {dir} :
            pt[dir][j] = Entry(z, TRUE, TRUE) /\ pt[z] \in [Index -> UserEntries]
      <3>1. pt[dir][j] # Zero
        BY <1>8 DEF Entry, Zero
      <3>2. QED
        BY <1>2, <3>1 DEF SpaceOK, dir
    <2>4. z = s
      BY <1>8, <2>3 DEF Entry
    <2>5. QED
      BY <1>1, <2>2, <2>3, <2>4
  <1>9. SpaceOK(as)'
    <2>1. \A j \in KernelPd : pt'[dir][j] = pt'[kpt][j]
      BY <1>2, <1>6, <1>7 DEF SpaceOK, dir
    <2>2. ASSUME NEW j \in Index \ KernelPd
          PROVE  \/ pt'[dir][j] = Zero
                 \/ \E s \in Pool \ {dir} :
                      pt'[dir][j] = Entry(s, TRUE, TRUE) /\ pt'[s] \in [Index -> UserEntries]
      <3>1. CASE j = i
        BY <1>1, <1>2, <1>7, <3>1
      <3>2. CASE j # i
        <4>1. pt'[dir][j] = pt[dir][j]
          BY <1>7, <3>2
        <4>2. CASE pt[dir][j] = Zero
          BY <4>1, <4>2
        <4>3. CASE pt[dir][j] # Zero
          <5>1. PICK s \in Pool \ {dir} : pt[dir][j] = Entry(s, TRUE, TRUE)
            BY <1>2, <4>3 DEF SpaceOK, dir
          <5>2. pt'[s] = pt[s] /\ pt[s] \in [Index -> UserEntries]
            BY <1>8, <3>2, <5>1
          <5>3. QED
            BY <4>1, <5>1, <5>2
        <4>4. QED
          BY <4>2, <4>3
      <3>3. QED
        BY <3>1, <3>2
    <2>3. ASSUME NEW j \in Index \ KernelPd, NEW k \in Index \ KernelPd,
                 pt'[dir][j].P, pt'[dir][k].P, pt'[dir][j].base = pt'[dir][k].base, j # k
          PROVE  FALSE
      <3>1. ASSUME NEW l \in Index \ KernelPd, l # i, pt'[dir][l].P
            PROVE  pt'[dir][l].base # pt'[dir][i].base
        <4>1. pt[dir][l] # Zero
          BY <1>7, <3>1, ZeroAbsent
        <4>2. PICK s \in Pool : pt[dir][l] = Entry(s, TRUE, TRUE)
          BY <1>2, <4>1 DEF SpaceOK, dir
        <4>3. s # t
          BY <1>8, <3>1, <4>2
        <4>4. pt'[dir][l] = Entry(s, TRUE, TRUE)
          BY <1>7, <3>1, <4>2
        <4>5. pt'[dir][l].base = s
          BY <4>4 DEF Entry
        <4>6. pt'[dir][i].base = t
          BY <1>7 DEF Entry
        <4>7. QED
          BY <4>3, <4>5, <4>6
      <3>2. CASE j = i
        BY <2>3, <3>1, <3>2
      <3>3. CASE k = i
        BY <2>3, <3>1, <3>3
      <3>4. CASE j # i /\ k # i
        <4>1. pt'[dir][j] = pt[dir][j] /\ pt'[dir][k] = pt[dir][k]
          BY <1>7, <3>4
        <4>2. QED
          BY <1>2, <2>3, <4>1 DEF SpaceOK, dir
      <3>5. QED
        BY <3>2, <3>3, <3>4
    <2>4. kpt' = kpt
      OBVIOUS
    <2>5. QED
      BY <1>2, <1>4, <2>1, <2>2, <2>3, <2>4 DEF SpaceOK
  <1>10. \A q : q \in TablesOf(as)' <=> q \in TablesOf(as) \/ q = t
    <2>1. \A q : q \in TablesOf(as)' <=>
             \/ q = Directory(as)'
             \/ \E j \in Index \ KernelPd : pt'[Directory(as)'][j] = Entry(q, TRUE, TRUE)
      BY <1>6, <1>9, SpaceTableNext, Zenon
    <2>2. ASSUME NEW q
          PROVE  (\E j \in Index \ KernelPd : pt'[dir][j] = Entry(q, TRUE, TRUE)) <=>
                   \/ q = t
                   \/ \E j \in Index \ KernelPd : pt[dir][j] = Entry(q, TRUE, TRUE)
      <3>1. pt'[dir][i] = Entry(q, TRUE, TRUE) <=> q = t
        <4>1. Entry(t, TRUE, TRUE) = Entry(q, TRUE, TRUE) <=> q = t
          BY DEF Entry
        <4>2. QED
          BY <1>7, <4>1
      <3>2. pt[dir][i] = Entry(q, TRUE, TRUE) => q = t
        <4>1. CASE pt[dir][i] = Zero
          BY <4>1 DEF Entry, Zero
        <4>2. CASE pt[dir][i] = Entry(t, TRUE, TRUE)
          BY <4>2 DEF Entry
        <4>3. QED
          BY <1>1, <4>1, <4>2
      <3>3. QED
        BY <1>7, <3>1, <3>2
    <2>3. QED
      BY <1>3, <1>4, <2>1, <2>2
  <1>11. PagesOwned'
    <2>1. \A bs \in live \ {as} : \A q : q \in TablesOf(bs)' <=> q \in TablesOf(bs)
      BY <1>6
    <2>2. /\ t \notin KernelTables /\ \A bs \in live \ {as} : t \notin TablesOf(bs)
      BY <1>5, TablesUsed
    <2>3. ASSUME NEW q \in Pool
          PROVE  q \in used' <=> q \in KernelTables' \/ \E bs \in live' : q \in TablesOf(bs)'
      <3>1. (\E bs \in live' : q \in TablesOf(bs)') <=>
               q = t \/ \E bs \in live : q \in TablesOf(bs)
        BY <1>10, <2>1
      <3>2. q \in used <=> q \in KernelTables \/ \E bs \in live : q \in TablesOf(bs)
        BY <1>2 DEF PagesOwned
      <3>3. QED
        BY <1>1, <1>6, <3>1, <3>2
    <2>4. ASSUME NEW bs \in live', NEW q \in Pool, q \in TablesOf(bs)'
          PROVE  q \notin KernelTables' /\ \A cs \in live' \ {bs} : q \notin TablesOf(cs)'
      <3>0. \A cs \in live, z \in Pool : z \in TablesOf(cs) =>
               z \notin KernelTables /\ \A ds \in live \ {cs} : z \notin TablesOf(ds)
        BY <1>2 DEF PagesOwned
      <3>1. CASE q = t
        <4>1. bs = as
          BY <2>1, <2>2, <2>4, <3>1
        <4>2. QED
          BY <1>6, <2>1, <2>2, <3>1, <4>1
      <3>2. CASE q # t
        <4>1. \A cs \in live : q \in TablesOf(cs)' <=> q \in TablesOf(cs)
          BY <1>10, <2>1, <3>2
        <4>2. q \in TablesOf(bs)
          BY <2>4, <4>1
        <4>3. QED
          BY <1>6, <3>0, <4>1, <4>2
      <3>3. QED
        BY <3>1, <3>2
    <2>5. QED
      BY <2>3, <2>4 DEF PagesOwned
  <1>12. X86VmeTypeOK'
    BY <1>1, <1>2 DEF X86VmeTypeOK
  <1>13. VmeInv'
    <2>1. \A bs \in live' : SpaceOK(bs)'
      BY <1>6, <1>9
    <2>2. kpt' # NoPage
      OBVIOUS
    <2>3. QED
      BY <1>6, <1>11, <1>12, <2>1, <2>2 DEF VmeInv
  <1>14. ASSUME NEW v \in Index \X Index
         PROVE  UserEntry(as, v)' = IF v[1] = i THEN row[v[2]] ELSE UserEntry(as, v)
    <2>0. v[1] \in Index /\ v[2] \in Index
      OBVIOUS
    <2>1. CASE v[1] = i
      <3>1. pt'[dir][i].P /\ pt'[dir][i].U /\ pt'[dir][i].base = t
        BY <1>7 DEF Entry
      <3>2. UserEntry(as, v)' = pt'[t][v[2]]
        BY <1>4, <2>1, <3>1 DEF UserEntry
      <3>3. QED
        BY <1>1, <2>1, <3>2
    <2>2. CASE v[1] # i
      <3>1. pt'[dir][v[1]] = pt[dir][v[1]]
        BY <1>7, <2>0, <2>2
      <3>2. CASE pt[dir][v[1]].P /\ pt[dir][v[1]].U
        <4>1. v[1] \notin KernelPd
          <5>1. ASSUME v[1] \in KernelPd PROVE FALSE
            <6>0. pt[dir][v[1]] = pt[kpt][v[1]]
              BY <1>2, <5>1 DEF SpaceOK, dir
            <6>1. PICK s \in Pool : pt[dir][v[1]] = Entry(s, TRUE, FALSE)
              BY <1>2, <5>1, <6>0 DEF KernelOK
            <6>2. QED
              BY <3>2, <6>1 DEF Entry
          <5>2. QED
            BY <5>1
        <4>2. pt[dir][v[1]] # Zero
          BY <3>2, ZeroAbsent
        <4>3. PICK s \in Pool : pt[dir][v[1]] = Entry(s, TRUE, TRUE)
          BY <1>2, <2>0, <4>1, <4>2 DEF SpaceOK, dir
        <4>4. pt'[s] = pt[s]
          BY <1>8, <2>0, <2>2, <4>1, <4>3
        <4>5. pt[dir][v[1]].base = s
          BY <4>3 DEF Entry
        <4>6. UserEntry(as, v)' = pt'[s][v[2]] /\ UserEntry(as, v) = pt[s][v[2]]
          BY <1>4, <3>1, <3>2, <4>5 DEF UserEntry, dir
        <4>7. QED
          BY <2>2, <4>4, <4>6
      <3>3. CASE ~(pt[dir][v[1]].P /\ pt[dir][v[1]].U)
        <4>1. UserEntry(as, v)' = Zero /\ UserEntry(as, v) = Zero
          BY <1>4, <3>1, <3>3 DEF UserEntry, dir
        <4>2. QED
          BY <2>2, <4>1
      <3>4. QED
        BY <3>2, <3>3
    <2>3. QED
      BY <2>1, <2>2
  <1>15. QED
    BY <1>6, <1>13, <1>14 DEF SeesRow

(* A panic changes nothing but the flag. *)
LEMMA PanicStep ==
  ASSUME VmeInv, UNCHANGED <<pt, used, kpt, ptr, live>>, panicked' \in BOOLEAN
  PROVE  /\ VmeInv'
         /\ \A bs \in live, v \in Index \X Index : UserEntry(bs, v)' = UserEntry(bs, v)
  <1>1. X86VmeTypeOK'
    BY DEF X86VmeTypeOK, VmeInv
  <1>2. KernelOK' <=> KernelOK
    BY DEF KernelOK
  <1>3. \A as : Directory(as)' = Directory(as)
    BY DEF Directory
  <1>4. KernelTables' = KernelTables /\ \A as : TablesOf(as)' = TablesOf(as)
    BY <1>3 DEF KernelTables, TablesOf, teardown
  <1>5. PagesOwned' <=> PagesOwned
    BY <1>4 DEF PagesOwned
  <1>6. \A as : SpaceOK(as)' <=> SpaceOK(as)
    BY <1>3 DEF SpaceOK
  <1>7. \A as, v : UserEntry(as, v)' = UserEntry(as, v)
    BY <1>3 DEF UserEntry
  <1>8. QED
    BY <1>1, <1>2, <1>5, <1>6, <1>7 DEF VmeInv

(* What user code sees of a call of map: a change at one page of the       *)
(* space, or nothing, and then the machine panics.                         *)
MapSees(as, va, pa, w, unmap) ==
  \/ /\ panicked' = TRUE
     /\ \A v \in Index \X Index : UserEntry(as, v)' = UserEntry(as, v)
  \/ /\ panicked' = panicked /\ va \in UserVas
     /\ UserEntry(as, va).P = unmap
     /\ \A v \in Index \X Index :
          UserEntry(as, v)' = IF v = va THEN IF unmap THEN Zero ELSE Entry(pa, w, TRUE)
                                        ELSE UserEntry(as, v)

(* The spaces that a call for as leaves as they are. *)
OthersSee(as) ==
  \A bs \in live \ {as}, v \in Index \X Index : UserEntry(bs, v)' = UserEntry(bs, v)

(* map changes what user code sees at one page of one space, or the        *)
(* machine panics and it changes nothing user code sees.                   *)
LEMMA MapStep ==
  ASSUME VmeInv, kpt # NoPage, NEW as \in Spaces, NEW va \in Vas, NEW pa \in Frames,
         NEW w \in BOOLEAN, NEW unmap \in BOOLEAN, map(as, va, pa, w, unmap)
  PROVE  /\ VmeInv'
         /\ as \in live /\ live' = live
         /\ OthersSee(as) /\ MapSees(as, va, pa, w, unmap)
  <1> DEFINE new == IF unmap THEN Zero ELSE Entry(pa, w, TRUE)
  <1>1. as \in live /\ UNCHANGED <<kpt, ptr, live>>
    BY MapEffect
  <1>2. CASE UNCHANGED <<pt, used>> /\ panicked' = TRUE
    <2>1. panicked' \in BOOLEAN
      BY <1>2
    <2>2. /\ VmeInv'
          /\ \A bs \in live, v \in Index \X Index : UserEntry(bs, v)' = UserEntry(bs, v)
      BY <1>1, <1>2, <2>1, PanicStep
    <2>3. QED
      BY <1>1, <1>2, <2>2 DEF OthersSee, MapSees
  <1>3. CASE ~(UNCHANGED <<pt, used>> /\ panicked' = TRUE)
    <2>1. /\ va \in UserVas
          /\ \E t \in Pool \ {Directory(as)} : \E row \in [Index -> UserEntries] :
               Installed(as, va[1], t, row) /\ NewRow(as, va, pa, w, unmap, row)
      <3>1. MapOutcome(as, va, pa, w, unmap)
        BY MapEffect
      <3>2. QED
        BY <1>3, <3>1, Zenon DEF MapOutcome
    <2>2. PICK t \in Pool \ {Directory(as)} : \E row \in [Index -> UserEntries] :
            Installed(as, va[1], t, row) /\ NewRow(as, va, pa, w, unmap, row)
      BY <2>1
    <2>3. PICK row \in [Index -> UserEntries] :
            Installed(as, va[1], t, row) /\ NewRow(as, va, pa, w, unmap, row)
      BY <2>2
    <2>4. /\ va \in Index \X Index /\ va[1] \in Index \ KernelPd /\ va[2] \in Index
      BY <2>1, PoolFacts DEF UserVas
    <2>5. panicked' \in BOOLEAN
      BY <2>3 DEF NewRow, VmeInv, X86VmeTypeOK
    <2>6. /\ VmeInv'
          /\ \A bs \in live \ {as}, v \in Index \X Index : UserEntry(bs, v)' = UserEntry(bs, v)
          /\ \A v \in Index \X Index :
               UserEntry(as, v)' = IF v[1] = va[1] THEN row[v[2]] ELSE UserEntry(as, v)
      <3>1. VmeInv' /\ SeesRow(as, va[1], row)
        BY <1>1, <2>3, <2>4, <2>5, InstallStep
      <3>2. QED
        BY <3>1 DEF SeesRow
    <2>7. \A v \in Index \X Index :
             v[1] = va[1] => UserEntry(as, v) = OldRow(as, va[1])[v[2]]
      <3>1. KernelOK /\ SpaceOK(as)
        BY <1>1, TablesUsed
      <3>2. QED
        BY <2>4, <3>1, UserEntryIs
    <2>8. CASE row = OldRow(as, va[1]) /\ panicked' = TRUE
      <3>1. \A v \in Index \X Index : UserEntry(as, v)' = UserEntry(as, v)
        BY <2>6, <2>7, <2>8
      <3>2. QED
        BY <1>1, <2>6, <2>8, <3>1 DEF OthersSee, MapSees
    <2>9. CASE /\ row = [OldRow(as, va[1]) EXCEPT ![va[2]] = new]
               /\ OldRow(as, va[1])[va[2]].P = unmap
               /\ panicked' = panicked
      <3>1. UserEntry(as, va).P = unmap
        BY <2>4, <2>7, <2>9
      <3>2. DOMAIN OldRow(as, va[1]) = Index
        BY <2>9
      <3>3. ASSUME NEW v \in Index \X Index
            PROVE  UserEntry(as, v)' = IF v = va THEN new ELSE UserEntry(as, v)
        <4>1. v[2] \in Index /\ (v = va <=> v[1] = va[1] /\ v[2] = va[2])
          BY <2>4
        <4>2. row[v[2]] = IF v[2] = va[2] THEN new ELSE OldRow(as, va[1])[v[2]]
          BY <2>4, <2>9, <3>2, <4>1
        <4>3. QED
          BY <2>6, <2>7, <4>1, <4>2
      <3>4. QED
        BY <1>1, <2>1, <2>6, <2>9, <3>1, <3>3 DEF OthersSee, MapSees
    <2>10. QED
      BY <2>3, <2>8, <2>9 DEF NewRow
  <1>4. QED
    BY <1>2, <1>3

(* Every step keeps the invariant. *)
LEMMA VmeStep == VmeInv /\ [X86VmeNext]_vmeVars => VmeInv'
  <1> SUFFICES ASSUME VmeInv, [X86VmeNext]_vmeVars PROVE VmeInv'
    OBVIOUS
  <1>0. panicked \in BOOLEAN
    BY DEF VmeInv, X86VmeTypeOK
  <1>1. CASE UNCHANGED vmeVars
    BY <1>0, <1>1, PanicStep DEF vmeVars
  <1>2. CASE vme_init
    BY <1>2, VmeInitStep
  <1>3. ASSUME kpt # NoPage, ~panicked, NEW as \in Spaces, protect(as) PROVE VmeInv'
    <2>1. CASE panic
      BY <2>1, PanicStep DEF panic
    <2>2. CASE ~panic
      <3>1. panicked' = panicked /\ panicked = FALSE
        BY <1>0, <1>3, <2>2 DEF protect
      <3>2. QED
        BY <1>3, <3>1, ProtectStep
    <2>3. QED
      BY <2>1, <2>2
  <1>4. ASSUME kpt # NoPage, NEW as \in Spaces, unprotect(as) PROVE VmeInv'
    BY <1>4, UnprotectStep
  <1>5. ASSUME kpt # NoPage, NEW as \in Spaces, NEW va \in Vas, NEW pa \in Frames,
               NEW w \in BOOLEAN, NEW unmap \in BOOLEAN, map(as, va, pa, w, unmap)
        PROVE  VmeInv'
    BY <1>5, MapStep
  <1>6. QED
    BY <1>1, <1>2, <1>3, <1>4, <1>5 DEF X86VmeNext

(* The page tables of the x86 machine (vme.c): every page given out is a   *)
(* table of the kernel or of exactly one live space, none is leaked or     *)
(* freed under a user, and every space maps the kernel.                    *)
THEOREM PageTablesSound ==
  X86VmeSpec => [](X86VmeTypeOK /\ TablesOwned /\ KernelEverywhere)
  <1>1. VmeInv => X86VmeTypeOK /\ TablesOwned /\ KernelEverywhere
    <2> SUFFICES ASSUME VmeInv PROVE X86VmeTypeOK /\ TablesOwned /\ KernelEverywhere
      OBVIOUS
    <2>1. X86VmeTypeOK
      BY DEF VmeInv
    <2>2. TablesOwned
      BY OwnedPageByPage DEF TablesOwned
    <2>3. ASSUME NEW as \in live, NEW i \in KernelPd
          PROVE  /\ pt[Directory(as)][i] = pt[kpt][i]
                 /\ \A j \in Index : pt[pt[kpt][i].base][j] = Entry(Identity, TRUE, FALSE)
      <3>1. KernelOK /\ SpaceOK(as)
        BY DEF VmeInv
      <3>2. PICK t \in Pool :
              /\ pt[kpt][i] = Entry(t, TRUE, FALSE)
              /\ pt[t] = [j \in Index |-> Entry(Identity, TRUE, FALSE)]
        BY <3>1 DEF KernelOK
      <3>3. pt[kpt][i].base = t
        BY <3>2 DEF Entry
      <3>4. QED
        BY <3>1, <3>2, <3>3 DEF SpaceOK
    <2>4. QED
      BY <2>1, <2>2, <2>3 DEF KernelEverywhere
  <1>2. QED
    BY <1>1, VmeInitInv, VmeStep, PTL DEF X86VmeSpec

-----------------------------------------------------------------------------
(* The tables implement address spaces *)

(* The address spaces that the tables stand for. *)
SpaceMap == [as \in Spaces |-> IF as \in live THEN Translation(as) ELSE [v \in {} |-> v]]

(* The translation of a space has a page exactly where user code finds a   *)
(* present entry.                                                          *)
LEMMA TranslationFacts ==
  ASSUME NEW as
  PROVE  /\ Translation(as) = [v \in DOMAIN Translation(as) |-> Translation(as)[v]]
         /\ \A v : v \in DOMAIN Translation(as) <=>
               v \in Index \X Index /\ UserEntry(as, v).P /\ UserEntry(as, v).U
         /\ \A v \in DOMAIN Translation(as) :
               Translation(as)[v] = <<UserEntry(as, v).base, UserEntry(as, v).W>>
  BY DEF Translation

(* A space in which user code finds the same entries translates alike.     *)
LEMMA TranslationKept ==
  ASSUME NEW as, \A v \in Index \X Index : UserEntry(as, v)' = UserEntry(as, v)
  PROVE  Translation(as)' = Translation(as)
  <1>1. {v \in Index \X Index : UserEntry(as, v)'.P /\ UserEntry(as, v)'.U}
          = {v \in Index \X Index : UserEntry(as, v).P /\ UserEntry(as, v).U}
    OBVIOUS
  <1>2. QED
    BY <1>1 DEF Translation

(* A step in which every live space keeps its entries maps to no change.   *)
LEMMA SpacesKept ==
  ASSUME live' = live,
         \A as \in live, v \in Index \X Index : UserEntry(as, v)' = UserEntry(as, v)
  PROVE  SpaceMap' = SpaceMap
  <1>1. \A as \in live : Translation(as)' = Translation(as)
    BY TranslationKept
  <1>2. QED
    BY <1>1 DEF SpaceMap

(* protect adds a space that maps nothing. *)
LEMMA ProtectRefines ==
  ASSUME VmeInv, kpt # NoPage, NEW as \in Spaces, protect(as), panicked' = panicked,
         panicked = FALSE
  PROVE  AS!Protect(as)
  <1>1. /\ as \notin live /\ live' = live \cup {as}
        /\ \A bs \in live, v \in Index \X Index : UserEntry(bs, v)' = UserEntry(bs, v)
        /\ \A v \in Index \X Index : ~(UserEntry(as, v)'.P /\ UserEntry(as, v)'.U)
    BY ProtectStep
  <1>2. \A bs \in live : Translation(bs)' = Translation(bs)
    BY <1>1, TranslationKept
  <1>3. Translation(as)' = [v \in {} |-> v]
    <2>1. {v \in Index \X Index : UserEntry(as, v)'.P /\ UserEntry(as, v)'.U} = {}
      BY <1>1
    <2>2. QED
      BY <2>1 DEF Translation
  <1>4. SpaceMap' = SpaceMap
    BY <1>1, <1>2, <1>3 DEF SpaceMap
  <1>5. QED
    BY <1>1, <1>4 DEF AS!Protect, SpaceMap

(* unprotect removes a space and leaves the others. *)
LEMMA UnprotectRefines ==
  ASSUME VmeInv, kpt # NoPage, NEW as \in Spaces, unprotect(as)
  PROVE  AS!Unprotect(as)
  <1>1. /\ as \in live /\ live' = live \ {as}
        /\ \A bs \in live \ {as}, v \in Index \X Index : UserEntry(bs, v)' = UserEntry(bs, v)
    BY UnprotectStep
  <1>2. \A bs \in live \ {as} : Translation(bs)' = Translation(bs)
    BY <1>1, TranslationKept
  <1>3. SpaceMap' = [SpaceMap EXCEPT ![as] = [v \in {} |-> v]]
    BY <1>1, <1>2 DEF SpaceMap
  <1>4. panicked' = panicked
    BY DEF unprotect
  <1>5. QED
    BY <1>1, <1>3, <1>4 DEF AS!Unprotect, AS!Nothing, SpaceMap

(* map with another prot than MMAP_NONE adds one page to one space, with   *)
(* MMAP_NONE it removes one, or the machine panics.                        *)
LEMMA MapRefines ==
  ASSUME VmeInv, kpt # NoPage, NEW as \in Spaces, NEW va \in Vas, NEW pa \in Frames,
         NEW w \in BOOLEAN, NEW unmap \in BOOLEAN, map(as, va, pa, w, unmap)
  PROVE  \/ AS!Panic
         \/ va \in UserVas /\ ~unmap /\ AS!Map(as, va, <<pa, w>>)
         \/ va \in UserVas /\ unmap /\ AS!Unmap(as, va)
  <1> DEFINE new == IF unmap THEN Zero ELSE Entry(pa, w, TRUE)
  <1>0. as \in live /\ live' = live /\ OthersSee(as) /\ MapSees(as, va, pa, w, unmap)
    BY MapStep
  <1>1. /\ as \in live /\ live' = live
        /\ \A bs \in live \ {as}, v \in Index \X Index : UserEntry(bs, v)' = UserEntry(bs, v)
    BY <1>0 DEF OthersSee
  <1>2. \A bs \in live \ {as} : Translation(bs)' = Translation(bs)
    BY <1>1, TranslationKept
  <1>3. CASE /\ panicked' = TRUE
             /\ \A v \in Index \X Index : UserEntry(as, v)' = UserEntry(as, v)
    <2>1. \A bs \in live, v \in Index \X Index : UserEntry(bs, v)' = UserEntry(bs, v)
      BY <1>1, <1>3
    <2>2. SpaceMap' = SpaceMap
      BY <1>1, <2>1, SpacesKept
    <2>3. QED
      BY <1>1, <1>3, <2>2 DEF AS!Panic, SpaceMap
  <1>4. CASE /\ panicked' = panicked /\ va \in UserVas
             /\ UserEntry(as, va).P = unmap
             /\ \A v \in Index \X Index :
                  UserEntry(as, v)' = IF v = va THEN new ELSE UserEntry(as, v)
    <2> DEFINE D == {v \in Index \X Index : UserEntry(as, v).P /\ UserEntry(as, v).U}
               E == {v \in Index \X Index : UserEntry(as, v)'.P /\ UserEntry(as, v)'.U}
    <2>0. /\ va \in Index \X Index /\ Translation(as)' = [v \in E |->
               <<UserEntry(as, v)'.base, UserEntry(as, v)'.W>>]
          /\ Translation(as) = [v \in D |-> <<UserEntry(as, v).base, UserEntry(as, v).W>>]
      BY PoolFacts DEF Translation
    <2>1. SpaceMap' = [SpaceMap EXCEPT ![as] = Translation(as)'] /\ SpaceMap[as] = Translation(as)
      BY <1>1, <1>2 DEF SpaceMap
    <2>2. CASE unmap
      <3>1. va \in D
        <4>1. KernelOK /\ SpaceOK(as)
          BY <1>1, TablesUsed
        <4>2. UserEntry(as, va) \in UserEntries
          BY <2>0, <4>1, UserEntryIs
        <4>3. UserEntry(as, va).P /\ UserEntry(as, va).U
          BY <1>4, <2>2, <4>2, UserEntryFacts
        <4>4. QED
          BY <2>0, <4>3
      <3>2. E = D \ {va}
        <4>1. ~UserEntry(as, va)'.P
          BY <1>4, <2>0, <2>2, ZeroAbsent
        <4>2. \A v \in Index \X Index : v # va => UserEntry(as, v)' = UserEntry(as, v)
          BY <1>4
        <4>3. QED
          BY <4>1, <4>2
      <3>3. Translation(as)' = [v \in D \ {va} |-> Translation(as)[v]]
        <4>1. \A v \in D \ {va} : UserEntry(as, v)' = UserEntry(as, v)
          BY <1>4
        <4> HIDE DEF D, E
        <4>2. \A v \in D \ {va} :
                 <<UserEntry(as, v)'.base, UserEntry(as, v)'.W>> = Translation(as)[v]
          BY <2>0, <4>1
        <4>3. [v \in E |-> <<UserEntry(as, v)'.base, UserEntry(as, v)'.W>>]
                = [v \in D \ {va} |-> Translation(as)[v]]
          BY <3>2, <4>2
        <4>4. QED
          BY <2>0, <4>3
      <3>4. QED
        <4>1. DOMAIN SpaceMap[as] = D
          BY <2>0, <2>1
        <4> HIDE DEF D, E
        <4>2. SpaceMap' = [SpaceMap EXCEPT ![as] =
                             [v \in DOMAIN SpaceMap[as] \ {va} |-> SpaceMap[as][v]]]
          BY <2>1, <3>3, <4>1
        <4>3. va \in DOMAIN SpaceMap[as]
          BY <3>1, <4>1
        <4>4. AS!Unmap(as, va)
          BY <1>1, <1>4, <4>2, <4>3 DEF AS!Unmap, SpaceMap
        <4>5. QED
          BY <1>4, <2>2, <4>4
    <2>3. CASE ~unmap
      <3>1. va \notin D
        BY <1>4, <2>3
      <3>2. UserEntry(as, va)' = Entry(pa, w, TRUE)
        BY <1>4, <2>0, <2>3
      <3>3. /\ UserEntry(as, va)'.P /\ UserEntry(as, va)'.U
            /\ UserEntry(as, va)'.base = pa /\ UserEntry(as, va)'.W = w
        BY <3>2 DEF Entry
      <3>4. \A v \in Index \X Index : v # va => UserEntry(as, v)' = UserEntry(as, v)
        BY <1>4
      <3>5. E = D \cup {va}
        BY <2>0, <3>3, <3>4
      <3>6. Translation(as)' =
              [v \in D \cup {va} |-> IF v = va THEN <<pa, w>> ELSE Translation(as)[v]]
        <4>1. \A v \in D : v # va /\ UserEntry(as, v)' = UserEntry(as, v)
          BY <3>1, <3>4
        <4> HIDE DEF D, E
        <4>2. \A v \in D :
                 <<UserEntry(as, v)'.base, UserEntry(as, v)'.W>> = Translation(as)[v]
          BY <2>0, <4>1
        <4>3. <<UserEntry(as, va)'.base, UserEntry(as, va)'.W>> = <<pa, w>>
          BY <3>3
        <4>4. [v \in E |-> <<UserEntry(as, v)'.base, UserEntry(as, v)'.W>>]
                = [v \in D \cup {va} |-> IF v = va THEN <<pa, w>> ELSE Translation(as)[v]]
          BY <3>5, <4>1, <4>2, <4>3
        <4>5. QED
          BY <2>0, <4>4
      <3>7. QED
        BY <1>1, <1>4, <2>0, <2>1, <2>3, <3>1, <3>6 DEF AS!Map, SpaceMap
    <2>4. QED
      BY <2>2, <2>3
  <1>5. QED
    BY <1>0, <1>3, <1>4 DEF MapSees

(* The page tables (protect, unprotect and map of vme.c) implement the     *)
(* address spaces of the machine's interface: a call changes what user     *)
(* code sees at one page of one space, whatever tables it had to allocate. *)
THEOREM TablesImplementSpaces == X86VmeSpec => ImplementsAddressSpaces
  <1>1. X86VmeInit => AS!ASInit
    BY DEF X86VmeInit, AS!ASInit, AS!Nothing
  <1>2. VmeInv /\ [X86VmeNext]_vmeVars => [AS!ASNext]_(AS!spaceVars)
    <2> SUFFICES ASSUME VmeInv, [X86VmeNext]_vmeVars PROVE [AS!ASNext]_(AS!spaceVars)
      OBVIOUS
    <2>0. panicked \in BOOLEAN
      BY DEF VmeInv, X86VmeTypeOK
    <2>1. CASE UNCHANGED vmeVars
      <3>1. /\ UNCHANGED <<pt, used, kpt, ptr, live, panicked>>
            /\ \A as \in live, v \in Index \X Index : UserEntry(as, v)' = UserEntry(as, v)
        BY <2>0, <2>1, PanicStep DEF vmeVars
      <3>2. SpaceMap' = SpaceMap
        BY <3>1, SpacesKept
      <3>3. QED
        BY <3>1, <3>2 DEF AS!spaceVars, SpaceMap
    <2>2. CASE ~panicked /\ vme_init
      <3>1. live = {} /\ live' = {} /\ panicked' = panicked
        BY <2>2 DEF VmeInv, vme_init
      <3>2. SpaceMap' = SpaceMap
        BY <3>1, SpacesKept
      <3>3. QED
        BY <3>1, <3>2 DEF AS!spaceVars, SpaceMap
    <2>3. ASSUME kpt # NoPage, ~panicked, NEW as \in Spaces, protect(as) PROVE AS!ASNext
      <3>1. CASE panic
        <4>1. /\ UNCHANGED <<pt, used, kpt, ptr, live>> /\ panicked' = TRUE
              /\ \A bs \in live, v \in Index \X Index : UserEntry(bs, v)' = UserEntry(bs, v)
          BY <3>1, PanicStep DEF panic
        <4>2. SpaceMap' = SpaceMap
          BY <4>1, SpacesKept
        <4>3. AS!Panic
          BY <4>1, <4>2 DEF AS!Panic, SpaceMap
        <4>4. QED
          BY <2>3, <4>3 DEF AS!ASNext
      <3>2. CASE ~panic
        <4>1. panicked' = panicked /\ panicked = FALSE
          BY <2>0, <2>3, <3>2 DEF protect
        <4>2. AS!Protect(as)
          BY <2>3, <4>1, ProtectRefines
        <4>3. QED
          BY <2>3, <4>2 DEF AS!ASNext
      <3>3. QED
        BY <3>1, <3>2
    <2>4. ASSUME kpt # NoPage, ~panicked, NEW as \in Spaces, unprotect(as) PROVE AS!ASNext
      <3>1. AS!Unprotect(as)
        BY <2>4, UnprotectRefines
      <3>2. QED
        BY <2>4, <3>1 DEF AS!ASNext
    <2>5. ASSUME kpt # NoPage, ~panicked, NEW as \in Spaces, NEW va \in Vas, NEW pa \in Frames,
                 NEW w \in BOOLEAN, NEW unmap \in BOOLEAN, map(as, va, pa, w, unmap)
          PROVE  AS!ASNext
      <3>1. \/ AS!Panic
            \/ va \in UserVas /\ ~unmap /\ AS!Map(as, va, <<pa, w>>)
            \/ va \in UserVas /\ unmap /\ AS!Unmap(as, va)
        BY <2>5, MapRefines
      <3>2. CASE AS!Panic
        BY <2>5, <3>2 DEF AS!ASNext
      <3>3. CASE va \in UserVas /\ AS!Map(as, va, <<pa, w>>)
        <4>1. <<pa, w>> \in AS!Target
          BY DEF AS!Target
        <4>2. QED
          BY <2>5, <3>3, <4>1 DEF AS!ASNext
      <3>4. CASE va \in UserVas /\ AS!Unmap(as, va)
        BY <2>5, <3>4 DEF AS!ASNext
      <3>5. QED
        BY <3>1, <3>2, <3>3, <3>4
    <2>6. QED
      BY <2>1, <2>2, <2>3, <2>4, <2>5 DEF X86VmeNext
  <1>3. QED
    BY <1>1, <1>2, VmeInitInv, VmeStep, PTL DEF X86VmeSpec, AS!ASSpec, ImplementsAddressSpaces

-----------------------------------------------------------------------------
(* The instruction trace *)

(* The write position moves on by one and wraps at the end of the pool.    *)
LEMMA Wrap ==
  ASSUME NEW p \in Slots
  PROVE  /\ (p + 1) % ITRACE_POOL_SIZE \in Slots
         /\ (p + 1) % ITRACE_POOL_SIZE =
              IF p = ITRACE_POOL_SIZE - 1 THEN 0 ELSE p + 1
  BY PoolAssumption DEF Slots

(* The pool, its write position and its flag keep their types.             *)
LEMMA TraceStepTypeOK ==
  ASSUME TraceTypeOK, NEW e \in TraceEntry, instr_itrace(e)
  PROVE  TraceTypeOK'
  BY Wrap DEF TraceTypeOK, instr_itrace

(* The write position never leaves the pool (instr_trace.c:25).            *)
THEOREM TraceTypeCorrect == Spec => []TraceTypeOK
  <1>1. Init => TraceTypeOK
    <2> SUFFICES ASSUME Init
                 PROVE  TraceTypeOK
      OBVIOUS
    <2>1. itrace_ptr \in Slots
      BY PoolAssumption DEF Init, Slots
    <2>2. itrace_pool \in [Slots -> TraceEntry \union {ZeroEntry}]
      BY DEF Init
    <2>3. pool_full \in BOOLEAN
      BY Zenon DEF Init
    <2>4. QED
      BY <2>1, <2>2, <2>3 DEF TraceTypeOK
  <1>2. TraceTypeOK /\ [Next]_traceVars => TraceTypeOK'
    <2> SUFFICES ASSUME TraceTypeOK, [Next]_traceVars
                 PROVE  TraceTypeOK'
      OBVIOUS
    <2>1. CASE Next
      BY <2>1, TraceStepTypeOK DEF Next
    <2>2. CASE UNCHANGED traceVars
      BY <2>2 DEF TraceTypeOK, traceVars
    <2>3. QED
      BY <2>1, <2>2
  <1>3. QED
    BY <1>1, <1>2, PTL DEF Spec

(* The slot of the k-th line, counted from slot q around the end of the    *)
(* pool.                                                                   *)
SlotAt(q, k) ==
  IF q + k - 1 < ITRACE_POOL_SIZE THEN q + k - 1 ELSE q + k - 1 - ITRACE_POOL_SIZE

(* The modulo of the display loop is one subtraction at most.              *)
LEMMA SlotOfLine ==
  ASSUME NEW q \in Slots, NEW k \in 1 .. ITRACE_POOL_SIZE
  PROVE  /\ (q + k - 1) % ITRACE_POOL_SIZE = SlotAt(q, k)
         /\ SlotAt(q, k) \in Slots
         /\ q = 0 => SlotAt(q, k) = k - 1
  BY PoolAssumption DEF Slots, SlotAt

(* Tracing an instruction records it in the log.                           *)
LEMMA TraceRecords ==
  ASSUME TraceTypeOK, NEW e \in TraceEntry, instr_itrace(e)
  PROVE  Log!Record(e)
  <1> DEFINE N == ITRACE_POOL_SIZE
             p == itrace_ptr
             E == TraceEntry \union {ZeroEntry}
  <1>1. TraceTypeOK' /\ N \in Nat \ {0} /\ p \in Slots /\ e \in E
    BY TraceStepTypeOK, PoolAssumption DEF TraceTypeOK
  <1>2. /\ itrace_pool' = [itrace_pool EXCEPT ![p] = e]
        /\ itrace_ptr' = IF p = N - 1 THEN 0 ELSE p + 1
        /\ pool_full' = (pool_full \/ itrace_ptr' = 0)
    BY <1>1, Wrap DEF instr_itrace
  <1>3. itrace_pool \in [Slots -> E] /\ itrace_pool' \in [Slots -> E]
    BY <1>1 DEF TraceTypeOK
  <1>4. CASE ~pool_full
    <2>1. Displayed = [k \in 1 .. p |-> itrace_pool[k - 1]]
      <3>1. 0 \in Slots /\ \A k \in 1 .. p : k \in 1 .. N
        BY <1>1 DEF Slots
      <3>2. \A k \in 1 .. p : (0 + k - 1) % N = k - 1
        BY <3>1, SlotOfLine
      <3>3. QED
        BY <1>4, <3>2 DEF Displayed, total, first_idx
    <2>2. Displayed \in Seq(E) /\ Len(Displayed) = p
      BY <1>1, <1>3, <2>1 DEF Slots
    <2>3. Append(Displayed, e) =
            [k \in 1 .. p + 1 |-> IF k = p + 1 THEN e ELSE itrace_pool[k - 1]]
      BY <1>1, <2>1, <2>2 DEF Slots
    <2>4. \A k \in 1 .. p + 1 :
            itrace_pool'[k - 1] = IF k = p + 1 THEN e ELSE itrace_pool[k - 1]
      BY <1>1, <1>2, <1>3 DEF Slots
    <2>5. CASE p = N - 1
      <3>1. pool_full' /\ itrace_ptr' = 0
        BY <1>1, <1>2, <2>5
      <3>2. 0 \in Slots /\ p + 1 = N
        BY <1>1, <2>5 DEF Slots
      <3>3. \A k \in 1 .. N : (0 + k - 1) % N = k - 1
        BY <3>2, SlotOfLine
      <3>4. Displayed' = [k \in 1 .. p + 1 |-> itrace_pool'[k - 1]]
        BY <3>1, <3>2, <3>3 DEF Displayed, total, first_idx
      <3>5. Displayed' = Append(Displayed, e)
        BY <2>3, <2>4, <3>4
      <3>6. QED
        BY <1>1, <2>2, <2>5, <3>5 DEF Log!Record, Slots
    <2>6. CASE p # N - 1
      <3>1. itrace_ptr' = p + 1 /\ itrace_ptr' # 0
        BY <1>1, <1>2, <2>6 DEF Slots
      <3>2. ~pool_full'
        BY <1>2, <1>4, <3>1, Zenon
      <3>3. 0 \in Slots /\ p + 1 \in Slots /\ \A k \in 1 .. p + 1 : k \in 1 .. N
        BY <1>1, <2>6 DEF Slots
      <3>4. \A k \in 1 .. p + 1 : (0 + k - 1) % N = k - 1
        BY <3>3, SlotOfLine
      <3>5. Displayed' = [k \in 1 .. p + 1 |-> itrace_pool'[k - 1]]
        BY <3>1, <3>2, <3>4 DEF Displayed, total, first_idx
      <3>6. Displayed' = Append(Displayed, e)
        BY <2>3, <2>4, <3>5
      <3>7. QED
        BY <1>1, <2>2, <3>3, <3>6 DEF Log!Record, Slots
    <2>7. QED
      BY <2>5, <2>6
  <1>5. CASE pool_full
    <2>1. \A k \in 1 .. N : /\ (p + k - 1) % N = SlotAt(p, k)
                             /\ SlotAt(p, k) \in Slots
                             /\ (itrace_ptr' + k - 1) % N = SlotAt(itrace_ptr', k)
      BY <1>1, SlotOfLine DEF TraceTypeOK
    <2>2. Displayed = [k \in 1 .. N |-> itrace_pool[SlotAt(p, k)]]
      BY <1>5, <2>1 DEF Displayed, total, first_idx
    <2>3. Displayed' = [k \in 1 .. N |-> itrace_pool'[SlotAt(itrace_ptr', k)]]
      <3>1. pool_full'
        BY <1>2, <1>5
      <3>2. QED
        BY <2>1, <3>1 DEF Displayed, total, first_idx
    <2>4. Displayed \in Seq(E) /\ Len(Displayed) = N
      BY <1>1, <1>3, <2>1, <2>2
    <2>5. Append(Tail(Displayed), e) =
            [k \in 1 .. N |-> IF k = N THEN e ELSE Displayed[k + 1]]
      <3>1. Displayed # <<>>
        BY <1>1, <2>4
      <3>2. /\ Tail(Displayed) \in Seq(E)
            /\ Len(Tail(Displayed)) = N - 1
            /\ \A k \in 1 .. N - 1 : Tail(Displayed)[k] = Displayed[k + 1]
        BY <1>1, <2>4, <3>1, HeadTailProperties
      <3> DEFINE A == Append(Tail(Displayed), e)
      <3>3. /\ A \in Seq(E)
            /\ Len(A) = Len(Tail(Displayed)) + 1
            /\ \A k \in 1 .. Len(Tail(Displayed)) : A[k] = Tail(Displayed)[k]
            /\ A[Len(Tail(Displayed)) + 1] = e
        BY <1>1, <3>2, AppendProperties
      <3>4. Len(A) = N /\ A[N] = e /\ \A k \in 1 .. N - 1 : A[k] = Displayed[k + 1]
        BY <1>1, <3>2, <3>3
      <3> HIDE DEF A
      <3>5. A = [k \in 1 .. N |-> A[k]]
        BY <3>3, <3>4
      <3>6. QED
        BY <1>1, <3>4, <3>5 DEF A
    <2>6. \A k \in 1 .. N :
            itrace_pool'[SlotAt(itrace_ptr', k)] = IF k = N THEN e ELSE Displayed[k + 1]
      <3> SUFFICES ASSUME NEW k \in 1 .. N
                   PROVE  itrace_pool'[SlotAt(itrace_ptr', k)] =
                            IF k = N THEN e ELSE Displayed[k + 1]
        OBVIOUS
      <3>1. CASE k = N
        <4>1. SlotAt(itrace_ptr', k) = p
          BY <1>1, <1>2, <3>1 DEF Slots, SlotAt
        <4>2. QED
          BY <1>1, <1>2, <1>3, <3>1, <4>1
      <3>2. CASE k # N
        <4>1. /\ k + 1 \in 1 .. N
              /\ SlotAt(itrace_ptr', k) = SlotAt(p, k + 1)
              /\ SlotAt(p, k + 1) # p
          BY <1>1, <1>2, <3>2 DEF Slots, SlotAt
        <4>2. QED
          BY <1>2, <1>3, <2>1, <2>2, <3>2, <4>1
      <3>3. QED
        BY <3>1, <3>2
    <2>7. QED
      <3>1. Displayed' = Append(Tail(Displayed), e)
        BY <2>3, <2>5, <2>6
      <3>2. QED
        BY <1>1, <2>4, <3>1 DEF Log!Record
  <1>6. QED
    BY <1>4, <1>5

(* What instr_itrace_display prints is always the log of the most recent   *)
(* instructions: nothing lost, repeated or out of order, at every fill     *)
(* level and after every wrap.                                             *)
THEOREM TraceImplementsLog == Spec => DisplaysRecent
  <1>1. Init => Log!Init
    <2> SUFFICES ASSUME Init
                 PROVE  Displayed = <<>>
      BY DEF Log!Init
    <2>1. total = 0
      BY DEF Init, total
    <2>2. QED
      BY <2>1 DEF Displayed
  <1>2. TraceTypeOK /\ [Next]_traceVars => [Log!Next]_Displayed
    <2> SUFFICES ASSUME TraceTypeOK, [Next]_traceVars
                 PROVE  [Log!Next]_Displayed
      OBVIOUS
    <2>1. CASE Next
      BY <2>1, TraceRecords DEF Next, Log!Next
    <2>2. CASE UNCHANGED traceVars
      BY <2>2 DEF traceVars, Displayed, total, first_idx
    <2>3. QED
      BY <2>1, <2>2
  <1>3. QED
    BY TraceTypeCorrect, <1>1, <1>2, PTL DEF Spec, Log!Spec, DisplaysRecent

-----------------------------------------------------------------------------
(* Contexts *)

(* protect sets as->ptr to the new directory with PTE_P and PTE_U, which   *)
(* is never NULL (vme.c:134).                                              *)
SpacesAllocated == \A t \in UThreads : SpaceOf(t) # NULL

(* A user thread's saved context is the one ucontext made, as far as its   *)
(* address space and its stack go: every trap saves what it runs with.     *)
SavedContexts == \A t \in UserThreads : ctx[t] = ucontext(t)

(* The user handler never resumes a thread that another CPU runs. *)
RunsOnce == \A c, d \in Cpus : cur[c] = cur[d] => c = d

CteInv == X86CteTypeOK /\ RunsInOwnSpace /\ SavedContexts /\ RunsOnce

(* What kcontext and ucontext make is a context, and a user thread is not  *)
(* what a CPU runs before its first switch.                                *)
LEMMA ContextFacts ==
  /\ \A t \in UserThreads : t \in Threads /\ ucontext(t) \in Context
  /\ \A t \in Threads : kcontext(t) \in Context
  /\ \A c \in Cpus : Boot(c) \in Threads /\ Boot(c) \notin UserThreads
  BY DEF UserThreads, Threads, Context, ucontext, kcontext, Stacks, Boot, Created

(* At the start every CPU runs its boot thread, in no space (cte.c:161). *)
LEMMA CteInitInv == X86CteInit => CteInv
  <1> SUFFICES ASSUME X86CteInit PROVE CteInv
    OBVIOUS
  <1>1. X86CteTypeOK
    BY ContextFacts DEF X86CteInit, X86CteTypeOK, Stacks
  <1>2. RunsInOwnSpace
    BY ContextFacts DEF X86CteInit, RunsInOwnSpace
  <1>3. SavedContexts
    BY ContextFacts DEF X86CteInit, SavedContexts
  <1>4. RunsOnce
    BY DEF X86CteInit, RunsOnce, Boot
  <1>5. QED
    BY <1>1, <1>2, <1>3, <1>4 DEF CteInv

(* A trap saves a user thread with its own space and stack, and resumes    *)
(* one with what its context holds.                                        *)
LEMMA TrapKeepsInv ==
  ASSUME SpacesAllocated, CteInv, NEW c \in Cpus, __am_irq_handle(c)
  PROVE  CteInv'
  <1> USE DEF CteInv
  <1>1. PICK next \in user_handler(c) :
          /\ ctx' = SaveContext(c)
          /\ Resume(c, SaveContext(c)[next])
          /\ cur' = [cur EXCEPT ![c] = next]
    BY DEF __am_irq_handle
  <1>2. next \in Threads /\ \A d \in Cpus \ {c} : cur[d] # next
    BY DEF user_handler, X86CteTypeOK, RunsOnce
  <1>3. cur[c] \in Threads /\ cr3[c] \in {NULL, Kernel} \cup {Space(t) : t \in UserThreads}
        /\ esp0[c] \in Stacks
    BY DEF X86CteTypeOK
  <1>4. ctx' \in [Threads -> Context]
    BY <1>1, <1>3 DEF X86CteTypeOK, SaveContext, Context
  <1>5. X86CteTypeOK'
    <2>1. cur' \in [Cpus -> Threads]
      BY <1>1, <1>2 DEF X86CteTypeOK
    <2>2. SaveContext(c)[next] \in Context
      BY <1>1, <1>2, <1>4
    <2>3. cr3' \in [Cpus -> {NULL, Kernel} \cup {Space(t) : t \in UserThreads}]
          /\ esp0' \in [Cpus -> Stacks]
      BY <1>1, <2>2 DEF X86CteTypeOK, Resume, Context
    <2>4. QED
      BY <1>4, <2>1, <2>3 DEF X86CteTypeOK
  <1>6. SavedContexts'
    <2> SUFFICES ASSUME NEW t \in UserThreads PROVE ctx'[t] = ucontext(t)
      BY DEF SavedContexts
    <2>1. t \in Threads
      BY ContextFacts
    <2>2. CASE t = cur[c]
      BY <1>1, <2>1, <2>2 DEF SaveContext, X86CteTypeOK, RunsInOwnSpace, ucontext
    <2>3. CASE t # cur[c]
      BY <1>1, <2>1, <2>3 DEF SaveContext, X86CteTypeOK, SavedContexts
    <2>4. QED
      BY <2>2, <2>3
  <1>7. RunsInOwnSpace'
    <2> SUFFICES ASSUME NEW d \in Cpus, cur'[d] \in UserThreads
                 PROVE  cr3'[d] = Space(cur'[d]) /\ esp0'[d] = cur'[d]
      BY DEF RunsInOwnSpace
    <2>1. CASE d # c
      BY <1>1, <2>1 DEF X86CteTypeOK, RunsInOwnSpace, Resume
    <2>2. CASE d = c
      <3>1. cur'[d] = next
        BY <1>1, <2>2 DEF X86CteTypeOK
      <3>2. SaveContext(c)[next] = ucontext(next)
        BY <1>1, <1>6, <3>1 DEF SavedContexts
      <3>3. Space(next) # NULL
        BY <3>1 DEF SpacesAllocated, UserThreads, Space, Created
      <3>4. QED
        BY <1>1, <2>2, <3>1, <3>2, <3>3 DEF Resume, ucontext, X86CteTypeOK
    <2>3. QED
      BY <2>1, <2>2
  <1>8. RunsOnce'
    BY <1>1, <1>2 DEF RunsOnce, X86CteTypeOK
  <1>9. QED
    BY <1>5, <1>6, <1>7, <1>8

(* The invariant holds in every state of every machine. *)
LEMMA CteInvariant == ASSUME SpacesAllocated PROVE X86CteSpec => []CteInv
  <1>1. CteInv /\ [X86CteNext]_cteVars => CteInv'
    <2> SUFFICES ASSUME CteInv, [X86CteNext]_cteVars PROVE CteInv'
      OBVIOUS
    <2>1. CASE X86CteNext
      BY <2>1, TrapKeepsInv DEF X86CteNext
    <2>2. CASE UNCHANGED cteVars
      BY <2>2 DEF cteVars, CteInv, X86CteTypeOK, RunsInOwnSpace, SavedContexts, RunsOnce
    <2>3. QED
      BY <2>1, <2>2
  <1>2. QED
    BY <1>1, CteInitInv, PTL DEF X86CteSpec

(* A user thread always runs in its own address space with its own kernel  *)
(* stack, on whichever CPU and after whichever kernel threads it is        *)
(* resumed (cte.c:19-106, vme.c:158-181).                                  *)
THEOREM UserThreadsKeepTheirSpace ==
  ASSUME SpacesAllocated PROVE X86CteSpec => [](X86CteTypeOK /\ RunsInOwnSpace)
  <1>1. CteInv => X86CteTypeOK /\ RunsInOwnSpace
    BY DEF CteInv
  <1>2. QED
    BY <1>1, CteInvariant, PTL

(* No two CPUs that run user threads trap onto one kernel stack, although  *)
(* they share all contexts.                                                *)
TrapStacksDistinct ==
  \A c, d \in Cpus :
    c # d /\ cur[c] \in UserThreads /\ cur[d] \in UserThreads => esp0[c] # esp0[d]

(* User threads on different CPUs never trap onto one stack (cte.c:88-93). *)
THEOREM NoSharedTrapStack ==
  ASSUME SpacesAllocated PROVE X86CteSpec => []TrapStacksDistinct
  <1>1. CteInv => TrapStacksDistinct
    BY DEF CteInv, RunsInOwnSpace, RunsOnce, TrapStacksDistinct
  <1>2. QED
    BY <1>1, CteInvariant, PTL

-----------------------------------------------------------------------------
(* Snapshots *)

(* The file holds pieces of one state only, that of the last save that     *)
(* opened it, however much of it got written.                              *)
FileFromOneMoment ==
  /\ \A i \in DOMAIN file : file[i] = opened
  /\ ~exists => file = <<>>

(* Unless restoring has just failed, CPU and memory are of one moment: the *)
(* state that take_arch_snapshot saves is whole.                           *)
StateWhole == ret # "not_restored" => \A i \in 1 .. Blocks : mem[i] = cpu

SnapInv == SnapshotTypeOK /\ FileFromOneMoment /\ StateWhole /\ RestoresOneMoment

(* What reaches the disk of a state: pieces of its moment only. *)
LEMMA Written ==
  ASSUME NEW t \in Moments, NEW n \in 0 .. Blocks + 1
  PROVE  SubSeq(Whole(t), 1, n) \in [1 .. n -> {t}]
  <1>1. Blocks \in Nat
    BY SnapshotAssumption
  <1>2. SubSeq(Whole(t), 1, n) \in Seq({t}) /\ Len(SubSeq(Whole(t), 1, n)) = n
    <2> DEFINE w == Whole(t)
    <2>1. w \in Seq({t}) /\ n \in 0 .. Len(w)
      BY <1>1 DEF Whole
    <2> HIDE DEF w
    <2>2. SubSeq(w, 1, n) \in Seq({t}) /\ Len(SubSeq(w, 1, n)) = n
      BY <2>1
    <2>3. QED
      BY <2>2 DEF w
  <1>3. QED
    BY <1>2, LenProperties, Zenon

(* Before the first save there is no file, and one moment in memory        *)
(* (snapshot.c).                                                           *)
LEMMA SnapInitInv == SnapshotInit => SnapInv
  <1> SUFFICES ASSUME SnapshotInit PROVE SnapInv
    OBVIOUS
  <1>1. 0 \in Moments /\ Blocks \in Nat
    BY SnapshotAssumption DEF Moments
  <1>2. file \in UNION {[1 .. n -> Moments] : n \in 0 .. Blocks + 1}
    <2>1. file \in [1 .. 0 -> Moments]
      BY DEF SnapshotInit
    <2>2. 0 \in 0 .. Blocks + 1
      BY <1>1
    <2>3. QED
      BY <2>1, <2>2
  <1>3. SnapshotTypeOK
    BY <1>1, <1>2 DEF SnapshotInit, SnapshotTypeOK
  <1>4. QED
    BY <1>3 DEF SnapshotInit, SnapInv, FileFromOneMoment, StateWhole, RestoresOneMoment

(* Saving, complete or not, keeps the invariant for the file. *)
LEMMA WriteKeepsFile ==
  ASSUME SnapInv, NEW n \in 0 .. Blocks + 1, WriteFile(n)
  PROVE  /\ file' \in UNION {[1 .. k -> Moments] : k \in 0 .. Blocks + 1}
         /\ FileFromOneMoment'
         /\ opened' \in Moments /\ exists' \in BOOLEAN
  <1>1. cpu \in Moments
    BY DEF SnapInv, SnapshotTypeOK
  <1>2. file' \in [1 .. n -> {cpu}]
    BY <1>1, Written DEF WriteFile
  <1>3. file' \in [1 .. n -> Moments]
    BY <1>1, <1>2
  <1>4. QED
    BY <1>1, <1>2, <1>3 DEF WriteFile, FileFromOneMoment

(* Running, saving, restoring and being killed keep the invariant          *)
(* (snapshot.c).                                                           *)
LEMMA SnapStep == SnapInv /\ [SnapshotNext]_snapVars => SnapInv'
  <1> SUFFICES ASSUME SnapInv, [SnapshotNext]_snapVars PROVE SnapInv'
    OBVIOUS
  <1>0. Blocks \in Nat \ {0} /\ MaxTime \in Nat /\ 0 \in Moments
    BY SnapshotAssumption DEF Moments
  <1>1. CASE Run
    <2>1. moment' \in Moments
      BY <1>0, <1>1 DEF Run, SnapInv, SnapshotTypeOK, Moments
    <2>2. QED
      BY <1>1, <2>1 DEF Run, SnapInv, SnapshotTypeOK, FileFromOneMoment, StateWhole,
                        RestoresOneMoment
  <1>2. CASE take_arch_snapshot
    <2>1. /\ FileFromOneMoment' /\ opened' \in Moments /\ exists' \in BOOLEAN
          /\ file' \in UNION {[1 .. k -> Moments] : k \in 0 .. Blocks + 1}
      <3>1. CASE \E n \in 0 .. Blocks + 1 : WriteFile(n)
        BY <3>1, WriteKeepsFile
      <3>2. CASE UNCHANGED <<file, exists, opened>>
        BY <3>2 DEF SnapInv, SnapshotTypeOK, FileFromOneMoment
      <3>3. QED
        BY <1>0, <1>2, <3>1, <3>2 DEF take_arch_snapshot
    <2>2. ret' \in {"taken", "not_taken"} /\ UNCHANGED <<moment, cpu, mem>>
      BY <1>2 DEF take_arch_snapshot
    <2>3. QED
      BY <1>2, <2>1, <2>2 DEF take_arch_snapshot, SnapInv, SnapshotTypeOK, StateWhole,
                              RestoresOneMoment
  <1>3. CASE KilledTaking
    <2>1. /\ FileFromOneMoment' /\ opened' \in Moments /\ exists' \in BOOLEAN
          /\ file' \in UNION {[1 .. k -> Moments] : k \in 0 .. Blocks + 1}
      BY <1>3, WriteKeepsFile DEF KilledTaking
    <2>2. QED
      BY <1>0, <1>3, <2>1 DEF KilledTaking, SnapInv, SnapshotTypeOK, StateWhole,
                              RestoresOneMoment
  <1>4. CASE restore_arch_snapshot
    <2>1. PICK n \in 0 .. Blocks + 1 : file \in [1 .. n -> Moments]
      BY DEF SnapInv, SnapshotTypeOK
    <2>2. n \in Nat /\ Len(file) = n /\ DOMAIN file = 1 .. n /\ (file # <<>> <=> n > 0)
      BY <1>0, <2>1
    <2>3. cpu' \in Moments /\ (n > 0 => cpu' = opened)
      BY <1>4, <2>1, <2>2 DEF restore_arch_snapshot, SnapInv, SnapshotTypeOK,
                              FileFromOneMoment
    <2>4. /\ mem' \in [1 .. Blocks -> Moments]
          /\ \A i \in 1 .. Blocks : i + 1 <= n => mem'[i] = opened
      BY <1>0, <1>4, <2>1, <2>2 DEF restore_arch_snapshot, SnapInv, SnapshotTypeOK,
                                    FileFromOneMoment
    <2>5. SnapshotTypeOK'
      BY <1>4, <2>3, <2>4 DEF restore_arch_snapshot, SnapInv, SnapshotTypeOK
    <2>6. ret' = "restored" \/ ret' = "not_restored"
      BY <1>4 DEF restore_arch_snapshot
    <2>7. ret' = "restored" => n = Blocks + 1
      BY <1>4, <2>2 DEF restore_arch_snapshot
    <2>8. ret' = "restored" => cpu' = opened /\ \A i \in 1 .. Blocks : mem'[i] = opened
      BY <1>0, <2>3, <2>4, <2>7
    <2>9. QED
      BY <1>4, <2>5, <2>6, <2>8 DEF restore_arch_snapshot, SnapInv, FileFromOneMoment,
                                    StateWhole, RestoresOneMoment
  <1>5. CASE UNCHANGED snapVars
    BY <1>5 DEF snapVars, SnapInv, SnapshotTypeOK, FileFromOneMoment, StateWhole,
                RestoresOneMoment
  <1>6. QED
    BY <1>1, <1>2, <1>3, <1>4, <1>5 DEF SnapshotNext

(* What is reported as restored is the whole state of the last save that   *)
(* opened the file, for every size of the memory and any run of complete,  *)
(* failed and killed saves (snapshot.c).                                   *)
THEOREM SnapshotsRestoreOneMoment ==
  SnapshotSpec => [](SnapshotTypeOK /\ RestoresOneMoment)
  <1>1. SnapInv => SnapshotTypeOK /\ RestoresOneMoment
    BY DEF SnapInv
  <1>2. QED
    BY <1>1, SnapInitInv, SnapStep, PTL DEF SnapshotSpec

(* Until a restore fails, CPU and memory are of one moment, so that what   *)
(* take_arch_snapshot saves is a state the machine was in.                 *)
THEOREM SavedStateWhole == SnapshotSpec => []StateWhole
  <1>1. SnapInv => StateWhole
    BY DEF SnapInv
  <1>2. QED
    BY <1>1, SnapInitInv, SnapStep, PTL DEF SnapshotSpec

-----------------------------------------------------------------------------
(* Guest memory *)

(* The core runs only once the reference has its copy, and until the first *)
(* access nothing but the images has been written.                         *)
LoadedOnly ==
  /\ stage # "run" => access = NoAccess
  /\ stage # "run" => \A a \in Cells : ref[a] = 0
  /\ stage = "init_mem" => \A a \in Cells : pmem[a] = 0
  /\ stage = "builtin" => \A a \in Cells : a >= BuiltinSize => pmem[a] = 0
  /\ stage = "image" /\ img_size >= BuiltinSize =>
       \A a \in Cells : a >= img_size => pmem[a] = 0

MemInv == MemTypeOK /\ LoadedOnly /\ RefStartsEqual /\ LoadReturnsStore

(* The sizes are numbers, and a byte may hold what the images hold. *)
LEMMA MemFacts ==
  /\ MSIZE \in Nat /\ BuiltinSize \in Nat /\ DefaultSize \in 0 .. MSIZE
  /\ 0 \in Bytes /\ Builtin \in Bytes /\ Image \in Bytes
  /\ NoAccess \in [kind : {"none", "read", "write", "fetch"}, addr : -1 .. MSIZE,
                   len : Lens, value : [1 .. 4 -> Bytes]]
  <1>1. MSIZE \in Nat /\ BuiltinSize \in Nat /\ DefaultSize \in 0 .. MSIZE
    BY MemoryAssumption
  <1>2. 0 \in Bytes /\ Builtin \in Bytes /\ Image \in Bytes
    BY MemoryAssumption DEF Builtin, Image
  <1>3. <<0, 0, 0, 0>> \in [1 .. 4 -> Bytes]
    BY <1>2
  <1>4. QED
    BY <1>1, <1>2, <1>3 DEF NoAccess, Lens

(* An access that starts in the memory and is aligned to its size ends in  *)
(* it, because the memory is a whole number of words long: comparing its   *)
(* first byte with the bounds is enough (memory.c:20-32).                  *)
LEMMA AlignedEndsInside == MemTypeOK => AlignedInBounds
  <1> SUFFICES ASSUME MemTypeOK,
                      access.addr % access.len = 0 \/ access.kind = "fetch"
               PROVE  Touched \subseteq 0 .. MSIZE - 1
    BY DEF AlignedInBounds
  <1>1. /\ MSIZE \in Nat /\ MSIZE % 4 = 0
        /\ access.addr \in Int /\ access.len \in {1, 2, 4}
    BY MemoryAssumption DEF MemTypeOK, Lens
  <1>2. CASE access.kind = "none" \/ ~InRange(access.addr)
    BY <1>2 DEF Touched
  <1>3. CASE access.kind = "fetch" /\ InRange(access.addr)
    <2>1. Touched = Span(access.addr - (access.addr % 4), 4)
      BY <1>3 DEF Touched
    <2>2. /\ access.addr - (access.addr % 4) >= 0
          /\ access.addr - (access.addr % 4) + 4 <= MSIZE
      BY <1>1, <1>3 DEF InRange
    <2>3. QED
      BY <1>1, <2>1, <2>2 DEF Span
  <1>4. CASE access.kind \notin {"none", "fetch"} /\ InRange(access.addr)
    <2>1. Touched = Span(access.addr, access.len)
      BY <1>4 DEF Touched
    <2>2. access.addr % access.len = 0
      BY <1>4
    <2>3. access.addr >= 0 /\ access.addr < MSIZE
      BY <1>4 DEF InRange
    <2>4. access.addr + access.len <= MSIZE
      <3>1. CASE access.len = 1
        BY <1>1, <2>3, <3>1
      <3>2. CASE access.len = 2
        BY <1>1, <2>2, <2>3, <3>2
      <3>3. CASE access.len = 4
        BY <1>1, <2>2, <2>3, <3>3
      <3>4. QED
        BY <1>1, <3>1, <3>2, <3>3
    <2>5. QED
      BY <1>1, <2>1, <2>3, <2>4 DEF Span
  <1>5. QED
    BY <1>2, <1>3, <1>4

(* Memory starts as zeros, like the reference's (memory.c:20-69). *)
LEMMA MemInitInv == MemInit => MemInv
  <1> SUFFICES ASSUME MemInit PROVE MemInv
    OBVIOUS
  <1>1. MemTypeOK
    BY MemFacts, MemoryAssumption DEF MemInit, MemTypeOK
  <1>2. LoadedOnly /\ RefStartsEqual
    BY DEF MemInit, LoadedOnly, RefStartsEqual
  <1>3. LoadReturnsStore
    BY DEF MemInit, LoadReturnsStore, NoAccess
  <1>4. QED
    BY <1>1, <1>2, <1>3 DEF MemInv

(* The images are loaded before the core runs. *)
LEMMA LoadingKeepsInv ==
  ASSUME MemInv, load_builded_img \/ load_img \/ init_difftest
  PROVE  MemInv'
  <1> USE MemFacts
  <1>1. access' = access /\ access = NoAccess
    BY DEF MemInv, LoadedOnly, load_builded_img, load_img, init_difftest
  <1>2. CASE load_builded_img
    <2>1. pmem' \in [Cells -> Bytes]
      BY <1>2 DEF load_builded_img, MemInv, MemTypeOK
    <2>2. MemTypeOK'
      BY <1>2, <2>1 DEF load_builded_img, MemInv, MemTypeOK
    <2>3. LoadedOnly'
      BY <1>2, <1>1 DEF load_builded_img, MemInv, LoadedOnly, Cells
    <2>4. RefStartsEqual'
      BY <1>2 DEF load_builded_img, RefStartsEqual
    <2>5. QED
      BY <1>1, <2>2, <2>3, <2>4 DEF MemInv, LoadReturnsStore, NoAccess
  <1>3. CASE load_img
    <2>1. pmem' \in [Cells -> Bytes] /\ img_size' \in 0 .. MSIZE
      BY <1>3 DEF load_img, MemInv, MemTypeOK
    <2>2. MemTypeOK'
      BY <1>3, <2>1 DEF load_img, MemInv, MemTypeOK
    <2>3. LoadedOnly'
      <3>1. ASSUME img_size' >= BuiltinSize, NEW a \in Cells, a >= img_size'
            PROVE  pmem'[a] = 0
        <4>1. a \in Int /\ img_size' \in Int
          BY <2>1 DEF Cells
        <4>2. pmem[a] = 0
          BY <1>3, <3>1, <4>1 DEF load_img, MemInv, LoadedOnly
        <4>3. QED
          BY <1>3, <3>1, <4>1, <4>2 DEF load_img
      <3>2. QED
        BY <1>3, <1>1, <3>1 DEF load_img, MemInv, LoadedOnly
    <2>4. RefStartsEqual'
      BY <1>3 DEF load_img, RefStartsEqual
    <2>5. QED
      BY <1>1, <2>2, <2>3, <2>4 DEF MemInv, LoadReturnsStore, NoAccess
  <1>4. CASE init_difftest
    <2>1. ref' \in [Cells -> Bytes]
      BY <1>4 DEF init_difftest, MemInv, MemTypeOK
    <2>2. MemTypeOK'
      BY <1>4, <2>1 DEF init_difftest, MemInv, MemTypeOK
    <2>3. LoadedOnly'
      BY <1>4 DEF init_difftest, LoadedOnly
    <2>4. RefStartsEqual'
      <3>1. ASSUME img_size >= BuiltinSize, NEW a \in Cells
            PROVE  ref'[a] = pmem[a]
        <4>1. a \in Int /\ img_size \in Int
          BY DEF Cells, MemInv, MemTypeOK
        <4>2. QED
          BY <1>4, <3>1, <4>1 DEF init_difftest, MemInv, LoadedOnly
      <3>2. img_size >= BuiltinSize => ref' = pmem
        BY <2>1, <3>1 DEF MemInv, MemTypeOK
      <3>3. QED
        BY <1>4, <3>2 DEF init_difftest, RefStartsEqual
    <2>5. QED
      BY <1>1, <2>2, <2>3, <2>4 DEF MemInv, LoadReturnsStore, NoAccess
  <1>5. QED
    BY <1>2, <1>3, <1>4

(* A store writes bytes, where it starts and nowhere else, lowest first. *)
LEMMA StoreMeaning ==
  ASSUME MemTypeOK, NEW addr \in -1 .. MSIZE, InRange(addr),
         NEW len \in Lens, NEW data \in Words
  PROVE  /\ host_write(addr, len, data) \in [Cells -> Bytes]
         /\ \A i \in 1 .. len : host_write(addr, len, data)[addr + i - 1] = data[i]
         /\ \A a \in Cells \ Span(addr, len) : host_write(addr, len, data)[a] = pmem[a]
  <1> USE MemFacts
  <1>1. addr \in Nat /\ addr < MSIZE /\ len \in {1, 2, 4} /\ data \in [1 .. 4 -> Bytes]
    BY MemoryAssumption DEF InRange, Lens
  <1>2. \A a \in Span(addr, len) : a - addr + 1 \in 1 .. 4
    BY <1>1 DEF Span
  <1>3. \A i \in 1 .. len : /\ addr + i - 1 \in Cells /\ addr + i - 1 \in Span(addr, len)
                            /\ (addr + i - 1) - addr + 1 = i
    BY <1>1 DEF Span, Cells
  <1>4. host_write(addr, len, data) \in [Cells -> Bytes]
    BY <1>1, <1>2 DEF host_write, MemTypeOK
  <1>5. \A i \in 1 .. len : host_write(addr, len, data)[addr + i - 1] = data[i]
    BY <1>3 DEF host_write
  <1>6. \A a \in Cells \ Span(addr, len) : host_write(addr, len, data)[a] = pmem[a]
    BY DEF host_write
  <1>7. QED
    BY <1>4, <1>5, <1>6

(* What the core loads or fetches is four bytes. *)
LEMMA LoadType ==
  ASSUME MemTypeOK, NEW addr \in -1 .. MSIZE, NEW len \in Lens
  PROVE  /\ dpi_mem_read(addr, len) \in [1 .. 4 -> Bytes]
         /\ dpi_instr_mem_read(addr) \in [1 .. 4 -> Bytes]
  <1> USE MemFacts
  <1>1. <<0, 0, 0, 0>> \in [1 .. 4 -> Bytes]
    OBVIOUS
  <1>2. CASE ~InRange(addr)
    BY <1>1, <1>2 DEF dpi_mem_read, dpi_instr_mem_read
  <1>3. CASE InRange(addr)
    <2>1. \A i \in 1 .. 4 : /\ addr + i - 1 \in Cells
                            /\ (addr - (addr % 4)) + i - 1 \in Cells
      BY <1>3 DEF InRange, Cells
    <2>2. QED
      BY <1>3, <2>1 DEF dpi_mem_read, dpi_instr_mem_read, host_read, MemTypeOK
  <1>4. QED
    BY <1>2, <1>3

(* A DPI access keeps the invariant, wherever it goes and whatever it      *)
(* stores (dpi.c:13-62).                                                *)
LEMMA AccessKeepsInv == ASSUME MemInv, CoreAccess PROVE MemInv'
  <1> USE MemFacts
  <1>0. /\ stage = "run" /\ before' = pmem
        /\ UNCHANGED <<stage, img_size, ref>>
        /\ MemTypeOK
    BY DEF CoreAccess, MemInv
  <1>1. PICK addr \in -1 .. MSIZE :
          \/ \E len \in Lens, data \in Words : dpi_mem_write(addr, len, data)
          \/ /\ \/ \E len \in Lens :
                     access' = [kind |-> "read", addr |-> addr, len |-> len,
                                value |-> dpi_mem_read(addr, len)]
                \/ access' = [kind |-> "fetch", addr |-> addr, len |-> 4,
                              value |-> dpi_instr_mem_read(addr)]
             /\ UNCHANGED <<pmem, stores>>
    BY DEF CoreAccess
  <1>2. ASSUME NEW len \in Lens, NEW data \in Words, dpi_mem_write(addr, len, data)
        PROVE  MemInv'
    <2>1. access' = [kind |-> "write", addr |-> addr, len |-> len, value |-> data]
      BY <1>2 DEF dpi_mem_write
    <2>2. data \in [1 .. 4 -> Bytes] /\ addr \in Int /\ len \in {1, 2, 4}
      BY MemoryAssumption DEF Lens
    <2>3. pmem' \in [Cells -> Bytes]
      BY <1>0, <1>2, StoreMeaning DEF dpi_mem_write, MemTypeOK
    <2>4. MemTypeOK'
      BY <1>0, <1>2, <2>1, <2>2, <2>3, MemoryAssumption DEF dpi_mem_write, MemTypeOK
    <2>5. LoadedOnly' /\ RefStartsEqual'
      BY <1>0, <2>1 DEF LoadedOnly, RefStartsEqual, NoAccess
    <2>6. LoadReturnsStore'
      <3>1. ASSUME InRange(addr), NEW l \in Lens, NEW i \in 1 .. 4, i <= l, i <= len
            PROVE  dpi_mem_read(addr, l)'[i] = data[i]
        <4>1. pmem' = host_write(addr, len, data)
          BY <1>2, <3>1 DEF dpi_mem_write
        <4>2. pmem'[addr + i - 1] = data[i]
          BY <1>0, <2>2, <3>1, <4>1, StoreMeaning
        <4>3. QED
          BY <3>1, <4>2 DEF dpi_mem_read, host_read
      <3>2. ASSUME NEW a \in Cells, a \notin Span(addr, len)
            PROVE  pmem'[a] = before'[a]
        BY <1>0, <1>2, <3>2, StoreMeaning DEF dpi_mem_write
      <3>3. QED
        BY <2>1, <3>1, <3>2 DEF LoadReturnsStore, InRange
    <2>7. QED
      BY <2>4, <2>5, <2>6 DEF MemInv
  <1>3. ASSUME NEW kind \in {"read", "fetch"}, NEW len \in Lens, NEW v \in [1 .. 4 -> Bytes],
               access' = [kind |-> kind, addr |-> addr, len |-> len, value |-> v],
               UNCHANGED <<pmem, stores>>
        PROVE  MemInv'
    <2>1. MemTypeOK'
      BY <1>0, <1>3 DEF MemTypeOK
    <2>2. LoadedOnly' /\ RefStartsEqual'
      BY <1>0, <1>3 DEF LoadedOnly, RefStartsEqual, NoAccess
    <2>3. LoadReturnsStore'
      BY <1>0, <1>3 DEF LoadReturnsStore
    <2>4. QED
      BY <2>1, <2>2, <2>3 DEF MemInv
  <1>4. ASSUME NEW len \in Lens,
               access' = [kind |-> "read", addr |-> addr, len |-> len,
                          value |-> dpi_mem_read(addr, len)],
               UNCHANGED <<pmem, stores>>
        PROVE  MemInv'
    BY <1>0, <1>3, <1>4, LoadType
  <1>5. ASSUME access' = [kind |-> "fetch", addr |-> addr, len |-> 4,
                          value |-> dpi_instr_mem_read(addr)],
               UNCHANGED <<pmem, stores>>
        PROVE  MemInv'
    <2>1. 4 \in Lens
      BY DEF Lens
    <2>2. QED
      BY <1>0, <1>3, <1>5, <2>1, LoadType
  <1>6. QED
    BY <1>1, <1>2, <1>4, <1>5

(* The invariant of the guest memory holds from loading on. *)
LEMMA MemInvariant == MemSpec => []MemInv
  <1>1. MemInv /\ [MemNext]_memVars => MemInv'
    <2> SUFFICES ASSUME MemInv, [MemNext]_memVars PROVE MemInv'
      OBVIOUS
    <2>1. CASE MemNext
      BY <2>1, LoadingKeepsInv, AccessKeepsInv DEF MemNext
    <2>2. CASE UNCHANGED memVars
      BY <2>2 DEF memVars, MemInv, MemTypeOK, LoadedOnly, RefStartsEqual, LoadReturnsStore,
                  dpi_mem_read, host_read
    <2>3. QED
      BY <2>1, <2>2
  <1>2. QED
    BY <1>1, MemInitInv, PTL DEF MemSpec

(* Loads return what stores wrote, no other byte changes, aligned accesses *)
(* stay inside, and difftest starts from equal memories: for every size of *)
(* memory and image and any run of accesses (dpi.c:13-62, memory.c:20-69). *)
THEOREM GuestMemorySound == MemSpec => [](MemTypeOK /\ MemorySound)
  <1>1. MemInv => MemTypeOK /\ MemorySound
    BY AlignedEndsInside DEF MemInv, MemorySound
  <1>2. QED
    BY <1>1, MemInvariant, PTL

-----------------------------------------------------------------------------
(* The clock *)

(* Quotient and remainder of a time by the length of a minute or an hour. *)
LEMMA Division ==
  ASSUME NEW x \in Nat, NEW m \in Nat \ {0}
  PROVE  \E q \in Nat, r \in 0 .. m - 1 : q = x \div m /\ r = x % m /\ x = m * q + r
  <1> DEFINE q == x \div m
             r == x % m
  <1>1. q \in Nat /\ r \in 0 .. m - 1 /\ q = x \div m /\ r = x % m
    OBVIOUS
  <1> HIDE DEF q, r
  <1>2. x = m * q + r
    BY <1>1
  <1>3. QED
    BY <1>1, <1>2

(* Decoding undoes the clock's binary-coded decimals (ioe.c:42-45). *)
LEMMA DecimalsDecoded == ASSUME NEW n \in Nat PROVE read_rtc(n) = n
  <1>1. PICK q \in Nat, r \in 0 .. 9 : q = n \div 10 /\ r = n % 10 /\ n = 10 * q + r
    BY Division
  <1>2. (q * 16 + r) % 16 = r /\ (q * 16 + r) \div 16 = q
    OBVIOUS
  <1>3. Register(n) = q * 16 + r
    BY <1>1 DEF Register
  <1>4. QED
    BY <1>1, <1>2, <1>3 DEF read_rtc

(* A multiple of m that lies strictly between -m and m is 0: no register   *)
(* takes the same value twice in less than its period.                     *)
LEMMA OnlyMultiple ==
  ASSUME NEW m \in Nat \ {0}, NEW k \in Int, NEW d \in Int,
         d = m * k, -m < d, d < m
  PROVE  d = 0
  <1>1. CASE k >= 1
    <2>1. m * k >= m
      BY <1>1
    <2>2. QED
      BY <2>1
  <1>2. CASE k <= -1
    <2>1. m * k <= -m
      BY <1>2
    <2>2. QED
      BY <2>1
  <1>3. CASE k = 0
    BY <1>3
  <1>4. QED
    BY <1>1, <1>2, <1>3

(* The time of the hour that the registers show x seconds after the hour. *)
Hour == SecsPerMin * MinsPerHour
TimeOf(x) == ((x \div SecsPerMin) % MinsPerHour) * SecsPerMin + (x % SecsPerMin)

(* Minutes and hours have a length, and a minute more than one second. *)
LEMMA RtcFacts == SecsPerMin \in Nat \ {0} /\ MinsPerHour \in Nat \ {0} /\ SecsPerMin > 1
  BY X86RtcAssumption

(* An hour has more than one second. *)
LEMMA HourFacts == Hour \in Nat /\ Hour > 1
  <1> DEFINE j == MinsPerHour - 1
  <1>1. j \in Nat /\ MinsPerHour = j + 1 /\ SecsPerMin \in Nat
    BY RtcFacts
  <1> HIDE DEF j
  <1>2. SecsPerMin * j \in Nat /\ Hour = SecsPerMin * j + SecsPerMin
    BY <1>1 DEF Hour
  <1>3. QED
    BY <1>1, <1>2, RtcFacts

(* The clock shows what is left of a time after whole hours. *)
LEMMA HourSplit ==
  ASSUME NEW x \in Nat
  PROVE  TimeOf(x) \in 0 .. Hour - 1 /\ \E p \in Nat : x = Hour * p + TimeOf(x)
  <1> DEFINE S == SecsPerMin
             M == MinsPerHour
  <1>0. S \in Nat \ {0} /\ M \in Nat \ {0}
    BY RtcFacts
  <1>1. PICK q \in Nat, r \in 0 .. S - 1 : q = x \div S /\ r = x % S /\ x = S * q + r
    BY <1>0, Division
  <1>2. PICK p \in Nat, m \in 0 .. M - 1 : p = q \div M /\ m = q % M /\ q = M * p + m
    BY <1>0, Division
  <1>3. TimeOf(x) = m * S + r
    BY <1>1, <1>2, Zenon DEF TimeOf
  <1>4. Hour = S * M
    BY DEF Hour
  <1> HIDE DEF S, M
  <1>5. m * S + r \in 0 .. S * M - 1
    <2>1. PICK j \in Nat : M = m + j + 1
      <3>1. M - m - 1 \in Nat /\ M = m + (M - m - 1) + 1
        BY <1>0, <1>2
      <3>2. QED
        BY <3>1
    <2>2. S * M = m * S + S * j + S
      BY <1>0, <2>1
    <2>3. S * j \in Nat /\ m * S \in Nat
      BY <1>0, <2>1
    <2>4. QED
      BY <1>0, <1>1, <2>2, <2>3
  <1>6. x = (S * M) * p + (m * S + r)
    <2>1. S * q = (S * M) * p + m * S
      <3>1. S * (M * p + m) = (S * M) * p + m * S
        BY <1>0
      <3>2. QED
        BY <1>2, <3>1
    <2>2. QED
      BY <1>0, <1>1, <1>2, <2>1
  <1>7. QED
    BY <1>3, <1>4, <1>5, <1>6

(* Two times less than an hour apart, of which the clock shows the later   *)
(* as later, are as far apart as the clock shows.                          *)
LEMMA ClockDifference ==
  ASSUME NEW a \in Nat, NEW b \in Nat, a <= b, b - a < Hour, TimeOf(a) < TimeOf(b)
  PROVE  TimeOf(b) - TimeOf(a) = b - a
  <1>1. TimeOf(a) \in 0 .. Hour - 1 /\ TimeOf(b) \in 0 .. Hour - 1 /\ Hour \in Nat \ {0}
    BY HourSplit, HourFacts
  <1>2. PICK p \in Nat : a = Hour * p + TimeOf(a)
    BY HourSplit
  <1>3. PICK q \in Nat : b = Hour * q + TimeOf(b)
    BY HourSplit
  <1> DEFINE d == (b - a) - (TimeOf(b) - TimeOf(a))
  <1>4. d \in Int /\ -Hour < d /\ d < Hour
    BY <1>1
  <1>5. d = Hour * (q - p)
    BY <1>1, <1>2, <1>3
  <1>6. d = 0
    <2> HIDE DEF d
    <2>1. q - p \in Int
      OBVIOUS
    <2>2. QED
      BY <1>1, <1>4, <1>5, <2>1, OnlyMultiple
  <1>7. QED
    BY <1>1, <1>6

(* Two times less than a minute apart with the same seconds are equal. *)
LEMMA SameSeconds ==
  ASSUME NEW a \in Nat, NEW b \in Nat, a <= b, b - a < SecsPerMin,
         a % SecsPerMin = b % SecsPerMin
  PROVE  a = b
  <1>0. SecsPerMin \in Nat \ {0}
    BY RtcFacts
  <1>1. PICK p \in Nat, r \in 0 .. SecsPerMin - 1 :
          r = a % SecsPerMin /\ a = SecsPerMin * p + r
    BY <1>0, Division
  <1>2. PICK q \in Nat, s \in 0 .. SecsPerMin - 1 :
          s = b % SecsPerMin /\ b = SecsPerMin * q + s
    BY <1>0, Division
  <1>3. r = s
    BY <1>1, <1>2
  <1>4. b - a = SecsPerMin * (q - p)
    BY <1>0, <1>1, <1>2, <1>3
  <1>5. b - a \in Int /\ q - p \in Int /\ -SecsPerMin < b - a
    BY <1>0
  <1>6. b - a = 0
    BY <1>0, <1>4, <1>5, OnlyMultiple
  <1>7. QED
    BY <1>6

(* rtc.minute was read at one moment since rtc.second was. *)
MinuteRead == \E t \in seen .. now : rtc.minute = (t \div SecsPerMin) % MinsPerHour

(* What the readers know at each of their lines.  An iteration of wait_sec *)
(* sees at most one tick, so that a second other than the old one is the   *)
(* one that the tick began; one of timer_rtc sees less than a minute.      *)
RtcInv ==
  /\ X86RtcTypeOK
  /\ pc \in {"old", "second", "minute", "decide"} => now <= begin + 1
  /\ pc \in {"second", "minute", "decide"} => old = begin % SecsPerMin
  /\ pc \in {"minute", "decide", "rtc_minute", "rtc_again"} =>
       begin <= seen /\ rtc.second = seen % SecsPerMin
  /\ pc \in {"decide", "rtc_again"} => MinuteRead
  /\ pc \in {"rtc_minute", "rtc_again"} => begin = seen /\ now - begin < SecsPerMin
  /\ first.at <= seen
  /\ first # NoTime => first.t = TimeOf(first.at) /\ now - first.at < Hour
  /\ ClockReadsSound

(* The registers show the time that it is. *)
LEMMA RegistersRead ==
  ASSUME now \in Nat
  PROVE  /\ second = now % SecsPerMin /\ second \in 0 .. SecsPerMin - 1
         /\ minute = (now \div SecsPerMin) % MinsPerHour /\ minute \in 0 .. MinsPerHour - 1
  <1>1. now % SecsPerMin \in 0 .. SecsPerMin - 1 /\ now % SecsPerMin \in Nat
    BY RtcFacts
  <1>2. now \div SecsPerMin \in Nat
    BY RtcFacts
  <1>3. /\ (now \div SecsPerMin) % MinsPerHour \in 0 .. MinsPerHour - 1
        /\ (now \div SecsPerMin) % MinsPerHour \in Nat
    BY <1>2, RtcFacts
  <1>4. QED
    BY <1>1, <1>3, DecimalsDecoded DEF second, minute

(* A reader that has read nothing knows nothing wrong (ioe.c:59-100). *)
LEMMA RtcInitInv == X86RtcInit => RtcInv
  <1> SUFFICES ASSUME X86RtcInit PROVE RtcInv
    OBVIOUS
  <1>1. now \in Nat /\ SecsPerMin \in Nat \ {0} /\ MinsPerHour \in Nat \ {0}
    BY RtcFacts, HourFacts DEF X86RtcInit, Hour
  <1>2. X86RtcTypeOK
    BY <1>1 DEF X86RtcInit, X86RtcTypeOK, NotRead, NoTime
  <1>3. QED
    BY <1>1, <1>2 DEF X86RtcInit, RtcInv, NoTime, ClockReadsSound, TimeNotTorn, EstimateSound

(* When wait_sec finds another second, the clock has just ticked, and the  *)
(* time it takes down is that of the new second.                           *)
LEMMA NewSecond ==
  ASSUME RtcInv, pc = "decide", old # rtc.second
  PROVE  seen = now /\ now = begin + 1 /\ ReadTime = TimeOf(seen)
  <1>1. now \in Nat /\ begin \in Nat /\ seen \in Nat /\ seen <= now
    BY DEF RtcInv, X86RtcTypeOK
  <1>2. begin <= seen /\ now <= begin + 1 /\ seen % SecsPerMin # begin % SecsPerMin
    BY DEF RtcInv
  <1>3. seen # begin
    BY <1>2
  <1>4. seen = now /\ now = begin + 1
    BY <1>1, <1>2, <1>3
  <1>5. rtc.second = seen % SecsPerMin
    BY DEF RtcInv
  <1>6. rtc.minute = (seen \div SecsPerMin) % MinsPerHour
    <2>1. PICK t \in seen .. now : rtc.minute = (t \div SecsPerMin) % MinsPerHour
      BY DEF RtcInv, MinuteRead
    <2>2. t = seen
      BY <1>1, <1>4
    <2>3. QED
      BY <2>1, <2>2
  <1>7. QED
    BY <1>4, <1>5, <1>6, Zenon DEF ReadTime, TimeOf

(* The clock may tick between any two reads (ioe.c:59-100). *)
LEMMA RtcTick == ASSUME RtcInv, Tick PROVE RtcInv'
  <1>0. /\ now \in Nat /\ begin \in 0 .. now /\ seen \in 0 .. now
        /\ SecsPerMin \in Nat /\ SecsPerMin > 1 /\ Hour \in Nat
    BY RtcFacts, HourFacts DEF RtcInv, X86RtcTypeOK
  <1>1. now' = now + 1 /\ UNCHANGED <<begin, pc, old, rtc, seen, first>>
    BY DEF Tick
  <1>2. X86RtcTypeOK'
    BY <1>0, <1>1 DEF RtcInv, X86RtcTypeOK
  <1>3. pc \in {"old", "second", "minute", "decide"} => now' <= begin' + 1
    BY <1>0, <1>1 DEF Tick
  <1>4. pc \in {"decide", "rtc_again"} => MinuteRead'
    <2>1. ASSUME NEW t \in seen .. now PROVE t \in seen .. now + 1
      BY <1>0
    <2>2. QED
      BY <1>1, <2>1 DEF RtcInv, MinuteRead
  <1>5. pc \in {"rtc_minute", "rtc_again"} => begin' = seen' /\ now' - begin' < SecsPerMin
    BY <1>0, <1>1 DEF Tick, RtcInv
  <1>6. first # NoTime => first'.t = TimeOf(first'.at) /\ now' - first'.at < Hour
    <2>1. first.at \in Int
      BY DEF RtcInv, X86RtcTypeOK
    <2>2. QED
      BY <1>0, <1>1, <2>1 DEF Tick, RtcInv, Hour
  <1>7. ClockReadsSound'
    BY <1>1 DEF Tick, ClockReadsSound, TimeNotTorn, EstimateSound
  <1>8. QED
    BY <1>1, <1>2, <1>3, <1>4, <1>5, <1>6, <1>7 DEF RtcInv

(* The reads of wait_sec and of timer_rtc. *)
LEMMA RtcReads ==
  ASSUME RtcInv, ReadOld \/ ReadSecond \/ ReadMinute \/ RtcSecond \/ RtcMinute
  PROVE  RtcInv'
  <1>0. /\ now \in Nat /\ begin \in 0 .. now /\ seen \in 0 .. now
        /\ SecsPerMin \in Nat /\ SecsPerMin > 1 /\ first.at \in 0 .. now
        /\ rtc \in [second : 0 .. SecsPerMin - 1, minute : 0 .. MinsPerHour - 1]
    BY RtcFacts DEF RtcInv, X86RtcTypeOK
  <1>1. /\ second = now % SecsPerMin /\ second \in 0 .. SecsPerMin - 1
        /\ minute = (now \div SecsPerMin) % MinsPerHour /\ minute \in 0 .. MinsPerHour - 1
    BY <1>0, RegistersRead
  <1>2. now' = now /\ first' = first
    BY DEF ReadOld, ReadSecond, ReadMinute, RtcSecond, RtcMinute
  <1>3. ClockReadsSound'
    BY DEF ReadOld, ReadSecond, ReadMinute, RtcSecond, RtcMinute, At, ClockReadsSound,
           TimeNotTorn, EstimateSound
  <1>4. CASE ReadOld
    <2>1. X86RtcTypeOK'
      BY <1>0, <1>1, <1>4 DEF ReadOld, At, RtcInv, X86RtcTypeOK
    <2>2. QED
      BY <1>0, <1>1, <1>2, <1>3, <1>4, <2>1 DEF ReadOld, At, RtcInv
  <1>5. CASE ReadSecond
    <2>1. rtc' \in [second : 0 .. SecsPerMin - 1, minute : 0 .. MinsPerHour - 1]
          /\ rtc'.second = now % SecsPerMin /\ seen' = now /\ pc' = "minute"
      BY <1>0, <1>1, <1>5 DEF ReadSecond, At
    <2>2. X86RtcTypeOK'
      BY <1>0, <1>5, <2>1 DEF ReadSecond, At, RtcInv, X86RtcTypeOK
    <2>3. QED
      BY <1>0, <1>2, <1>3, <1>5, <2>1, <2>2 DEF ReadSecond, At, RtcInv
  <1>6. CASE RtcSecond
    <2>1. rtc' \in [second : 0 .. SecsPerMin - 1, minute : 0 .. MinsPerHour - 1]
          /\ rtc'.second = now % SecsPerMin /\ seen' = now /\ begin' = now
          /\ pc' = "rtc_minute"
      BY <1>0, <1>1, <1>6 DEF RtcSecond, At
    <2>2. X86RtcTypeOK'
      BY <1>0, <1>6, <2>1 DEF RtcSecond, At, RtcInv, X86RtcTypeOK
    <2>3. now' - begin' < SecsPerMin
      BY <1>0, <1>2, <2>1
    <2>4. QED
      BY <1>0, <1>2, <1>3, <1>6, <2>1, <2>2, <2>3 DEF RtcSecond, At, RtcInv
  <1>7. CASE ReadMinute \/ RtcMinute
    <2>1. rtc' \in [second : 0 .. SecsPerMin - 1, minute : 0 .. MinsPerHour - 1]
          /\ rtc'.second = rtc.second
          /\ rtc'.minute = (now \div SecsPerMin) % MinsPerHour
      BY <1>0, <1>1, <1>7 DEF ReadMinute, RtcMinute
    <2>2. X86RtcTypeOK'
      BY <1>7, <2>1 DEF ReadMinute, RtcMinute, At, RtcInv, X86RtcTypeOK
    <2>3. MinuteRead'
      <3>1. now \in seen .. now
        BY <1>0
      <3>2. QED
        BY <1>7, <2>1, <3>1 DEF ReadMinute, RtcMinute, MinuteRead
    <2>4. QED
      BY <1>3, <1>7, <2>1, <2>2, <2>3 DEF ReadMinute, RtcMinute, At, RtcInv
  <1>8. QED
    BY <1>4, <1>5, <1>6, <1>7

(* What wait_sec and estimate_freq decide. *)
LEMMA RtcDecides ==
  ASSUME RtcInv, SameSecond \/ FirstSecond \/ SecondSecond
  PROVE  RtcInv'
  <1>0. /\ now \in Nat /\ begin \in 0 .. now /\ seen \in 0 .. now
        /\ first.at \in 0 .. now /\ first.t \in Nat /\ Hour \in Nat /\ Hour > 1
    BY HourFacts DEF RtcInv, X86RtcTypeOK
  <1>1. pc = "decide" /\ begin' = now /\ UNCHANGED <<now, old, rtc, seen>>
    BY DEF SameSecond, FirstSecond, SecondSecond, At
  <1>2. CASE SameSecond
    <2>1. X86RtcTypeOK'
      BY <1>0, <1>1, <1>2 DEF SameSecond, At, RtcInv, X86RtcTypeOK
    <2>2. QED
      BY <1>0, <1>1, <1>2, <2>1 DEF SameSecond, At, RtcInv, ClockReadsSound, TimeNotTorn,
                                    EstimateSound
  <1>3. CASE FirstSecond
    <2>1. seen = now /\ ReadTime = TimeOf(seen)
      BY <1>3, NewSecond DEF FirstSecond, At
    <2>2. ReadTime \in Nat
      BY <1>0, <2>1, HourSplit
    <2>3. first' = [t |-> ReadTime, at |-> seen] /\ pc' = "old"
      BY <1>3 DEF FirstSecond, At
    <2>4. X86RtcTypeOK'
      BY <1>0, <1>1, <2>2, <2>3 DEF RtcInv, X86RtcTypeOK
    <2>5. first'.t = TimeOf(first'.at) /\ first'.at = seen /\ now' - first'.at < Hour
      BY <1>0, <1>1, <2>1, <2>3
    <2>6. QED
      BY <1>0, <1>1, <2>3, <2>4, <2>5 DEF RtcInv, ClockReadsSound, TimeNotTorn, EstimateSound
  <1>4. CASE SecondSecond
    <2>1. seen = now /\ ReadTime = TimeOf(seen) /\ first # NoTime
      BY <1>4, NewSecond DEF SecondSecond
    <2>2. ReadTime \in Nat
      BY <1>0, <2>1, HourSplit
    <2>3. CASE first.t >= ReadTime
      <3>1. first' = NoTime /\ pc' = "old"
        BY <1>4, <2>3 DEF SecondSecond
      <3>2. X86RtcTypeOK'
        BY <1>0, <1>1, <3>1 DEF RtcInv, X86RtcTypeOK, NoTime
      <3>3. QED
        BY <1>0, <1>1, <3>1, <3>2 DEF RtcInv, NoTime, ClockReadsSound, TimeNotTorn,
                                      EstimateSound
    <2>4. CASE ~(first.t >= ReadTime)
      <3>1. first' = first /\ pc' = "estimated"
        BY <1>4, <2>4 DEF SecondSecond
      <3>2. X86RtcTypeOK'
        BY <1>0, <1>1, <3>1 DEF RtcInv, X86RtcTypeOK
      <3>3. first.t = TimeOf(first.at) /\ now - first.at < Hour /\ first.at <= seen
        BY <2>1 DEF RtcInv
      <3>4. ReadTime > first.t /\ ReadTime - first.t = seen - first.at
        <4>1. TimeOf(first.at) < TimeOf(seen)
          BY <1>0, <2>1, <2>2, <2>4, <3>3
        <4>2. TimeOf(seen) - TimeOf(first.at) = seen - first.at
          BY <1>0, <2>1, <3>3, <4>1, ClockDifference
        <4>3. QED
          BY <1>0, <2>1, <2>2, <2>4, <3>3, <4>2
      <3>5. ReadTime' = ReadTime
        BY <1>1 DEF ReadTime
      <3>6. QED
        BY <1>0, <1>1, <3>1, <3>2, <3>3, <3>4, <3>5 DEF RtcInv, ClockReadsSound, TimeNotTorn,
                                                        EstimateSound
    <2>5. QED
      BY <2>3, <2>4
  <1>5. QED
    BY <1>2, <1>3, <1>4

(* timer_rtc returns when the second has not changed: then nothing has. *)
LEMMA RtcReturns == ASSUME RtcInv, RtcAgain PROVE RtcInv'
  <1>0. /\ now \in Nat /\ begin \in 0 .. now /\ seen \in 0 .. now
        /\ SecsPerMin \in Nat /\ SecsPerMin > 1
    BY RtcFacts DEF RtcInv, X86RtcTypeOK
  <1>1. pc = "rtc_again" /\ begin' = now /\ UNCHANGED <<now, old, rtc, seen, first>>
    BY DEF RtcAgain
  <1>2. /\ begin = seen /\ now - begin < SecsPerMin
        /\ rtc.second = seen % SecsPerMin
        /\ first.at <= seen
    BY <1>1 DEF RtcInv
  <1>3. X86RtcTypeOK'
    BY <1>0, <1>1 DEF RtcAgain, RtcInv, X86RtcTypeOK
  <1>4. CASE rtc.second = second
    <2>1. seen % SecsPerMin = now % SecsPerMin
      BY <1>0, <1>2, <1>4, RegistersRead
    <2>2. seen = now
      <3>1. seen \in Nat /\ seen <= now /\ now - seen < SecsPerMin
        BY <1>0, <1>2
      <3>2. QED
        BY <1>0, <2>1, <3>1, SameSeconds, Zenon
    <2>3. PICK t \in seen .. now : rtc.minute = (t \div SecsPerMin) % MinsPerHour
      BY <1>1 DEF RtcInv, MinuteRead
    <2>4. t = seen
      BY <1>0, <2>2
    <2>5. rtc.minute = (seen \div SecsPerMin) % MinsPerHour
      BY <2>3, <2>4
    <2>6. rtc = [second |-> seen % SecsPerMin, minute |-> (seen \div SecsPerMin) % MinsPerHour]
      <3>1. rtc = [second |-> rtc.second, minute |-> rtc.minute]
        BY DEF RtcInv, X86RtcTypeOK
      <3>2. QED
        BY <1>2, <2>5, <3>1, Zenon
    <2>7. pc' = "returned"
      BY <1>4 DEF RtcAgain
    <2>8. ClockReadsSound'
      BY <1>1, <2>6, <2>7 DEF ClockReadsSound, TimeNotTorn, EstimateSound
    <2>9. QED
      BY <1>1, <1>3, <2>7, <2>8 DEF RtcInv
  <1>5. CASE rtc.second # second
    <2>1. pc' = "rtc_second"
      BY <1>5 DEF RtcAgain
    <2>2. QED
      BY <1>1, <1>3, <2>1 DEF RtcInv, ClockReadsSound, TimeNotTorn, EstimateSound
  <1>6. QED
    BY <1>4, <1>5

(* The readers' invariant holds, at whatever time they are called. *)
LEMMA RtcInvariant == X86RtcSpec => []RtcInv
  <1>1. RtcInv /\ [X86RtcNext]_rtcVars => RtcInv'
    <2> SUFFICES ASSUME RtcInv, [X86RtcNext]_rtcVars PROVE RtcInv'
      OBVIOUS
    <2>1. CASE UNCHANGED rtcVars
      BY <2>1 DEF rtcVars, RtcInv, X86RtcTypeOK, MinuteRead, ClockReadsSound, TimeNotTorn,
                  EstimateSound, ReadTime
    <2>2. QED
      BY <2>1, RtcTick, RtcReads, RtcDecides, RtcReturns DEF X86RtcNext, Finished
  <1>2. QED
    BY <1>1, RtcInitInv, PTL DEF X86RtcSpec

(* Both readers of the clock get a time that really was, although it runs  *)
(* on between any two reads of its registers and a wait may cross the full *)
(* hour: for every length of minute and hour and at every time of the call *)
(* (ioe.c:42-96).                                                          *)
THEOREM ClockReadersSound == X86RtcSpec => [](X86RtcTypeOK /\ ClockReadsSound)
  <1>1. RtcInv => X86RtcTypeOK /\ ClockReadsSound
    BY DEF RtcInv
  <1>2. QED
    BY <1>1, RtcInvariant, PTL

-----------------------------------------------------------------------------
(* The parts together *)

(* A behaviour of the composition is a behaviour of every part.            *)
LEMMA PartSpecs ==
  PartsSpec => Spec /\ X86VmeSpec /\ X86RtcSpec /\ SnapshotSpec /\ MemSpec /\ X86CteSpec
  <1> USE DEF PartsNext, partVars, TracePart, VmePart, RtcPart, SnapshotPart, MemoryPart, CtePart
  <1>1. PartsInit => Init /\ X86VmeInit /\ X86RtcInit /\ SnapshotInit /\ MemInit /\ X86CteInit
    BY DEF PartsInit
  <1>2. [PartsNext]_partVars => [Next]_traceVars
    OBVIOUS
  <1>3. [PartsNext]_partVars => [X86VmeNext]_vmeVars
    OBVIOUS
  <1>4. [PartsNext]_partVars => [X86RtcNext]_rtcVars
    OBVIOUS
  <1>5. [PartsNext]_partVars => [SnapshotNext]_snapVars
    OBVIOUS
  <1>6. [PartsNext]_partVars => [MemNext]_memVars
    OBVIOUS
  <1>7. [PartsNext]_partVars => [X86CteNext]_cteVars
    OBVIOUS
  <1>8. QED
    BY <1>1, <1>2, <1>3, <1>4, <1>5, <1>6, <1>7, PTL
       DEF PartsSpec, Spec, X86VmeSpec, X86RtcSpec, SnapshotSpec, MemSpec, X86CteSpec

(* Trace, page tables, clock, snapshot, memory and contexts stay within    *)
(* their types, and their promises hold together, for every size of them   *)
(* (instr_trace.c, snapshot.c, memory.c; vme.c, cte.c and ioe.c of         *)
(* x86/qemu).                                                              *)
THEOREM PartsSafe ==
  ASSUME SpacesAllocated
  PROVE  PartsSpec => /\ [](/\ PartsTypeOK
                            /\ TablesOwned /\ KernelEverywhere /\ RunsInOwnSpace
                            /\ RestoresOneMoment /\ MemorySound /\ ClockReadsSound)
                      /\ DisplaysRecent /\ ImplementsAddressSpaces
  <1>1. TraceTypeOK /\ X86VmeTypeOK /\ X86RtcTypeOK /\ SnapshotTypeOK /\ MemTypeOK /\ X86CteTypeOK
          => PartsTypeOK
    BY DEF PartsTypeOK
  <1>2. QED
    BY <1>1, PartSpecs, TraceTypeCorrect, PageTablesSound, UserThreadsKeepTheirSpace,
       SnapshotsRestoreOneMoment, GuestMemorySound, ClockReadersSound, TraceImplementsLog,
       TablesImplementSpaces, PTL
=============================================================================
