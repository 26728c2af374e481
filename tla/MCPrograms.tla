----------------------------- MODULE MCPrograms -----------------------------
(***************************************************************************)
(* Programs for the two cores on 4-bit words.  Memory has four words; all  *)
(* of them hold an instruction, so that a program of four instructions     *)
(* runs and the pc wraps from the last to the first.  A memory cell is one *)
(* aligned word [i, d]: what it reads as when fetched and when loaded.  A  *)
(* store changes d only: the programs of this model do not modify          *)
(* themselves.                                                             *)
(***************************************************************************)
EXTENDS RV32I, RV32Alu

CONSTANTS Menu,       \* names of the instructions programs are made of
          FirstMenu   \* those that may stand at the reset vector

MCRegs == 0 .. 2

MCFn == {[f3 |-> n, f7b5 |-> 0] : n \in {0, 1, 2, 6}} \union {[f3 |-> 0, f7b5 |-> 1]}

MCFnAdd == [f3 |-> 0, f7b5 |-> 0]

F(n) == [f3 |-> n, f7b5 |-> 0]

I(op, rd, rs1, rs2, fn, imm) ==
  [op |-> op, rd |-> rd, rs1 |-> rs1, rs2 |-> rs2, fn |-> fn, imm |-> imm]

(* Fields an instruction does not use hold whatever its encoding puts      *)
(* there; here they name registers in use, the worst case for the hazard   *)
(* unit.                                                                   *)
Named ==
  [nop    |-> NOP,
   addi1  |-> I("ALUI", 1, 1, 1, F(0), 1),
   addi2  |-> I("ALUI", 2, 1, 0, F(0), 5),
   sub    |-> I("ALU", 1, 2, 1, [f3 |-> 0, f7b5 |-> 1], 0),
   slt    |-> I("ALU", 2, 1, 2, F(2), 0),
   addi0  |-> I("ALUI", 0, 1, 2, F(0), 3),
   lui    |-> I("LUI", 1, 2, 1, F(0), 6),
   auipc  |-> I("AUIPC", 2, 1, 2, F(0), 8),
   lw1    |-> I("LOAD", 1, 0, 2, F(2), 4),
   lw2    |-> I("LOAD", 2, 2, 1, F(2), 4),
   lw0    |-> I("LOAD", 0, 1, 0, F(2), 4),
   sw1    |-> I("STORE", 1, 0, 1, F(2), 4),
   sw2    |-> I("STORE", 2, 1, 2, F(2), 8),
   bne    |-> I("BRANCH", 1, 1, 2, F(1), 12),
   beq0   |-> I("BRANCH", 2, 2, 0, F(0), 8),
   jal    |-> I("JAL", 1, 2, 1, F(0), 8),
   jalr   |-> I("JALR", 2, 1, 2, F(0), 1),
   fence  |-> I("FENCE", 1, 2, 1, F(0), 0),
   system |-> I("SYSTEM", 2, 1, 1, F(0), 0),
   amo    |-> I("OTHER", 1, 2, 2, F(2), 0),
   ebreak |-> I("SYSTEM", 0, 0, 1, F(0), 1),
   csrw   |-> I("SYSTEM", 0, 1, 2, F(1), 5),
   rdtime |-> I("SYSTEM", 2, 0, 1, F(2), 1)]

MCInstr == {NOP} \union {Named[n] : n \in Menu \union FirstMenu}

MCCell == [i : MCInstr, d : Words]

MCPlus4(a) == WAdd(a, 4)

MCIndex(a) == a - (a % 4)

MCDecode(a, c) == c.i

MCExtract(f, a, c) == c.d

MCInsert(f, a, c, d) == [c EXCEPT !.d = d]

Image(n0, n1, n2, n3) ==
  [a \in Words |-> [i |-> Named[CASE MCIndex(a) = 0 -> n0
                                  [] MCIndex(a) = 4 -> n1
                                  [] MCIndex(a) = 8 -> n2
                                  [] OTHER          -> n3],
                    d |-> MCIndex(a) + 3]]

MCImages == {Image(n0, n1, n2, n3) : n0 \in FirstMenu, n1, n2, n3 \in Menu}
=============================================================================
