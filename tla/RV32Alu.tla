------------------------------ MODULE RV32Alu ------------------------------
(***************************************************************************)
(* The data path of execute.v and execute_pipe.v at a width of XLEN bits:  *)
(* words are 0 .. 2^XLEN - 1, arithmetic wraps, and the signed operations  *)
(* read the same bits in two's complement.  A funct is [f3, f7b5]: funct3  *)
(* and bit 5 of funct7.                                                    *)
(***************************************************************************)
EXTENDS Integers

CONSTANT XLEN   \* 32 in the source

ASSUME XLENAssumption == XLEN \in Nat \ {0}

Modulus == 2 ^ XLEN

Words == 0 .. Modulus - 1

Functs == [f3 : 0 .. 7, f7b5 : 0 .. 1]

Bits(a) == {k \in 0 .. XLEN - 1 : (a \div 2 ^ k) % 2 = 1}

(* The word whose bits are S *)
FromBits(S) ==
  LET sum[k \in 0 .. XLEN] == IF k = 0 THEN 0 ELSE sum[k - 1] + (IF k - 1 \in S THEN 2 ^ (k - 1) ELSE 0) IN
  sum[XLEN]

WAdd(a, b) == (a + b) % Modulus

WSub(a, b) == (a + Modulus - b) % Modulus

Negative(a) == (XLEN - 1) \in Bits(a)

(* $signed(a) < $signed(b) *)
SignedLess(a, b) ==
  IF Negative(a) = Negative(b) THEN a < b ELSE Negative(a)

(* shamt: the low log2(XLEN) bits of the operand ([4:0] for 32 bits) *)
Shamt(b) == b % XLEN

ShiftLeft(a, n) == (a * 2 ^ n) % Modulus

ShiftRight(a, n) == a \div 2 ^ n

(* Faulty variant: >>> of an operand that has lost its sign. *)
ShiftRightUnsigned(a, n) == a \div 2 ^ n

(* >>> : the sign bit moves in *)
ShiftRightArith(a, n) ==
  FromBits({k \in 0 .. XLEN - 1 :
              IF k + n < XLEN THEN k + n \in Bits(a) ELSE Negative(a)})

Flag(p) == IF p THEN 1 ELSE 0

(* alu_result_o for OP_ALU and OP_ALUI: funct7[5] selects SUB only in the  *)
(* register form, SRA in both.                                             *)
WAlu(op, f, a, b) ==
  CASE f.f3 = 0 -> IF op = "ALU" /\ f.f7b5 = 1 THEN WSub(a, b) ELSE WAdd(a, b)
    [] f.f3 = 1 -> ShiftLeft(a, Shamt(b))
    [] f.f3 = 2 -> Flag(SignedLess(a, b))
    [] f.f3 = 3 -> Flag(a < b)
    [] f.f3 = 4 -> FromBits((Bits(a) \union Bits(b)) \ (Bits(a) \intersect Bits(b)))
    [] f.f3 = 5 -> IF f.f7b5 = 1 THEN ShiftRightArith(a, Shamt(b))
                   ELSE ShiftRight(a, Shamt(b))
    [] f.f3 = 6 -> FromBits(Bits(a) \union Bits(b))
    [] f.f3 = 7 -> FromBits(Bits(a) \intersect Bits(b))

(* branch_cond; funct3 2 and 3 are not branches and are never taken *)
WBranchCond(f, a, b) ==
  CASE f.f3 = 0 -> a = b
    [] f.f3 = 1 -> a # b
    [] f.f3 = 4 -> SignedLess(a, b)
    [] f.f3 = 5 -> ~SignedLess(a, b)
    [] f.f3 = 6 -> a < b
    [] f.f3 = 7 -> a >= b
    [] OTHER    -> FALSE

(* & 32'hFFFFFFFE *)
WEven(a) == a - (a % 2)
=============================================================================
