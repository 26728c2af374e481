----------------------------- MODULE Algorithms -----------------------------
(***************************************************************************)
(* The ALU of the RV32I cores and klib's routines against what they are    *)
(* meant to compute, on every input: an ALU operation and its operands, a  *)
(* division of double words, a memory.                                     *)
(***************************************************************************)
EXTENDS RV32Alu, Klib

CONSTANTS
  Size,   \* of the memory
  Chars   \* the characters in it

ASSUME SizeAssumption == Size \in Nat /\ Chars \subseteq Int /\ NUL \in Chars

(* What 2 ^ k is, as far as words have bits. *)
ASSUME PowersOfTwo ==
  2 ^ 0 = 1 /\ \A k \in 0 .. XLEN : 2 ^ k \in Nat \ {0} /\ 2 ^ (k + 1) = 2 * 2 ^ k

VARIABLES
  part,                  \* what the behaviour is about: "alu", "div", "copy" ...
  insn, funct, rs1, rs2, \* an ALU operation and its operands
  num, den,              \* a division of double words
  bytes                  \* a memory

aluVars == <<insn, funct, rs1, rs2>>
algVars == <<part, aluVars, num, den, bytes>>

Memories == [0 .. Size - 1 -> Chars]
Doubles == 0 .. 2 ^ (2 * W) - 1

If(p, S, dflt) == IF part = p THEN S ELSE {dflt}

AlgInit ==
  /\ insn \in If("alu", {"ALU", "ALUI"}, "ALU")
  /\ funct \in If("alu", Functs, [f3 |-> 0, f7b5 |-> 0])
  /\ rs1 \in If("alu", Words, 0)
  /\ rs2 = 0
  /\ num \in If("div", Doubles, 0)
  /\ den = 1
  /\ bytes \in If("copy", Memories, [i \in 0 .. Size - 1 |-> NUL])

Operand ==
  /\ part = "alu"
  /\ rs2' = WAdd(rs2, 1)
  /\ UNCHANGED <<part, insn, funct, rs1, num, den, bytes>>

Divisor ==
  /\ part = "div"
  /\ den' = IF den = 2 ^ (2 * W) - 1 THEN 1 ELSE den + 1
  /\ UNCHANGED <<part, aluVars, num, bytes>>

Other ==
  /\ part = "copy"
  /\ bytes' \in Memories
  /\ UNCHANGED <<part, aluVars, num, den>>

AlgNext == Operand \/ Divisor \/ Other

AlgSpec == AlgInit /\ [][AlgNext]_algVars

-----------------------------------------------------------------------------
(* The two's complement value of a word of w bits. *)
SignedValue(v, w) == IF v < 2 ^ (w - 1) THEN v ELSE v - 2 ^ w

Bit(v, k) == (v \div 2 ^ k) % 2

(* What the arithmetic instructions mean on integers. *)
Meant(op, f, a, b) ==
  LET sh == b % XLEN
      sa == SignedValue(a, XLEN)
      sb == SignedValue(b, XLEN) IN
  CASE f.f3 = 0 -> IF op = "ALU" /\ f.f7b5 = 1 THEN sa - sb ELSE sa + sb
    [] f.f3 = 1 -> sa * 2 ^ sh
    [] f.f3 = 2 -> IF sa < sb THEN 1 ELSE 0
    [] f.f3 = 3 -> IF a < b THEN 1 ELSE 0
    [] f.f3 = 5 -> (IF f.f7b5 = 1 THEN sa ELSE a) \div 2 ^ sh

(* What the logical ones mean on bits. *)
MeantBit(f, x, y) ==
  CASE f.f3 = 4 -> (x + y) % 2
    [] f.f3 = 6 -> x + y - x * y
    [] f.f3 = 7 -> x * y

Computes(op, f, a, b, r) ==
  /\ r \in Words
  /\ IF f.f3 \in {4, 6, 7} THEN \A k \in 0 .. XLEN - 1 : Bit(r, k) = MeantBit(f, Bit(a, k), Bit(b, k))
     ELSE (r - Meant(op, f, a, b)) % 2 ^ XLEN = 0

Taken(f3, v, w) == WBranchCond([f3 |-> f3, f7b5 |-> 0], v, w)
IsSet(f3, v, w) == WAlu("ALU", [f3 |-> f3, f7b5 |-> 0], v, w) = 1

(* The branch lt and its opposite decide as the instruction slt does. *)
DecidesLikeSlt(lt, slt, v, w) ==
  /\ Taken(lt, v, w) = IsSet(slt, v, w)
  /\ Taken(lt + 1, v, w) = ~Taken(lt, v, w)
  /\ Taken(0, v, w) = (~Taken(lt, v, w) /\ ~Taken(lt, w, v))
  /\ Taken(1, v, w) = (Taken(lt, v, w) # Taken(lt, w, v))

(* Every ALU operation computes its integer meaning modulo 2^XLEN, at the  *)
(* sign boundary and for every shift amount, or its meaning bit by bit,    *)
(* and the branches decide as slt and sltu compute: exactly one of a < b,  *)
(* b < a and a = b holds (execute_pipe.v:63-137).                          *)
AluMeaning ==
  part = "alu" =>
    /\ Computes(insn, funct, rs1, rs2, WAlu(insn, funct, rs1, rs2))
    /\ DecidesLikeSlt(4, 2, rs1, rs2)
    /\ DecidesLikeSlt(6, 3, rs1, rs2)

-----------------------------------------------------------------------------
(* n characters moved from src to dst in m: the ones that were at src, and *)
(* nothing else changed.                                                   *)
IsMoved(m, new, dst, src, n) ==
  \A i \in DOMAIN m : new[i] = IF i \in dst .. dst + n - 1 THEN m[i - dst + src] ELSE m[i]

(* The same, with NULs from the first NUL on. *)
IsPadded(m, new, dst, src, n) ==
  \A i \in DOMAIN m :
    new[i] = IF i \notin dst .. dst + n - 1 THEN m[i]
             ELSE IF \E j \in 0 .. i - dst : m[src + j] = NUL THEN NUL ELSE m[i - dst + src]

HasString(m, s) == \E i \in DOMAIN m : i >= s /\ m[i] = NUL
Overlap(s, t, n) == s < t + n /\ t < s + n

(* Copies of n characters within the memory *)
CopiesBlock(m, dst, src, n) ==
  /\ IsMoved(m, memmove(m, dst, src, n), dst, src, n)
  /\ ~Overlap(dst, src, n) =>
       /\ IsMoved(m, memcpy(m, dst, src, n), dst, src, n)
       /\ IsPadded(m, strncpy(m, dst, src, n), dst, src, n)

(* Copies of the string at src, of length len, with its NUL *)
CopiesString(m, dst, src, len) ==
  /\ dst + len < Size /\ ~Overlap(dst, src, len + 1) =>
       IsMoved(m, strcpy(m, dst, src), dst, src, len + 1)
  /\ HasString(m, dst) =>
       LET end == dst + strlen(m, dst) IN
       /\ end + len < Size /\ ~Overlap(dst, src, end - dst + len + 1) =>
            IsMoved(m, strcat(m, dst, src), end, src, len + 1)
       /\ (strcmp(m, dst, src) = 0) =
          (strlen(m, dst) = len /\ \A i \in 0 .. len : m[dst + i] = m[src + i])

(* klib copies what C asks for: memmove also when the ranges overlap, the  *)
(* others where C allows it; strncpy writes exactly n characters, strcpy   *)
(* and strcat the whole string, and strcmp gives 0 for equal strings only  *)
(* (string.c:8-139).                                                       *)
CopyMeaning ==
  part = "copy" =>
    \A dst, src \in DOMAIN bytes :
      /\ \A n \in 0 .. Size : dst + n <= Size /\ src + n <= Size => CopiesBlock(bytes, dst, src, n)
      /\ HasString(bytes, src) => CopiesString(bytes, dst, src, strlen(bytes, src))

-----------------------------------------------------------------------------
Abs(v) == IF v < 0 THEN -v ELSE v

(* C's quotient *)
Truncated(v, w) == IF (v < 0) # (w < 0) THEN -(Abs(v) \div Abs(w)) ELSE Abs(v) \div Abs(w)

(* The number a text stands for. *)
NumberOf(t) ==
  LET v == FoldLeft(LAMBDA n, d : 10 * n + d, 0, t.digits) IN IF t.neg THEN -v ELSE v

(* klib divides double words as C asks for, signed and unsigned, for every *)
(* split into words; a number's text is its value, the smallest number     *)
(* included (int64.c:355-695, stdio.c:84-135).                             *)
DivisionMeaning ==
  part = "div" =>
    LET sx == SignedValue(num, 2 * W)
        sy == SignedValue(den, 2 * W) IN
    /\ __udivmoddi4(num, den) = <<num \div den, num % den>>
    /\ __divdi3(num, den) = Double(Truncated(sx, sy))
    /\ __moddi3(num, den) = Double(sx - sy * Truncated(sx, sy))
    /\ NumberOf(int_to_str(sx)) = sx
    /\ \A d \in Range(int_to_str(sx).digits) : d \in 0 .. 9
=============================================================================
