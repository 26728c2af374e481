-------------------------------- MODULE Klib --------------------------------
(***************************************************************************)
(* Routines of klib that other programs rely on: copying in one memory     *)
(* (string.c), printing a number (stdio.c) and dividing double words on a  *)
(* machine that divides single words only (int64.c).                       *)
(*                                                                         *)
(* A memory is a function from addresses 0 .. n-1 to characters, 0 is NUL. *)
(* A word has W bits and a double word 2 W.                                *)
(***************************************************************************)
EXTENDS Integers, Sequences, SequencesExt

CONSTANT W

NUL == 0

Assign(m, d, s) == [m EXCEPT ![d] = m[s]]

(* d[i] = s[i] for the indices is, in that order *)
CopyInOrder(m, dst, src, is) ==
  LET after[k \in 0 .. Len(is)] == IF k = 0 THEN m ELSE Assign(after[k - 1], dst + is[k], src + is[k]) IN
  after[Len(is)]

Upward(n) == [k \in 1 .. n |-> k - 1]
Downward(n) == [k \in 1 .. n |-> n - k]

(* Faulty variant: always upward. *)
MemmoveUpward(m, dst, src, n) == CopyInOrder(m, dst, src, Upward(n))

memmove(m, dst, src, n) ==
  CopyInOrder(m, dst, src, IF dst < src THEN Upward(n) ELSE Downward(n))

memcpy(m, dst, src, n) == CopyInOrder(m, dst, src, Upward(n))

strlen(m, s) == (CHOOSE e \in DOMAIN m : e >= s /\ m[e] = NUL /\ \A i \in s .. e - 1 : m[i] # NUL) - s

(* The length is taken first; then the NUL is stored after the copy. *)
strcpy(m, dst, src) ==
  LET len == strlen(m, src) IN
  [CopyInOrder(m, dst, src, Upward(len)) EXCEPT ![dst + len] = NUL]

(* At most n characters, and NULs up to n of them. *)
strncpy(m, dst, src, n) ==
  LET len == IF \E i \in 0 .. n - 1 : m[src + i] = NUL THEN strlen(m, src) ELSE n
      copied == CopyInOrder(m, dst, src, Upward(len)) IN
  [a \in DOMAIN m |-> IF a \in dst + len .. dst + n - 1 THEN NUL ELSE copied[a]]

strcat(m, dst, src) == strcpy(m, dst + strlen(m, dst), src)

(* The sign of the first difference, 0 if there is none before the end. *)
strcmp(m, s1, s2) ==
  LET differ == {i \in 0 .. strlen(m, s1) : i <= strlen(m, s2) /\ m[s1 + i] # m[s2 + i]} IN
  IF differ = {} THEN 0
  ELSE LET i == CHOOSE i \in differ : \A j \in differ : i <= j IN m[s1 + i] - m[s2 + i]

-----------------------------------------------------------------------------
INT_MIN == -(2 ^ (2 * W - 1))

(* C division and remainder: towards zero. *)
Quot(a, b) == IF a < 0 THEN -((-a) \div b) ELSE a \div b
Rem(a, b) == a - b * Quot(a, b)

(* -num in a machine word *)
Negate(num) == IF num = INT_MIN THEN INT_MIN ELSE -num

(* The digits of num, the last one first. *)
LowestFirst ==
  LET f[num \in INT_MIN .. 2 ^ (2 * W)] ==
        IF num = 0 THEN <<>> ELSE <<Rem(num, 10)>> \o f[Quot(num, 10)]
  IN f

(* A number as text: its sign and its digits. *)
Text(negative, digits) == [neg |-> negative, digits |-> digits]

IntToStrAny(num) ==
  IF num = 0 THEN Text(FALSE, <<0>>)
  ELSE Text(num < 0, Reverse(LowestFirst[IF num < 0 THEN Negate(num) ELSE num]))

(* The text of the smallest number is spelled out: it has no negative. *)
int_to_str(num) ==
  IF num = INT_MIN THEN Text(TRUE, Reverse(LowestFirst[2 ^ (2 * W - 1)]))
  ELSE IntToStrAny(num)

-----------------------------------------------------------------------------
High(x) == x \div 2 ^ W
Low(x) == x % 2 ^ W
Pack(h, l) == h * 2 ^ W + l
Shl(x, k) == (x * 2 ^ k) % 2 ^ W
Shr(x, k) == x \div 2 ^ k
Double(x) == x % 2 ^ (2 * W)
Msb(x) == x \div 2 ^ (2 * W - 1)

PowerOfTwo(x) == \E k \in 0 .. W - 1 : x = 2 ^ k

(* Half the word, a quarter of it ... down to 2 bits. *)
Halves == SetToSortSeq({h \in 2 .. W : \E k \in 1 .. W : h * 2 ^ k = W}, LAMBDA x, y : x > y)

(* Leading zeros of a word that is not 0, by halving. *)
__clzsi2(a) ==
  LET step(p, h) == IF Shr(p.x, h) = 0 THEN [p EXCEPT !.r = @ + h] ELSE [p EXCEPT !.x = Shr(@, h)]
      p == FoldLeft(step, [x |-> a, r |-> 0], Halves) IN
  p.r + (IF p.x = 0 THEN 2 ELSE IF p.x = 1 THEN 1 ELSE 0)

(* Trailing zeros; the bits above the half looked at stay. *)
__ctzsi2(a) ==
  LET step(p, h) == IF p.x % 2 ^ h = 0 THEN [x |-> Shr(p.x, h), r |-> p.r + h] ELSE p
      p == FoldLeft(step, [x |-> a, r |-> 0], Halves)
      x == p.x % 4 IN
  p.r + (IF x = 0 THEN 2 ELSE IF x = 2 THEN 1 ELSE 0)

(* [q, r] = [a << (2W - sr), a >> sr], word by word: a word is never       *)
(* shifted by its whole width.                                             *)
ShiftedApart(a, sr) ==
  LET h == High(a)
      l == Low(a) IN
  IF sr = W THEN [q |-> Pack(l, 0), r |-> Pack(0, h)]
  ELSE IF sr < W
    THEN [q |-> Pack(Shl(l, W - sr), 0), r |-> Pack(Shr(h, sr), Shl(h, W - sr) + Shr(l, sr))]
  ELSE [q |-> Pack(Shl(h, 2 * W - sr) + Shr(l, sr - W), Shl(l, 2 * W - sr)), r |-> Pack(0, Shr(h, sr - W))]

(* One bit of the quotient: shift r:q left, subtract d if it fits. *)
DivideStep(p, d) ==
  LET r == Double(2 * p.r + Msb(p.q))
      carry == Msb(Double(d - r - 1)) IN
  [q |-> Double(2 * p.q + p.carry), r |-> Double(r - carry * d), carry |-> carry]

DivideFrom(a, d, sr) ==
  LET p == ShiftedApart(a, sr)
      out == FoldLeft(LAMBDA x, i : DivideStep(x, d),
                      [q |-> p.q, r |-> p.r, carry |-> 0], [i \in 1 .. sr |-> i]) IN
  <<Double(2 * out.q + out.carry), out.r>>

(* Quotient and remainder of double words, b not 0. *)
__udivmoddi4(a, b) ==
  LET nh == High(a)
      nl == Low(a)
      dh == High(b)
      dl == Low(b)
      sr == __clzsi2(dh) - __clzsi2(nh) IN
  CASE nh = 0 /\ dh = 0 -> <<nl \div dl, nl % dl>>
    [] nh = 0 /\ dh # 0 -> <<0, nl>>
    [] nh # 0 /\ dl = 0 ->
         IF nl = 0 THEN <<nh \div dh, Pack(nh % dh, 0)>>
         ELSE IF PowerOfTwo(dh) THEN <<Shr(nh, __ctzsi2(dh)), Pack(nh % dh, nl)>>
         ELSE IF sr \notin 0 .. W - 2 THEN <<0, a>>
         ELSE DivideFrom(a, b, sr + 1)
    [] nh # 0 /\ dl # 0 /\ dh = 0 ->
         IF dl = 1 THEN <<a, 0>>
         ELSE IF PowerOfTwo(dl)
           THEN LET k == __ctzsi2(dl) IN <<Pack(Shr(nh, k), Shl(nh, W - k) + Shr(nl, k)), nl % dl>>
         ELSE DivideFrom(a, b, 1 + W + __clzsi2(dl) - __clzsi2(nh))
    [] nh # 0 /\ dl # 0 /\ dh # 0 ->
         IF sr \notin 0 .. W - 1 THEN <<0, a>> ELSE DivideFrom(a, b, sr + 1)

(* (x ^ s) - s for s = -1 or 0 *)
NegateIf(x, s) == IF s THEN Double(-x) ELSE x

__divdi3(a, b) ==
  LET sa == Msb(a) = 1
      sb == Msb(b) = 1 IN
  NegateIf(__udivmoddi4(NegateIf(a, sa), NegateIf(b, sb))[1], sa # sb)

__moddi3(a, b) ==
  NegateIf(__udivmoddi4(NegateIf(a, Msb(a) = 1), NegateIf(b, Msb(b) = 1))[2], Msb(a) = 1)
=============================================================================
