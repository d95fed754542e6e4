-------------------------------- MODULE Alu --------------------------------
(***************************************************************************)
(* What the translator makes of the integer instructions of a MIPS32 core  *)
(* (target/mips/tcg/translate.c): the code that it emits, with its short   *)
(* cuts for register 0 and for equal operands, beside what the instruction *)
(* means.  A word has W bits, a power of two, and four bytes of W / 4.     *)
(***************************************************************************)
EXTENDS Integers, FiniteSets, FiniteSetsExt

CONSTANTS
  W,
  Accs,          \* what HI and LO hold when a multiply-add begins
  Memory         \* byte -> value: two words, little endian

Size == 2 ^ W
Words == 0 .. Size - 1
ByteBits == W \div 4
BitsOf(x) == {i \in 0 .. W - 1 : (x \div 2 ^ i) % 2 = 1}
WordOf(bits) == MapThenSumSet(LAMBDA i : 2 ^ i, bits)
Sign(x) == x >= Size \div 2
Signed(x) == IF Sign(x) THEN x - Size ELSE x
Fits(x) == -(Size \div 2) <= x /\ x < Size \div 2
Flip(x) == Size - 1 - x
Both(x, y) == WordOf(BitsOf(x) \cap BitsOf(y))
Either(x, y) == WordOf(BitsOf(x) \cup BitsOf(y))
Differ(x, y) == WordOf((BitsOf(x) \cup BitsOf(y)) \ (BitsOf(x) \cap BitsOf(y)))
Left(x, n) == (x * 2 ^ n) % Size
Right(x, n) == x \div 2 ^ n

----------------------------------------------------------------------------
(* A result is the new value of the destination, or why there is none.  Words    *)
(* are given with the numbers of their registers, for the short cuts.           *)
Value(x) == [out |-> "value", value |-> x]
Trap(why) == [out |-> why, value |-> 0]

(* gen_arith, gen_arith_imm.  ADD and ADDI find the overflow in the signs.       *)
AddOverflows(a, b, s) == Sign(Both(Differ(s, b), Flip(Differ(a, b))))
SubOverflows(a, b, s) == Sign(Both(Differ(s, a), Differ(a, b)))
AddiOverflows(a, imm, s) == Sign(Both(Differ(a, Flip(imm)), Differ(s, imm)))

Arith(op, rs, rt, a, b) ==
  LET sum == (a + b) % Size
      difference == (a - b) % Size
  IN  CASE op = "ADD"  -> IF AddOverflows(a, b, sum) THEN Trap("overflow") ELSE Value(sum)
        [] op = "SUB"  -> IF SubOverflows(a, b, difference) THEN Trap("overflow")
                          ELSE Value(difference)
        [] op = "ADDI" -> IF AddiOverflows(a, b, sum) THEN Trap("overflow") ELSE Value(sum)
        [] op \in {"ADDU", "ADDIU"} ->
             Value(IF rs = 0 THEN b ELSE IF rt = 0 THEN a ELSE sum)
        [] op = "SUBU" -> Value(IF rt = 0 THEN a ELSE IF rs = 0 THEN (Size - b) % Size
                                ELSE difference)
        [] op = "MUL"  -> Value(IF rs # 0 /\ rt # 0 THEN (a * b) % Size ELSE 0)

(* gen_logic, gen_logic_imm: an immediate has the low half of a word only.       *)
Logic(op, rs, rt, a, b) ==
  CASE op = "AND" -> Value(IF rs # 0 /\ rt # 0 THEN Both(a, b) ELSE 0)
    [] op = "OR"  -> Value(IF rs # 0 /\ rt # 0 THEN Either(a, b) ELSE IF rs = 0 THEN b ELSE a)
    [] op = "XOR" -> Value(IF rs # 0 /\ rt # 0 THEN Differ(a, b) ELSE IF rs = 0 THEN b ELSE a)
    [] op = "NOR" -> Value(Flip(IF rs # 0 /\ rt # 0 THEN Either(a, b)
                                ELSE IF rs = 0 THEN b ELSE a))

LogicImmediate(op, rs, a, imm) ==
  CASE op = "AND" -> Value(IF rs # 0 THEN Both(a, imm) ELSE 0)
    [] op = "OR"  -> Value(IF rs # 0 THEN Either(a, imm) ELSE imm)
    [] op = "XOR" -> Value(IF rs # 0 THEN Differ(a, imm) ELSE imm)

(* gen_shift, gen_shift_imm: the value is in rt, the amount in rs.               *)
Arithmetic(b, n) == IF Sign(b) THEN Flip(Right(Flip(b), n)) ELSE Right(b, n)
Rotated(b, n) == (Right(b, n) + Left(b, W - n)) % Size

Shift(op, a, b) ==
  LET n == a % W
  IN  CASE op = "SLLV" -> Value(Left(b, n))
        [] op = "SRLV" -> Value(Right(b, n))
        [] op = "SRAV" -> Value(Arithmetic(b, n))
        [] op = "ROTRV" -> Value(Rotated(b, n))

(* gen_cl counts leading zeros, of the complement for CLO.                       *)
LeadingZeros(x) == IF x = 0 THEN W ELSE W - 1 - Max(BitsOf(x))

(* gen_bshfl: halfwords are two bytes, and a byte's bits stay in order.          *)
Lows == UNION {{ByteBits * h + i : i \in 0 .. ByteBits - 1} : h \in {0, 2}}
Extend(x, bits) == IF bits - 1 \in BitsOf(x) THEN Size - 2 ^ bits + (x % 2 ^ bits)
                   ELSE x % 2 ^ bits

Bytes(op, b) ==
  CASE op = "WSBH" -> Value(Either(Both(Right(b, ByteBits), WordOf(Lows)),
                                   Left(Both(b, WordOf(Lows)), ByteBits)))
    [] op = "SEB"  -> Value(Extend(b, ByteBits))
    [] op = "SEH"  -> Value(Extend(b, 2 * ByteBits))
    [] op = "CLZ"  -> Value(LeadingZeros(b))
    [] op = "CLO"  -> Value(LeadingZeros(Flip(b)))

(* gen_bitops *)
Field(op, a, old, lsb, msb) ==
  CASE op = "EXT" /\ lsb + msb > W - 1 -> Trap("reserved")
    [] op = "EXT" /\ lsb + msb <= W - 1 ->
         Value(IF msb # W - 1 THEN Right(a, lsb) % 2 ^ (msb + 1) ELSE a)
    [] op = "INS" /\ lsb > msb -> Trap("reserved")
    [] op = "INS" /\ lsb <= msb ->
         LET field == {i \in 0 .. W - 1 : lsb <= i /\ i <= msb}
         IN  Value(Either(WordOf(BitsOf(old) \ field),
                          WordOf(BitsOf(Left(a, lsb)) \cap field)))

(* gen_lxl, gen_lxr: the word around an unaligned address, merged with old.      *)
WordAt(addr) ==
  MapThenSumSet(LAMBDA k : Memory[addr - (addr % 4) + k] * 2 ^ (ByteBits * k), 0 .. 3)

LoadLeft(old, addr) ==
  LET n == ByteBits * (3 - (addr % 4))
  IN  Either(Left(WordAt(addr), n), Both(old, Flip(Left(Size - 1, n))))

LoadRight(old, addr) ==
  LET n == ByteBits * (addr % 4)
  IN  Either(Right(WordAt(addr), n), Both(old, Left(Size - 2, W - 1 - n)))

(* gen_ld, gen_st: no other access may be unaligned; a store that is traps, and     *)
(* leaves memory alone.  ByteOf is the byte k of a word.                         *)
ByteOf(x, k) == Right(x, ByteBits * k) % 2 ^ ByteBits
Width(op) == CASE op \in {"LB", "LBU", "SB"} -> 1
               [] op \in {"LH", "LHU", "SH"} -> 2
               [] op \in {"LW", "LL", "SW"} -> 4

Load(op, addr, memory) ==
  LET n == Width(op)
      x == MapThenSumSet(LAMBDA k : memory[addr + k] * 2 ^ (ByteBits * k), 0 .. n - 1)
  IN  IF addr % n # 0 THEN Trap("address")
      ELSE Value(IF op \in {"LBU", "LHU"} THEN x ELSE Extend(x, ByteBits * n))

Store(op, addr, x, memory) ==
  IF addr % Width(op) # 0 THEN memory
  ELSE [k \in DOMAIN memory |-> IF k - addr \in 0 .. Width(op) - 1 THEN ByteOf(x, k - addr)
                                ELSE memory[k]]

(* gen_st_cond: it compares what LL saw, not whether something was written.       *)
StoreConditional(addr, x, link, memory) ==
  LET holds == addr = link.addr /\ Load("LW", addr, memory).value = link.value
  IN  [done |-> holds, memory |-> IF holds THEN Store("SW", addr, x, memory) ELSE memory]

(* gen_slt, gen_slt_imm (the immediate is extended by its sign, also to be compared *)
(* without signs), gen_cond_move.                                                *)
Less(op, a, b) ==
  Value(IF (op = "SLT" /\ Signed(a) < Signed(b)) \/ (op = "SLTU" /\ a < b) THEN 1 ELSE 0)

LessImmediate(op, a, imm) ==
  Less(IF op = "SLTI" THEN "SLT" ELSE "SLTU", a, Extend(imm, W \div 2))

Move(op, old, a, b) == Value(IF (op = "MOVN") = (b # 0) THEN a ELSE old)

(* gen_trap, and the conditions of gen_compute_branch: what is known when both    *)
(* registers are one is not computed.                                            *)
Condition(op, rs, rt, a, b) ==
  LET same == rs = rt
  IN  CASE op \in {"TEQ", "BEQ"} -> same \/ a = b
        [] op \in {"TNE", "BNE"} -> ~same /\ a # b
        [] op \in {"TGE", "BGEZ"} -> same \/ Signed(a) >= Signed(b)
        [] op \in {"TLT", "BLTZ"} -> ~same /\ Signed(a) < Signed(b)
        [] op = "TGEU" -> same \/ a >= b
        [] op = "TLTU" -> ~same /\ a < b
        [] op = "BGTZ" -> ~same /\ Signed(a) > Signed(b)
        [] op = "BLEZ" -> same \/ Signed(a) <= Signed(b)

(* gen_muldiv: <<HI, LO>>.  A division that the host would trap on gets another    *)
(* divisor: 1 in place of 0, and for the least number by -1.  Crash stands for    *)
(* what the host would do to the emulator.                                       *)
Crash == <<Size, Size>>
Quotient(x, y) == IF (x >= 0) = (y > 0) THEN (IF x >= 0 THEN x ELSE -x) \div (IF y > 0 THEN y ELSE -y)
                  ELSE -((IF x >= 0 THEN x ELSE -x) \div (IF y > 0 THEN y ELSE -y))
Pair(x) == <<(x \div Size) % Size, x % Size>>

(* A fault: the host divides the least number by -1.                             *)
ZeroDivisor(a, b) == IF b = 0 THEN 1 ELSE b

Divisor(a, b) == IF b = 0 \/ (a = Size \div 2 /\ b = Size - 1) THEN 1 ELSE b

MulDiv(op, a, b, hi, lo) ==
  LET d == Signed(Divisor(a, b))
      q == Quotient(Signed(a), d)
      u == IF b = 0 THEN 1 ELSE b
      acc == hi * Size + lo
  IN  CASE op = "DIV"   -> IF Fits(q) THEN <<(Signed(a) - q * d) % Size, q % Size>> ELSE Crash
        [] op = "DIVU"  -> <<a % u, a \div u>>
        [] op = "MULT"  -> Pair(Signed(a) * Signed(b))
        [] op = "MULTU" -> Pair(a * b)
        [] op = "MADD"  -> Pair(acc + Signed(a) * Signed(b))
        [] op = "MADDU" -> Pair(acc + a * b)
        [] op = "MSUB"  -> Pair(acc - Signed(a) * Signed(b))
        [] op = "MSUBU" -> Pair(acc - a * b)

----------------------------------------------------------------------------
(* What the instructions mean, in integers and bits.                             *)
Sum(op, a, b) == IF op \in {"SUB", "SUBU"} THEN Signed(a) - Signed(b) ELSE Signed(a) + Signed(b)

ArithMeans(op, a, b) ==
  CASE op \in {"ADD", "ADDI", "SUB"} /\ ~Fits(Sum(op, a, b)) -> Trap("overflow")
    [] op = "MUL" -> Value((Signed(a) * Signed(b)) % Size)
    [] OTHER -> Value(Sum(op, a, b) % Size)

Bit(op, x, y) == CASE op = "AND" -> x /\ y [] op = "OR" -> x \/ y
                   [] op = "XOR" -> x # y   [] op = "NOR" -> ~(x \/ y)
LogicMeans(op, a, b) ==
  {i \in 0 .. W - 1 : Bit(op, i \in BitsOf(a), i \in BitsOf(b))}

(* The bit that a shift by n brings to i; W stands for a zero.                   *)
ShiftedFrom(op, b, n, i) ==
  CASE op = "SLLV" -> IF i >= n THEN i - n ELSE W
    [] op = "SRLV" -> IF i + n < W THEN i + n ELSE W
    [] op = "SRAV" -> IF i + n < W THEN i + n ELSE W - 1
    [] op = "ROTRV" -> (i + n) % W

MulMeans(op, a, b, acc, r) ==
  LET product == IF op \in {"MULT", "MADD", "MSUB"} THEN Signed(a) * Signed(b) ELSE a * b
      start == IF op \in {"MULT", "MULTU"} THEN 0 ELSE acc
      sign == IF op \in {"MSUB", "MSUBU"} THEN -1 ELSE 1
  IN  (r[1] * Size + r[2] - start - sign * product) % (Size * Size) = 0

(* A quotient is exact but for the remainder, which is less than the divisor and  *)
(* has the sign of the dividend; the least number by -1 wraps round.              *)
DivMeans(op, a, b, r) ==
  IF op = "DIVU" THEN r[2] * b + r[1] = a /\ r[1] < b
  ELSE /\ (Signed(r[2]) * Signed(b) + Signed(r[1]) - Signed(a)) % Size = 0
       /\ r[1] # 0 => Sign(r[1]) = Sign(a)
       /\ IF Signed(b) < 0 THEN Signed(r[1]) \in Signed(b) + 1 .. -Signed(b) - 1
          ELSE Signed(r[1]) \in 1 - Signed(b) .. Signed(b) - 1

Compares(op, a, b) ==
  CASE op \in {"TEQ", "BEQ"} -> a = b
    [] op \in {"TNE", "BNE"} -> a # b
    [] op \in {"TGE", "BGEZ"} -> Signed(a) >= Signed(b)
    [] op \in {"TLT", "BLTZ"} -> Signed(a) < Signed(b)
    [] op = "TGEU" -> a >= b
    [] op = "TLTU" -> a < b
    [] op = "BGTZ" -> Signed(a) > Signed(b)
    [] op = "BLEZ" -> Signed(a) <= Signed(b)

----------------------------------------------------------------------------
(* The code emitted for an instruction does what the instruction means, for all   *)
(* operands and whichever registers they are in.  Register 0 holds zero, equal    *)
(* numbers hold equal words.                                                     *)
Registers(a, b) ==
  {<<1, 2, a, b>>, <<1, 1, a, a>>, <<0, 1, 0, a>>, <<1, 0, a, 0>>, <<0, 0, 0, 0>>}

ArithHolds ==
  \A a, b \in Words : \A x \in Registers(a, b) :
    /\ \A op \in {"ADD", "SUB", "ADDU", "SUBU", "MUL"} :
         Arith(op, x[1], x[2], x[3], x[4]) = ArithMeans(op, x[3], x[4])
    /\ \A op \in {"ADDI", "ADDIU"} :
         Arith(op, x[1], -1, x[3], b) = ArithMeans(op, x[3], b)
    /\ \A op \in {"AND", "OR", "XOR", "NOR"} :
         Logic(op, x[1], x[2], x[3], x[4]) = Value(WordOf(LogicMeans(op, x[3], x[4])))
    /\ \A op \in {"AND", "OR", "XOR"}, imm \in 0 .. 2 ^ (W \div 2) - 1 :
         LogicImmediate(op, x[1], x[3], imm) = Value(WordOf(LogicMeans(op, x[3], imm)))
    /\ \A op \in {"TEQ", "TNE", "TGE", "TLT", "TGEU", "TLTU", "BEQ", "BNE"} :
         Condition(op, x[1], x[2], x[3], x[4]) = Compares(op, x[3], x[4])
    /\ x[2] = 0 => \A op \in {"BGEZ", "BLTZ", "BGTZ", "BLEZ"} :
         Condition(op, x[1], 0, x[3], 0) = Compares(op, x[3], 0)

ShiftHolds ==
  \A a, b \in Words, op \in {"SLLV", "SRLV", "SRAV", "ROTRV"} :
    Shift(op, a, b).value
      = WordOf({i \in 0 .. W - 1 : ShiftedFrom(op, b, a % W, i) \in BitsOf(b)})

BytesHold ==
  \A b \in Words :
    /\ \A k \in 0 .. 3 : ByteOf(Bytes("WSBH", b).value, k)
                           = ByteOf(b, IF k % 2 = 0 THEN k + 1 ELSE k - 1)
    /\ Signed(Bytes("SEB", b).value) - ByteOf(b, 0) \in {0, -(2 ^ ByteBits)}
    /\ Bytes("SEH", b).value % 2 ^ (2 * ByteBits) = b % 2 ^ (2 * ByteBits)
    /\ LET n == Bytes("CLZ", b).value IN b < 2 ^ (W - n) /\ (b > 0 => b >= 2 ^ (W - n - 1))
    /\ LET n == Bytes("CLO", b).value IN b >= Size - 2 ^ (W - n) /\ (n < W => ~(W - n - 1 \in BitsOf(b)))
    /\ \A old \in Words, lsb, msb \in 0 .. W - 1 :
         /\ lsb + msb < W =>
              \A i \in 0 .. W - 1 : (i \in BitsOf(Field("EXT", b, old, lsb, msb).value))
                                      = (i <= msb /\ lsb + i \in BitsOf(b))
         /\ lsb <= msb =>
              \A i \in 0 .. W - 1 : (i \in BitsOf(Field("INS", b, old, lsb, msb).value))
                 = IF i \in lsb .. msb THEN i - lsb \in BitsOf(b) ELSE i \in BitsOf(old)

(* A pair of LWL and LWR loads the four bytes at an unaligned address, in either  *)
(* order, and overwrites all of the register.                                    *)
LoadsHold ==
  \A old \in Words, addr \in 0 .. 4 :
    LET bytes == MapThenSumSet(LAMBDA k : Memory[addr + k] * 2 ^ (ByteBits * k), 0 .. 3)
    IN  /\ LoadRight(LoadLeft(old, addr + 3), addr) = bytes
        /\ LoadLeft(LoadRight(old, addr), addr + 3) = bytes

(* A load shows the bytes that the last store to each of them left, extended to a  *)
(* word; a store conditional finds out whether the word is still what LL saw.     *)
Narrow(op, x) ==
  LET range == 2 ^ (ByteBits * Width(op))
  IN  IF op \in {"LBU", "LHU"} THEN x < range
      ELSE Signed(x) \in -(range \div 2) .. range \div 2 - 1

MemoryHolds ==
  \A x \in Words, addr \in 0 .. 7, st \in {"SB", "SH", "SW"} :
    LET after == Store(st, addr, x, Memory)
        covered == IF addr % Width(st) = 0 THEN addr .. addr + Width(st) - 1 ELSE {}
        sc == StoreConditional(4, x, [addr |-> 4, value |-> Load("LL", 4, Memory).value], after)
    IN  /\ \A ld \in {"LB", "LBU", "LH", "LHU", "LW"}, from \in 0 .. 7 :
             LET r == Load(ld, from, after)
             IN  from % Width(ld) = 0 =>
                   /\ Narrow(ld, r.value)
                   /\ \A k \in 0 .. Width(ld) - 1 :
                        ByteOf(r.value, k) = IF from + k \in covered THEN ByteOf(x, from + k - addr)
                                             ELSE Memory[from + k]
        /\ sc.done = (\A k \in covered \cap (4 .. 7) : ByteOf(x, k - addr) = Memory[k])
        /\ sc.memory = IF sc.done THEN Store("SW", 4, x, after) ELSE after

(* A comparison and two conditional moves give the greater of two words.          *)
ChoiceHolds ==
  \A a, b, old \in Words :
    LET Greater(op) == Move("MOVN", Move("MOVZ", old, a, Less(op, a, b).value).value, b,
                            Less(op, a, b).value).value
    IN  /\ Signed(Greater("SLT")) = Max({Signed(a), Signed(b)})
        /\ Greater("SLTU") = Max({a, b})
        /\ \A imm \in -(2 ^ (W \div 2 - 1)) .. 2 ^ (W \div 2 - 1) - 1 :
             /\ LessImmediate("SLTI", a, imm % 2 ^ (W \div 2)).value
                  = IF Signed(a) < imm THEN 1 ELSE 0
             /\ LessImmediate("SLTIU", a, imm % 2 ^ (W \div 2)).value
                  = IF a < imm % Size THEN 1 ELSE 0

MulDivHolds ==
  \A a, b \in Words :
    /\ \A op \in {"DIV", "DIVU"} :
         LET r == MulDiv(op, a, b, 0, 0)
         IN  r \in Words \X Words /\ (b # 0 => DivMeans(op, a, b, r))
    /\ \A op \in {"MULT", "MULTU", "MADD", "MADDU", "MSUB", "MSUBU"}, acc \in Accs :
         MulMeans(op, a, b, acc[1] * Size + acc[2], MulDiv(op, a, b, acc[1], acc[2]))

InstructionsHold ==
  /\ ArithHolds /\ ShiftHolds /\ BytesHold /\ LoadsHold /\ MemoryHolds /\ ChoiceHolds
  /\ MulDivHolds
=============================================================================
