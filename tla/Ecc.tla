-------------------------------- MODULE Ecc --------------------------------
(***************************************************************************)
(* The error-correcting codes of the NAND controller (hw/mem/jz4740_ecc.c):*)
(* the Hamming code over a block and the Reed-Solomon code with Berlekamp- *)
(* Massey decoding.  The code is RS(511, 503) over GF(2^9); every size is  *)
(* a parameter here, and an element of the field, a block and a packed     *)
(* parity are sets of bits, so that XOR is the symmetric difference.       *)
(***************************************************************************)
EXTENDS Integers, FiniteSets

CONSTANTS
  SymbolBits,    \* 9
  NRoots,        \* 8
  BlockBits,     \* 4096
  rs             \* the tables of module RsCodec

NN == 2 ^ SymbolBits - 1
MaxErrors == NRoots \div 2
DataSymbols == NN - NRoots
Roots == 0 .. NRoots - 1
Bits == 0 .. SymbolBits - 1

Xor(a, b) == (a \ b) \cup (b \ a)

(* The exclusive or of f[i] over a set. *)
XorOver(S, f(_)) == {b \in Bits : Cardinality({i \in S : b \in f(i)}) % 2 = 1}

----------------------------------------------------------------------------
Alpha(n) == rs.alphaTo[n % NN]

(* The product of an element with a power of the primitive one. *)
Times(e, n) == IF e = {} THEN {} ELSE Alpha(rs.indexOf[e] + n)
Mul(a, b) == IF b = {} THEN {} ELSE Times(a, rs.indexOf[b])
Div(a, b) == Times(a, NN - rs.indexOf[b])

One == [j \in 0 .. NRoots |-> IF j = 0 THEN {0} ELSE {}]
Shifted(b) == [j \in 0 .. NRoots |-> IF j = 0 THEN {} ELSE b[j - 1]]

(* rs_data_symbols: the block from its first bit on, zero symbols behind it.   *)
Symbols(data) ==
  [i \in 0 .. DataSymbols - 1 |->
     {b \in Bits : SymbolBits * i + b \in data}]

(* rs_pack_parity, rs_unpack_parity *)
Pack(parity) == UNION {{SymbolBits * i + b : b \in parity[i]} : i \in Roots}
Unpack(packed) == [i \in Roots |-> {b \in Bits : SymbolBits * i + b \in packed}]

(* jz4740_rs_encode: the remainder in a shift register. *)
Remainder(s) ==
  LET reg[i \in 0 .. DataSymbols] ==
        IF i = 0 THEN [j \in Roots |-> {}]
        ELSE LET p == reg[i - 1]
                 feedback == Xor(s[i - 1], p[0])
             IN  [j \in Roots |->
                    Xor(IF j = NRoots - 1 THEN {} ELSE p[j + 1],
                        Mul(feedback, rs.genpoly[NRoots - 1 - j]))]
  IN  reg[DataSymbols]

RsEncode(data) == Pack(Remainder(Symbols(data)))

----------------------------------------------------------------------------
(* jz4740_rs_decode, in the order in which the code goes. *)

(* The whole word, data first, and what it leaves at each root: the loops      *)
(* evaluate it by Horner's rule.                                              *)
Word(data, packed) ==
  LET s == Symbols(data)
      p == Unpack(packed)
  IN  [k \in 0 .. NN - 1 |-> IF k < DataSymbols THEN s[k] ELSE p[k - DataSymbols]]

Syndrome(w) ==
  LET horner[n \in 0 .. NN] ==
        IF n = 0 THEN [i \in Roots |-> {}]
        ELSE LET acc == horner[n - 1]
             IN  [i \in Roots |-> Xor(w[n - 1], Times(acc[i], 1 + i))]
  IN  horner[NN]

(* The error locator, by Berlekamp and Massey; a fault: its degree never grows. *)
ShortMassey(syn, s, step) ==
  LET discrepancy ==
        XorOver(0 .. step - 1, LAMBDA i : Mul(s.lambda[i], syn[step - i - 1]))
  IN  IF discrepancy = {} THEN [s EXCEPT !.b = Shifted(@)]
      ELSE [s EXCEPT !.b = Shifted(@),
                     !.lambda = [i \in 0 .. NRoots |->
                        Xor(@[i], Mul(discrepancy, Shifted(s.b)[i]))]]

Massey(syn, s, step) ==
  LET discrepancy ==
        XorOver(0 .. step - 1, LAMBDA i : Mul(s.lambda[i], syn[step - i - 1]))
      t == [i \in 0 .. NRoots |->
              Xor(s.lambda[i], Mul(discrepancy, Shifted(s.b)[i]))]
  IN  IF discrepancy = {} THEN [s EXCEPT !.b = Shifted(@)]
      ELSE IF 2 * s.el <= step - 1
           THEN [lambda |-> t, el |-> step - s.el,
                 b |-> [i \in 0 .. NRoots |-> Div(s.lambda[i], discrepancy)]]
           ELSE [s EXCEPT !.lambda = t, !.b = Shifted(@)]

Locator(syn) ==
  LET steps[i \in 0 .. NRoots] ==
        IF i = 0 THEN [lambda |-> One, b |-> One, el |-> 0]
        ELSE LET s == steps[i - 1] IN Massey(syn, s, i)
  IN  steps[NRoots].lambda

(* A polynomial, of which only the degrees in D count, at a power.             *)
At(poly, D, n) == XorOver(D, LAMBDA i : Times(poly[i], i * n))

Failed == [ok |-> FALSE, at |-> {}]

(* The evaluator and Forney's rule give the mask of the symbol before a root;  *)
(* the corrections must explain the syndrome.                                  *)
Corrected(syn, lambda, degree, roots) ==
  LET omega == [i \in 0 .. degree - 1 |->
                  XorOver(0 .. i, LAMBDA j : Mul(syn[i - j], lambda[j]))]
      derivative == [i \in 0 .. NRoots - 1 |-> lambda[i + 1]]
      even == {i \in 0 .. NRoots - 1 : i % 2 = 0 /\ i <= degree}
      mask(r) ==
        LET numerator == At(omega, 0 .. degree - 1, r)
            denominator == At(derivative, even, r)
        IN  IF {} \in {numerator, denominator} THEN {} ELSE Div(numerator, denominator)
      explained == \A i \in Roots :
        XorOver(roots, LAMBDA r : Times(mask(r), (1 + i) * (NN - r))) = syn[i]
  IN  IF explained THEN [ok |-> TRUE, at |-> {[index |-> r, mask |-> mask(r)] : r \in roots}]
      ELSE Failed

RsDecode(data, packed) ==
  LET syn == Syndrome(Word(data, packed))
      lambda == Locator(syn)
      degree == CHOOSE d \in 0 .. NRoots : lambda[d] # {}
                  /\ \A e \in d + 1 .. NRoots : lambda[e] = {}
      roots == {r \in 1 .. NN : At(lambda, 0 .. degree, r) = {}}
  IN  IF \A i \in Roots : syn[i] = {} THEN [ok |-> TRUE, at |-> {}]
      ELSE IF degree \in 1 .. MaxErrors /\ Cardinality(roots) = degree
           THEN Corrected(syn, lambda, degree, roots) ELSE Failed

(* jz4740_rs_apply_correction: symbols count from one; what lies beyond the    *)
(* block is dropped.                                                          *)
Apply(data, c) ==
  Xor(data, {n \in {SymbolBits * (c.index - 1) + b : b \in c.mask} : n < BlockBits})

----------------------------------------------------------------------------
(* jz4740_hamming_encode: for each bit of a position, the parity of the data    *)
(* bits that have it and of those that have not, each inverted.                *)
Axis(bit, n) == (bit \div 2 ^ n) % 2

AddressBits == {n \in 0 .. BlockBits : 2 ^ n < BlockBits}

Hamming(data) ==
  {a \in AddressBits \X {0, 1} :
     Cardinality({d \in data : Axis(d, a[1]) = a[2]}) % 2 = 0}

----------------------------------------------------------------------------
(* What the codes promise, for one block and parity. *)

IsCode(w) == LET syn == Syndrome(w) IN \A i \in Roots : syn[i] = {}

(* A block and its own parity are a word of the code. *)
EncodesCode(data) == IsCode(Word(data, RsEncode(data)))

(* A block that was damaged in symbols its parity can make good is restored by  *)
(* applying the corrections, which are of different symbols.                   *)
Restores(data, damaged) ==
  LET r == RsDecode(damaged, RsEncode(data))
  IN  r.ok /\ Xor(damaged, UNION {Apply({}, c) : c \in r.at}) = data

(* The same word in one set of bits, and the symbols in which two differ.      *)
Join(data, packed) == data \cup {SymbolBits * DataSymbols + b : b \in packed}
Codewords ==
  {Join(m, RsEncode(m)) : m \in SUBSET (0 .. SymbolBits * DataSymbols - 1)}
Differ(v, w) == {b \div SymbolBits : b \in Xor(v, w)}

(* Bounded-distance decoding, by search: the word of the code that is at most  *)
(* MaxErrors symbols away, or none.                                            *)
Nearest(data, packed, codewords) ==
  LET w == Join(data, packed)
      near == {v \in codewords : Cardinality(Differ(v, w)) <= MaxErrors}
      mask(v, k) == {b \in Bits : SymbolBits * k + b \in Xor(v, w)}
  IN  IF near = {} THEN Failed
      ELSE LET v == CHOOSE x \in near : TRUE
           IN  [ok |-> TRUE,
                at |-> {[index |-> k + 1, mask |-> mask(v, k)] : k \in Differ(v, w)}]

(* One wrong bit shows on every axis, and so tells its position.               *)
HammingLocates(data, bit) ==
  LET changed == Xor(Hamming(data), Hamming(Xor(data, {bit})))
  IN  changed = {<<n, Axis(bit, n)>> : n \in AddressBits}
=============================================================================
