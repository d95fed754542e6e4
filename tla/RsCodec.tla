------------------------------ MODULE RsCodec ------------------------------
(***************************************************************************)
(* rs_init (hw/mem/jz4740_ecc.c): the tables of the field GF(2^SymbolBits) *)
(* and the generator polynomial of the Reed-Solomon code.  An element is   *)
(* the set of its bits, so that XOR is the symmetric difference.           *)
(***************************************************************************)
EXTENDS Integers

CONSTANTS
  SymbolBits,    \* 9
  Poly,          \* 0x211: {0, 4, 9}
  NRoots         \* 8

NN == 2 ^ SymbolBits - 1

Xor(a, b) == (a \ b) \cup (b \ a)

(* Powers of the primitive element, and logarithms                             *)
alphaTo[i \in 0 .. NN - 1] ==
  IF i = 0 THEN {0}
  ELSE LET s == {b + 1 : b \in alphaTo[i - 1]}
       IN  IF SymbolBits \in s THEN Xor(s, Poly) ELSE s

indexOf(e) == CHOOSE i \in 0 .. NN - 1 : alphaTo[i] = e

Times(e, n) == IF e = {} THEN {} ELSE alphaTo[(indexOf(e) + n) % NN]

(* The generator polynomial, root by root: its coefficients by degree.         *)
product[root \in 0 .. NRoots] ==
  IF root = 0 THEN [j \in 0 .. NRoots |-> IF j = 0 THEN {0} ELSE {}]
  ELSE LET g == product[root - 1]
       IN  [j \in 0 .. NRoots |->
              Xor(IF j = 0 THEN {} ELSE g[j - 1], Times(g[j], root))]

(* JZ4740RSCodec *)
rs ==
  [alphaTo |-> [i \in 0 .. NN - 1 |-> alphaTo[i]],
   indexOf |-> [e \in SUBSET (0 .. SymbolBits - 1) \ {{}} |-> indexOf(e)],
   genpoly |-> [j \in 0 .. NRoots |-> product[NRoots][j]]]
=============================================================================
