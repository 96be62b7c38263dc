------------------------------ MODULE FftProofs ------------------------------
(***************************************************************************)
(* The transform is the discrete Fourier transform, for every length that  *)
(* is a power of two, every modulus with roots of unity, and every buffer. *)
(*                                                                         *)
(* The theorems of the library for induction take operators, which the     *)
(* provers cannot instantiate.  Here induction is over sets of numbers, as *)
(* the natural numbers are well ordered, and what a recursive function     *)
(* computes follows from that.                                             *)
(***************************************************************************)
EXTENDS Fft, WellFoundedInduction, TLAPS

LEMMA Least ==
  ASSUME NEW T \in SUBSET Nat, T # {}
  PROVE  \E n \in T : \A m \in T : n <= m
<1>1. IsWellFoundedOn(OpToRel(<, Nat), Nat)
  BY NatLessThanWellFounded, Zenon
<1>2. OpToRel(<, Nat) = {s \in Nat \X Nat : s[1] < s[2]}
  BY Zenon DEF OpToRel
<1>3. IsWellFoundedOn({s \in Nat \X Nat : s[1] < s[2]}, Nat)
  BY <1>1, <1>2, Zenon
<1>4. PICK n \in T : \A m \in T : <<m, n>> \notin {s \in Nat \X Nat : s[1] < s[2]}
  BY <1>3, WFMin, Zenon
<1>5. ASSUME NEW m \in T, m < n PROVE FALSE
  <2>1. <<m, n>> \in Nat \X Nat /\ <<m, n>>[1] < <<m, n>>[2]
    BY <1>5
  <2> QED
    BY <1>4, <2>1, Zenon
<1>6. \A m \in T : n <= m
  BY <1>5
<1> QED
  BY <1>6

LEMMA Induction ==
  ASSUME NEW T \in SUBSET Nat, 0 \in T, \A n \in T : n + 1 \in T
  PROVE  T = Nat
<1> SUFFICES ASSUME Nat \ T # {} PROVE FALSE
  OBVIOUS
<1>1. PICK n \in Nat \ T : \A m \in Nat \ T : n <= m
  BY Least
<1>2. n # 0 /\ n - 1 \in Nat
  BY <1>1
<1>3. n - 1 \in T
  BY <1>1, <1>2
<1>4. (n - 1) + 1 \in T
  BY <1>3
<1> QED
  BY <1>1, <1>2, <1>4

(* A function on 0 .. n that follows from value to value exists, and is    *)
(* determined by its first value.                                          *)
SameSteps(g, h, n) ==
  g[0] = h[0] /\ \A m \in 1 .. n : g[m - 1] = h[m - 1] => g[m] = h[m]
SameValues(g, h, n) == \A m \in 0 .. n : g[m] = h[m]
Iterates(h, a, F, n) == h[0] = a /\ \A m \in 1 .. n : h[m] = F[<<h[m - 1], m>>]

LEMMA Agree ==
  ASSUME NEW g, NEW h, NEW n \in Nat, SameSteps(g, h, n)
  PROVE  SameValues(g, h, n)
<1> USE DEF SameSteps, SameValues
<1> DEFINE T == {m \in Nat : m <= n => g[m] = h[m]}
<1>1. 0 \in T
  OBVIOUS
<1>2. ASSUME NEW m \in T PROVE m + 1 \in T
  <2> SUFFICES ASSUME m + 1 <= n PROVE g[m + 1] = h[m + 1]
    OBVIOUS
  <2>1. m + 1 \in 1 .. n /\ (m + 1) - 1 = m /\ g[m] = h[m]
    OBVIOUS
  <2> QED
    BY <2>1
<1> HIDE DEF T
<1>3. T = Nat
  <2>1. T \in SUBSET Nat
    BY DEF T
  <2> QED
    BY <1>1, <1>2, <2>1, Induction
<1> QED
  BY <1>3 DEF T

LEMMA Iteration ==
  ASSUME NEW S, NEW a \in S, NEW F \in [S \X Nat -> S], NEW n \in Nat
  PROVE  \E h \in [0 .. n -> S] : Iterates(h, a, F, n)
<1> USE DEF Iterates
<1> DEFINE T == {m \in Nat : \E h \in [0 .. m -> S] : Iterates(h, a, F, m)}
<1>1. 0 \in T
  <2>1. [m \in 0 .. 0 |-> a] \in [0 .. 0 -> S] /\ Iterates([m \in 0 .. 0 |-> a], a, F, 0)
    OBVIOUS
  <2> QED
    BY <2>1
<1>2. ASSUME NEW m \in T PROVE m + 1 \in T
  <2>1. PICK h \in [0 .. m -> S] : Iterates(h, a, F, m)
    OBVIOUS
  <2>2. PICK g : g = [q \in 0 .. m + 1 |-> IF q = m + 1 THEN F[<<h[m], m + 1>>] ELSE h[q]]
    OBVIOUS
  <2>3. m \in 0 .. m /\ F[<<h[m], m + 1>>] \in S
    BY <2>1
  <2>4. \A q \in 0 .. m : q \in 0 .. m + 1 /\ q # m + 1 /\ g[q] = h[q]
    BY <2>2
  <2>5. g \in [0 .. m + 1 -> S]
    BY <2>1, <2>2, <2>3
  <2>6. ASSUME NEW q \in 1 .. m + 1 PROVE g[q] = F[<<g[q - 1], q>>]
    <3>1. q - 1 \in 0 .. m /\ g[q - 1] = h[q - 1]
      BY <2>4
    <3>2. CASE q = m + 1
      <4>1. g[m + 1] = F[<<h[m], m + 1>>] /\ q - 1 = m
        BY <2>2, <3>2
      <4> QED
        BY <3>1, <3>2, <4>1
    <3>3. CASE q # m + 1
      <4>1. q \in 1 .. m /\ q \in 0 .. m
        BY <3>3
      <4> QED
        BY <2>1, <2>4, <3>1, <4>1
    <3> QED
      BY <3>2, <3>3
  <2>7. g[0] = a
    BY <2>1, <2>4
  <2> QED
    BY <2>5, <2>6, <2>7
<1> HIDE DEF T
<1>3. T = Nat
  <2>1. T \in SUBSET Nat
    BY DEF T
  <2> QED
    BY <1>1, <1>2, <2>1, Induction
<1> QED
  BY <1>3 DEF T
-----------------------------------------------------------------------------
(* Arithmetic modulo Modulus. *)
Residues == 0 .. Modulus - 1

LEMMA ModType == \A x \in Int : x % Modulus \in Residues
  BY ModulusAssumption DEF Residues

LEMMA ModOf == \A x \in Residues : x % Modulus = x
  BY ModulusAssumption DEF Residues

LEMMA ModDiffers ==
  ASSUME NEW x \in Int
  PROVE  \E c \in Int : x % Modulus = x + c * Modulus
<1>1. x = Modulus * (x \div Modulus) + (x % Modulus) /\ x \div Modulus \in Int
  BY ModulusAssumption
<1>2. x % Modulus = x + (0 - (x \div Modulus)) * Modulus /\ 0 - (x \div Modulus) \in Int
  BY <1>1, ModulusAssumption
<1> QED
  BY <1>2

LEMMA ModSame ==
  ASSUME NEW x \in Int, NEW y \in Int, NEW c \in Int, x = y + c * Modulus
  PROVE  x % Modulus = y % Modulus
<1>1. PICK a \in Int : x % Modulus = x + a * Modulus
  BY ModDiffers
<1>2. PICK b \in Int : y % Modulus = y + b * Modulus
  BY ModDiffers
<1>3. PICK d \in Int : d = (c + a) - b
  OBVIOUS
<1>4. x % Modulus = (y % Modulus) + d * Modulus
  BY <1>1, <1>2, <1>3, ModulusAssumption
<1>5. x % Modulus \in 0 .. Modulus - 1 /\ y % Modulus \in 0 .. Modulus - 1
  BY ModType DEF Residues
<1>6. d < 1
  BY <1>4, <1>5, ModulusAssumption
<1>7. d > -1
  BY <1>4, <1>5, ModulusAssumption
<1> QED
  BY <1>4, <1>5, <1>6, <1>7, ModulusAssumption

LEMMA ModProduct ==
  ASSUME NEW x \in Int, NEW y \in Int
  PROVE  (x * (y % Modulus)) % Modulus = (x * y) % Modulus
<1>1. PICK c \in Int : y % Modulus = y + c * Modulus
  BY ModDiffers
<1>2. x * (y + c * Modulus) = (x * y) + (x * c) * Modulus
  BY ModulusAssumption
<1>3. x * y \in Int /\ x * c \in Int /\ x * (y % Modulus) \in Int
  BY <1>1, ModulusAssumption
<1> QED
  BY <1>1, <1>2, <1>3, ModSame

LEMMA ModSum ==
  ASSUME NEW x \in Int, NEW y \in Int
  PROVE  ((x % Modulus) + y) % Modulus = (x + y) % Modulus
<1>1. PICK c \in Int : x % Modulus = x + c * Modulus
  BY ModDiffers
<1>2. (x + c * Modulus) + y = (x + y) + c * Modulus
  BY ModulusAssumption
<1>3. x + y \in Int /\ (x % Modulus) + y \in Int
  BY <1>1, ModulusAssumption
<1> QED
  BY <1>1, <1>2, <1>3, ModSame
-----------------------------------------------------------------------------
(* What Power computes: its recursion has a solution.                      *)
LEMMA PowerIterates ==
  ASSUME NEW x \in Int, NEW n \in Nat
  PROVE  \E h \in [0 .. n -> Residues] :
           /\ h[0] = 1
           /\ \A m \in 1 .. n : h[m] = (x * h[m - 1]) % Modulus
           /\ Power(x, n) = h[n]
<1>1. PICK F : F = [s \in Residues \X Nat |-> (x * s[1]) % Modulus]
  OBVIOUS
<1>2. 1 \in Residues /\ Residues \subseteq Int
  BY ModulusAssumption DEF Residues
<1>3. F \in [Residues \X Nat -> Residues]
  <2>1. ASSUME NEW s \in Residues \X Nat PROVE (x * s[1]) % Modulus \in Residues
    <3>1. x * s[1] \in Int
      <4>1. s[1] \in Int
        BY <1>2
      <4> QED
        BY <4>1
    <3> QED
      BY <3>1, ModType
  <2> QED
    BY <1>1, <2>1
<1>4. PICK h \in [0 .. n -> Residues] : Iterates(h, 1, F, n)
  BY <1>2, <1>3, Iteration
<1>5. \A m \in 1 .. n : h[m] = (x * h[m - 1]) % Modulus
  <2> SUFFICES ASSUME NEW m \in 1 .. n PROVE h[m] = (x * h[m - 1]) % Modulus
    OBVIOUS
  <2>1. h[m - 1] \in Residues /\ m \in Nat
    BY <1>4
  <2>2. <<h[m - 1], m>> \in Residues \X Nat /\ <<h[m - 1], m>>[1] = h[m - 1]
    BY <2>1
  <2>3. F[<<h[m - 1], m>>] = (x * h[m - 1]) % Modulus
    BY <1>1, <2>2
  <2> QED
    BY <1>4, <2>3 DEF Iterates
<1> DEFINE Solves(p) == p = [m \in 0 .. n |-> IF m = 0 THEN 1 ELSE (x * p[m - 1]) % Modulus]
<1>6. Solves(h)
  <2>1. \A m \in 0 .. n : h[m] = IF m = 0 THEN 1 ELSE (x * h[m - 1]) % Modulus
    BY <1>4, <1>5 DEF Iterates
  <2> QED
    BY <1>4, <2>1
<1>7. PICK p : p = CHOOSE q : Solves(q)
  OBVIOUS
<1>8. Solves(p) /\ Power(x, n) = p[n]
  <2>1. Solves(p)
    <3> HIDE DEF Solves
    <3> QED
      BY <1>6, <1>7
  <2> QED
    BY <1>7, <2>1 DEF Power
<1>9. p[0] = 1 /\ \A m \in 1 .. n : p[m] = (x * p[m - 1]) % Modulus
  <2>1. \A m \in 0 .. n : p[m] = IF m = 0 THEN 1 ELSE (x * p[m - 1]) % Modulus
    BY <1>8, Zenon
  <2> QED
    BY <2>1
<1>10. p[n] = h[n]
  <2> HIDE DEF Solves
  <2>1. SameSteps(p, h, n)
    BY <1>4, <1>5, <1>9 DEF SameSteps, Iterates
  <2>2. SameValues(p, h, n)
    BY <2>1, Agree
  <2> QED
    BY <2>2 DEF SameValues
<1> QED
  BY <1>4, <1>5, <1>8, <1>10 DEF Iterates

LEMMA PowerZero == \A x \in Int : Power(x, 0) = 1
  BY PowerIterates

LEMMA PowerType == \A x \in Int, n \in Nat : Power(x, n) \in Residues
  BY PowerIterates

LEMMA PowerNext ==
  ASSUME NEW x \in Int, NEW n \in Nat
  PROVE  Power(x, n + 1) = (x * Power(x, n)) % Modulus
<1>1. PICK h \in [0 .. n -> Residues] :
        /\ h[0] = 1
        /\ \A m \in 1 .. n : h[m] = (x * h[m - 1]) % Modulus
        /\ Power(x, n) = h[n]
  BY PowerIterates
<1>2. PICK g \in [0 .. n + 1 -> Residues] :
        /\ g[0] = 1
        /\ \A m \in 1 .. n + 1 : g[m] = (x * g[m - 1]) % Modulus
        /\ Power(x, n + 1) = g[n + 1]
  <2>1. n + 1 \in Nat
    OBVIOUS
  <2> QED
    BY <2>1, PowerIterates
<1>3. SameSteps(g, h, n)
  BY <1>1, <1>2 DEF SameSteps
<1>4. g[n] = h[n]
  <2>1. SameValues(g, h, n)
    BY <1>3, Agree
  <2> QED
    BY <2>1 DEF SameValues
<1>5. g[n + 1] = (x * g[n]) % Modulus
  <2>1. n + 1 \in 1 .. n + 1 /\ (n + 1) - 1 = n
    OBVIOUS
  <2> QED
    BY <1>2, <2>1
<1> QED
  BY <1>1, <1>2, <1>4, <1>5

LEMMA PowerOne ==
  ASSUME NEW x \in Int
  PROVE  Power(x, 1) = x % Modulus
<1>1. Power(x, 0 + 1) = (x * Power(x, 0)) % Modulus
  BY PowerNext
<1> QED
  BY <1>1, PowerZero

LEMMA PowerSum ==
  ASSUME NEW x \in Int, NEW m \in Nat, NEW n \in Nat
  PROVE  Power(x, m + n) = (Power(x, m) * Power(x, n)) % Modulus
<1> DEFINE T == {a \in Nat : Power(x, m + a) = (Power(x, m) * Power(x, a)) % Modulus}
<1>1. 0 \in T
  <2>1. Power(x, m) \in Residues
    BY PowerType
  <2>2. Power(x, m) * 1 = Power(x, m) /\ m + 0 = m
    BY <2>1 DEF Residues
  <2> QED
    BY <2>1, <2>2, PowerZero, ModOf
<1>2. ASSUME NEW a \in T PROVE a + 1 \in T
  <2>1. PICK y \in Int : y = Power(x, m)
    BY PowerType DEF Residues
  <2>2. PICK z \in Int : z = Power(x, a)
    BY PowerType DEF Residues
  <2>3. Power(x, m + (a + 1)) = (x * ((y * z) % Modulus)) % Modulus
    <3>1. m + (a + 1) = (m + a) + 1 /\ m + a \in Nat
      OBVIOUS
    <3> QED
      BY <2>1, <2>2, <3>1, PowerNext
  <2>4. (x * ((y * z) % Modulus)) % Modulus = (x * (y * z)) % Modulus
    <3>1. y * z \in Int
      OBVIOUS
    <3> QED
      BY <3>1, ModProduct
  <2>5. x * (y * z) = y * (x * z)
    OBVIOUS
  <2>6. (y * (x * z)) % Modulus = (y * ((x * z) % Modulus)) % Modulus
    <3>1. x * z \in Int
      OBVIOUS
    <3> QED
      BY <3>1, ModProduct
  <2>7. Power(x, a + 1) = (x * z) % Modulus
    BY <2>2, PowerNext
  <2> QED
    BY <2>1, <2>3, <2>4, <2>5, <2>6, <2>7
<1> HIDE DEF T
<1>3. T = Nat
  <2>1. T \in SUBSET Nat
    BY DEF T
  <2> QED
    BY <1>1, <1>2, <2>1, Induction
<1> QED
  BY <1>3 DEF T

LEMMA PowerSquare ==
  ASSUME NEW x \in Int, NEW n \in Nat
  PROVE  Power(x, 2 * n) = Power((x * x) % Modulus, n)
<1>1. PICK y \in Int : y = (x * x) % Modulus
  <2>1. x * x \in Int
    OBVIOUS
  <2> QED
    BY <2>1, ModType DEF Residues
<1> DEFINE T == {a \in Nat : Power(x, 2 * a) = Power(y, a)}
<1>2. 0 \in T
  BY PowerZero
<1>3. ASSUME NEW a \in T PROVE a + 1 \in T
  <2>1. PICK z \in Int : z = Power(y, a)
    BY PowerType DEF Residues
  <2>2. Power(x, 2 * a) = z
    BY <2>1
  <2>3. Power(x, (2 * a) + 1) = (x * z) % Modulus
    <3>1. 2 * a \in Nat
      OBVIOUS
    <3> QED
      BY <2>2, <3>1, PowerNext
  <2>4. Power(x, 2 * (a + 1)) = (x * ((x * z) % Modulus)) % Modulus
    <3>1. (2 * a) + 1 \in Nat /\ 2 * (a + 1) = ((2 * a) + 1) + 1
      OBVIOUS
    <3> QED
      BY <2>3, <3>1, PowerNext
  <2>5. (x * ((x * z) % Modulus)) % Modulus = (x * (x * z)) % Modulus
    <3>1. x * z \in Int
      OBVIOUS
    <3> QED
      BY <3>1, ModProduct
  <2>6. x * (x * z) = z * (x * x)
    OBVIOUS
  <2>7. (z * (x * x)) % Modulus = (z * y) % Modulus
    <3>1. x * x \in Int
      OBVIOUS
    <3> QED
      BY <1>1, <3>1, ModProduct
  <2>8. Power(y, a + 1) = (y * z) % Modulus
    BY <2>1, PowerNext
  <2>9. y * z = z * y
    OBVIOUS
  <2> QED
    BY <2>4, <2>5, <2>6, <2>7, <2>8, <2>9
<1> HIDE DEF T
<1>4. T = Nat
  <2>1. T \in SUBSET Nat
    BY DEF T
  <2> QED
    BY <1>2, <1>3, <2>1, Induction
<1> QED
  BY <1>1, <1>4 DEF T
-----------------------------------------------------------------------------
(* What Sum computes, and its sum by halves. *)
LEMMA SumIterates ==
  ASSUME NEW f, NEW n \in Nat, \A m \in 0 .. n - 1 : f[m] \in Int
  PROVE  \E h \in [0 .. n -> Residues] :
           /\ h[0] = 0
           /\ \A m \in 1 .. n : h[m] = (h[m - 1] + f[m - 1]) % Modulus
           /\ Sum(f, n) = h[n]
<1>1. PICK F : F = [s \in Residues \X Nat |->
                      IF s[2] \in 1 .. n THEN (s[1] + f[s[2] - 1]) % Modulus ELSE 0]
  OBVIOUS
<1>2. 0 \in Residues /\ Residues \subseteq Int
  BY ModulusAssumption DEF Residues
<1>3. F \in [Residues \X Nat -> Residues]
  <2>1. ASSUME NEW s \in Residues \X Nat, s[2] \in 1 .. n
        PROVE  (s[1] + f[s[2] - 1]) % Modulus \in Residues
    <3>1. s[1] \in Int
      BY <1>2
    <3>2. s[2] - 1 \in 0 .. n - 1
      BY <2>1
    <3>3. s[1] + f[s[2] - 1] \in Int
      BY <3>1, <3>2
    <3> QED
      BY <3>3, ModType
  <2> QED
    BY <1>1, <1>2, <2>1
<1>4. PICK h \in [0 .. n -> Residues] : Iterates(h, 0, F, n)
  BY <1>2, <1>3, Iteration
<1>5. \A m \in 1 .. n : h[m] = (h[m - 1] + f[m - 1]) % Modulus
  <2> SUFFICES ASSUME NEW m \in 1 .. n PROVE h[m] = (h[m - 1] + f[m - 1]) % Modulus
    OBVIOUS
  <2>1. h[m - 1] \in Residues /\ m \in Nat
    BY <1>4
  <2>2. /\ <<h[m - 1], m>> \in Residues \X Nat
        /\ <<h[m - 1], m>>[1] = h[m - 1] /\ <<h[m - 1], m>>[2] = m
    BY <2>1
  <2>3. F[<<h[m - 1], m>>] = (h[m - 1] + f[m - 1]) % Modulus
    BY <1>1, <2>2
  <2> QED
    BY <1>4, <2>3 DEF Iterates
<1> DEFINE Solves(p) == p = [m \in 0 .. n |-> IF m = 0 THEN 0 ELSE (p[m - 1] + f[m - 1]) % Modulus]
<1>6. Solves(h)
  <2>1. \A m \in 0 .. n : h[m] = IF m = 0 THEN 0 ELSE (h[m - 1] + f[m - 1]) % Modulus
    BY <1>4, <1>5 DEF Iterates
  <2> QED
    BY <1>4, <2>1
<1>7. PICK p : p = CHOOSE q : Solves(q)
  OBVIOUS
<1>8. Solves(p) /\ Sum(f, n) = p[n]
  <2>1. Solves(p)
    <3> HIDE DEF Solves
    <3> QED
      BY <1>6, <1>7
  <2> QED
    BY <1>7, <2>1 DEF Sum
<1>9. p[0] = 0 /\ \A m \in 1 .. n : p[m] = (p[m - 1] + f[m - 1]) % Modulus
  <2>1. \A m \in 0 .. n : p[m] = IF m = 0 THEN 0 ELSE (p[m - 1] + f[m - 1]) % Modulus
    BY <1>8, Zenon
  <2> QED
    BY <2>1
<1>10. p[n] = h[n]
  <2> HIDE DEF Solves
  <2>1. SameSteps(p, h, n)
    BY <1>4, <1>5, <1>9 DEF SameSteps, Iterates
  <2>2. SameValues(p, h, n)
    BY <2>1, Agree
  <2> QED
    BY <2>2 DEF SameValues
<1> QED
  BY <1>4, <1>5, <1>8, <1>10 DEF Iterates

LEMMA SumZero == \A f : Sum(f, 0) = 0
<1> SUFFICES ASSUME NEW f PROVE Sum(f, 0) = 0
  OBVIOUS
<1>1. \A m \in 0 .. 0 - 1 : f[m] \in Int
  OBVIOUS
<1> QED
  BY <1>1, SumIterates

LEMMA SumType ==
  ASSUME NEW f, NEW n \in Nat, \A m \in 0 .. n - 1 : f[m] \in Int
  PROVE  Sum(f, n) \in Residues
  BY SumIterates

LEMMA SumNext ==
  ASSUME NEW f, NEW n \in Nat, \A m \in 0 .. n : f[m] \in Int
  PROVE  Sum(f, n + 1) = (Sum(f, n) + f[n]) % Modulus
<1>1. PICK h \in [0 .. n -> Residues] :
        /\ h[0] = 0
        /\ \A m \in 1 .. n : h[m] = (h[m - 1] + f[m - 1]) % Modulus
        /\ Sum(f, n) = h[n]
  <2>1. \A m \in 0 .. n - 1 : f[m] \in Int
    OBVIOUS
  <2> QED
    BY <2>1, SumIterates
<1>2. PICK g \in [0 .. n + 1 -> Residues] :
        /\ g[0] = 0
        /\ \A m \in 1 .. n + 1 : g[m] = (g[m - 1] + f[m - 1]) % Modulus
        /\ Sum(f, n + 1) = g[n + 1]
  <2>1. n + 1 \in Nat /\ \A m \in 0 .. (n + 1) - 1 : f[m] \in Int
    OBVIOUS
  <2> QED
    BY <2>1, SumIterates
<1>3. SameSteps(g, h, n)
  BY <1>1, <1>2 DEF SameSteps
<1>4. g[n] = h[n]
  <2>1. SameValues(g, h, n)
    BY <1>3, Agree
  <2> QED
    BY <2>1 DEF SameValues
<1>5. g[n + 1] = (g[n] + f[n]) % Modulus
  <2>1. n + 1 \in 1 .. n + 1 /\ (n + 1) - 1 = n
    OBVIOUS
  <2> QED
    BY <1>2, <2>1
<1> QED
  BY <1>1, <1>2, <1>4, <1>5

LEMMA ModEqual ==
  ASSUME NEW x \in Int, NEW y \in Int, x % Modulus = y % Modulus
  PROVE  \E c \in Int : x = y + c * Modulus
<1>1. PICK a \in Int : x % Modulus = x + a * Modulus
  BY ModDiffers
<1>2. PICK b \in Int : y % Modulus = y + b * Modulus
  BY ModDiffers
<1>3. x = y + (b - a) * Modulus /\ b - a \in Int
  BY <1>1, <1>2, ModulusAssumption
<1> QED
  BY <1>3

(* The places of a sum of 2 * s terms are those of two sums of s terms.    *)
Interleaves(f, g, h, w, s) ==
  \A m \in 0 .. s - 1 :
    /\ f[2 * m] \in Int /\ f[(2 * m) + 1] \in Int /\ g[m] \in Int /\ h[m] \in Int
    /\ f[2 * m] % Modulus = g[m] % Modulus
    /\ f[(2 * m) + 1] % Modulus = (w * h[m]) % Modulus

(* One more term of each, in numbers.                                      *)
Terms(w, a, b, g, h) == a % Modulus = g % Modulus /\ b % Modulus = (w * h) % Modulus
OneMore(w, x, y, a, b, g, h) ==
  (((((x + (w * y)) % Modulus) + a) % Modulus) + b) % Modulus
    = (((x + g) % Modulus) + (w * ((y + h) % Modulus))) % Modulus

LEMMA SumSplitStep ==
  ASSUME NEW w \in Int, NEW x \in Int, NEW y \in Int, NEW a \in Int, NEW b \in Int,
         NEW g \in Int, NEW h \in Int, Terms(w, a, b, g, h)
  PROVE  OneMore(w, x, y, a, b, g, h)
<1> USE DEF Terms, OneMore
<1>1. PICK c \in Int : (x + (w * y)) % Modulus = (x + (w * y)) + c * Modulus
  <2>1. x + (w * y) \in Int
    OBVIOUS
  <2> QED
    BY <2>1, ModDiffers
<1>2. PICK d \in Int : a = g + d * Modulus
  BY ModEqual
<1>3. PICK e \in Int : b = (w * h) + e * Modulus
  <2>1. w * h \in Int
    OBVIOUS
  <2> QED
    BY <2>1, ModEqual
<1>4. PICK p \in Int : (x + g) % Modulus = (x + g) + p * Modulus
  <2>1. x + g \in Int
    OBVIOUS
  <2> QED
    BY <2>1, ModDiffers
<1>5. PICK q \in Int : (y + h) % Modulus = (y + h) + q * Modulus
  <2>1. y + h \in Int
    OBVIOUS
  <2> QED
    BY <2>1, ModDiffers
<1>6. PICK z \in Int : z = (x + (w * y)) + (g + (w * h))
  <2>1. (x + (w * y)) + (g + (w * h)) \in Int
    OBVIOUS
  <2> QED
    BY <2>1
<1>7. PICK v \in Int : v = (x + (w * y)) % Modulus
  <2>1. (x + (w * y)) + c * Modulus \in Int
    BY ModulusAssumption
  <2> QED
    BY <1>1, <2>1
<1>8. (((v + a) % Modulus) + b) % Modulus = z % Modulus
  <2>1. (((v + a) % Modulus) + b) % Modulus = ((v + a) + b) % Modulus
    <3>1. v + a \in Int
      OBVIOUS
    <3> QED
      BY <3>1, ModSum
  <2>2. (v + a) + b = z + ((c + d) + e) * Modulus
    <3>1. PICK wy \in Int : wy = w * y
      OBVIOUS
    <3>2. PICK wh \in Int : wh = w * h
      OBVIOUS
    <3>3. /\ v = (x + wy) + c * Modulus
          /\ a = g + d * Modulus
          /\ b = wh + e * Modulus
          /\ z = (x + wy) + (g + wh)
      BY <1>1, <1>2, <1>3, <1>6, <1>7, <3>1, <3>2
    <3>4. ((c + d) + e) * Modulus = ((c * Modulus) + (d * Modulus)) + (e * Modulus)
      BY ModulusAssumption
    <3> QED
      BY <3>3, <3>4, ModulusAssumption
  <2>3. (v + a) + b \in Int /\ (c + d) + e \in Int
    OBVIOUS
  <2> QED
    BY <2>1, <2>2, <2>3, ModSame
<1>9. (((x + g) % Modulus) + (w * ((y + h) % Modulus))) % Modulus = z % Modulus
  <2>1. ((x + g) + p * Modulus) + (w * ((y + h) + q * Modulus)) = z + (p + (w * q)) * Modulus
    BY <1>6, ModulusAssumption
  <2>2. p + (w * q) \in Int /\ ((x + g) + p * Modulus) + (w * ((y + h) + q * Modulus)) \in Int
    BY ModulusAssumption
  <2> QED
    BY <1>4, <1>5, <2>1, <2>2, ModSame
<1> QED
  BY <1>7, <1>8, <1>9

LEMMA SumSplit ==
  ASSUME NEW f, NEW g, NEW h, NEW w \in Int, NEW s \in Nat, Interleaves(f, g, h, w, s)
  PROVE  Sum(f, 2 * s) = (Sum(g, s) + (w * Sum(h, s))) % Modulus
<1> DEFINE T == {n \in Nat : n <= s => Sum(f, 2 * n) = (Sum(g, n) + (w * Sum(h, n))) % Modulus}
<1>1. 0 \in T
  <2>1. 0 + (w * 0) = 0 /\ 2 * 0 = 0 /\ 0 % Modulus = 0
    BY ModulusAssumption
  <2> QED
    BY <2>1, SumZero
<1>2. ASSUME NEW n \in T, n + 1 <= s
      PROVE  Sum(f, 2 * (n + 1)) = (Sum(g, n + 1) + (w * Sum(h, n + 1))) % Modulus
  <2>1. n \in Nat /\ n \in 0 .. s - 1
    BY <1>2
  <2>2. \A m \in 0 .. n : g[m] \in Int /\ h[m] \in Int
    BY <2>1 DEF Interleaves
  <2>3. \A m \in 0 .. (2 * n) + 1 : f[m] \in Int
    <3> SUFFICES ASSUME NEW m \in 0 .. (2 * n) + 1 PROVE f[m] \in Int
      OBVIOUS
    <3>1. PICK a \in 0 .. n : m = 2 * a \/ m = (2 * a) + 1
      <4>1. m \div 2 \in 0 .. n
        BY <2>1
      <4>2. m = 2 * (m \div 2) \/ m = (2 * (m \div 2)) + 1
        BY <2>1
      <4> QED
        BY <4>1, <4>2
    <3>2. a \in 0 .. s - 1
      BY <2>1
    <3> QED
      BY <3>1, <3>2 DEF Interleaves
  <2>4. PICK x \in Int : x = Sum(g, n)
    BY <2>1, <2>2, SumType DEF Residues
  <2>5. PICK y \in Int : y = Sum(h, n)
    BY <2>1, <2>2, SumType DEF Residues
  <2>6. Sum(g, n + 1) = (x + g[n]) % Modulus /\ Sum(h, n + 1) = (y + h[n]) % Modulus
    BY <2>1, <2>2, <2>4, <2>5, SumNext
  <2>7. Sum(f, 2 * n) = (x + (w * y)) % Modulus
    BY <1>2, <2>4, <2>5
  <2>8. Sum(f, (2 * n) + 1) = (Sum(f, 2 * n) + f[2 * n]) % Modulus
    <3>1. 2 * n \in Nat /\ \A m \in 0 .. 2 * n : f[m] \in Int
      BY <2>1, <2>3
    <3> QED
      BY <3>1, SumNext
  <2>9. Sum(f, 2 * (n + 1)) = (Sum(f, (2 * n) + 1) + f[(2 * n) + 1]) % Modulus
    <3>1. (2 * n) + 1 \in Nat /\ 2 * (n + 1) = ((2 * n) + 1) + 1
      BY <2>1
    <3> QED
      BY <2>3, <3>1, SumNext
  <2>10. /\ f[2 * n] \in Int /\ f[(2 * n) + 1] \in Int /\ g[n] \in Int /\ h[n] \in Int
         /\ f[2 * n] % Modulus = g[n] % Modulus
         /\ f[(2 * n) + 1] % Modulus = (w * h[n]) % Modulus
    BY <2>1 DEF Interleaves
  <2>11. PICK a \in Int, b \in Int, c \in Int, d \in Int :
           a = f[2 * n] /\ b = f[(2 * n) + 1] /\ c = g[n] /\ d = h[n]
    BY <2>10
  <2>12. Sum(f, 2 * (n + 1)) = (((((x + (w * y)) % Modulus) + a) % Modulus) + b) % Modulus
    BY <2>7, <2>8, <2>9, <2>11, Zenon
  <2>13. (Sum(g, n + 1) + (w * Sum(h, n + 1))) % Modulus
           = (((x + c) % Modulus) + (w * ((y + d) % Modulus))) % Modulus
    BY <2>6, <2>11, Zenon
  <2>14. Terms(w, a, b, c, d)
    BY <2>10, <2>11 DEF Terms
  <2>15. OneMore(w, x, y, a, b, c, d)
    BY <2>14, SumSplitStep
  <2> QED
    BY <2>12, <2>13, <2>15, Zenon DEF OneMore
<1>3. \A n \in T : n + 1 \in T
  BY <1>2
<1> HIDE DEF T
<1>4. T = Nat
  <2>1. T \in SUBSET Nat
    BY DEF T
  <2> QED
    BY <1>1, <1>3, <2>1, Induction
<1> QED
  BY <1>4 DEF T
-----------------------------------------------------------------------------
(* Powers of two, as the numbers all of whose divisors but 1 are even.     *)
Positive == Nat \ {0}
PowersOfTwo == {n \in Positive : \A a, b \in Positive : n = a * b => a = 1 \/ a % 2 = 0}

LEMMA Divides ==
  ASSUME NEW n, NEW a \in Positive, NEW b \in Positive, n = a * b
  PROVE  n % a = 0 /\ a <= n
<1>1. a <= n
  <2>1. a * b >= a
    BY DEF Positive
  <2> QED
    BY <2>1 DEF Positive
<1>2. n % a = 0
  BY DEF Positive
<1> QED
  BY <1>1, <1>2

LEMMA LengthPower == \A n \in Lengths : n \in PowersOfTwo /\ n # 1
<1> SUFFICES ASSUME NEW n \in Lengths PROVE n \in PowersOfTwo /\ n # 1
  OBVIOUS
<1>1. n \in Positive /\ n # 1 /\ \A d \in 2 .. n : n % d = 0 => d % 2 = 0
  BY LengthsAssumption DEF Positive
<1>2. ASSUME NEW a \in Positive, NEW b \in Positive, n = a * b, a # 1 PROVE a % 2 = 0
  <2>1. n % a = 0 /\ a <= n
    BY <1>2, Divides
  <2>2. a \in 2 .. n
    BY <1>1, <1>2, <2>1 DEF Positive
  <2> QED
    BY <1>1, <2>1, <2>2
<1> QED
  BY <1>1, <1>2 DEF PowersOfTwo

LEMMA FactorPower ==
  ASSUME NEW n \in PowersOfTwo, NEW a \in Positive, NEW b \in Positive, n = a * b
  PROVE  a \in PowersOfTwo /\ b \in PowersOfTwo
<1>1. ASSUME NEW c \in Positive, NEW d \in Positive, a = c * d PROVE c = 1 \/ c % 2 = 0
  <2>1. PICK e \in Positive : e = d * b
    BY DEF Positive
  <2>2. n = c * e
    BY <1>1, <2>1 DEF Positive
  <2> QED
    BY <2>2 DEF PowersOfTwo
<1>2. ASSUME NEW c \in Positive, NEW d \in Positive, b = c * d PROVE c = 1 \/ c % 2 = 0
  <2>1. PICK e \in Positive : e = a * d
    BY DEF Positive
  <2>2. n = c * e
    BY <1>2, <2>1 DEF Positive
  <2> QED
    BY <2>2 DEF PowersOfTwo
<1> QED
  BY <1>1, <1>2 DEF PowersOfTwo

LEMMA HalfPower ==
  ASSUME NEW n \in PowersOfTwo, n # 1
  PROVE  \E m \in PowersOfTwo : n = 2 * m /\ m < n
<1>1. n \in Positive /\ n = n * 1
  BY DEF PowersOfTwo, Positive
<1>2. n % 2 = 0
  BY <1>1 DEF PowersOfTwo, Positive
<1>3. n \div 2 \in Positive /\ n = 2 * (n \div 2) /\ n \div 2 < n
  BY <1>1, <1>2 DEF Positive
<1>4. n \div 2 \in PowersOfTwo
  <2>1. 2 \in Positive
    BY DEF Positive
  <2> QED
    BY <1>3, <2>1, FactorPower
<1> QED
  BY <1>3, <1>4

(* A set that holds 1 and every double of its members holds every power.   *)
LEMMA PowerInduction ==
  ASSUME NEW T, 1 \in T, \A m \in PowersOfTwo : m \in T => 2 * m \in T
  PROVE  PowersOfTwo \subseteq T
<1> SUFFICES ASSUME PowersOfTwo \ T # {} PROVE FALSE
  OBVIOUS
<1>1. PowersOfTwo \ T \in SUBSET Nat
  BY DEF PowersOfTwo, Positive
<1>2. PICK n \in PowersOfTwo \ T : \A m \in PowersOfTwo \ T : n <= m
  BY <1>1, Least
<1>3. n # 1
  BY <1>2
<1>4. PICK m \in PowersOfTwo : n = 2 * m /\ m < n
  BY <1>2, <1>3, HalfPower
<1>5. m \in T
  <2>1. m \in Nat /\ n \in Nat
    BY DEF PowersOfTwo, Positive
  <2>2. ~(n <= m)
    BY <1>4, <2>1
  <2> QED
    BY <1>2, <2>2
<1> QED
  BY <1>2, <1>4, <1>5
-----------------------------------------------------------------------------
(* The roots of unity. *)
Factors(n) == {s \in Positive : \E c \in Positive : n = s * c}

LEMMA RootOfTwo == Lengths # {} => Root(2) = Modulus - 1 /\ Root(1) = 1
<1> SUFFICES ASSUME NEW n \in Lengths PROVE Root(2) = Modulus - 1 /\ Root(1) = 1
  OBVIOUS
<1>1. n \in Nat /\ n >= 2 /\ n % n = 0
  BY LengthsAssumption
<1>2. n % 2 = 0 /\ 2 \in 2 .. n
  BY <1>1, LengthsAssumption
<1>3. (Root(2) * Root(2)) % Modulus = Root(2 \div 2)
  BY <1>2, RootAssumption
<1>4. Root(2) = Modulus - 1 /\ 2 \div 2 = 1
  BY RootAssumption
<1>5. ((Modulus - 1) * (Modulus - 1)) % Modulus = 1
  <2>1. (Modulus - 1) * (Modulus - 1) = 1 + (Modulus - 2) * Modulus
    BY ModulusAssumption
  <2>2. (Modulus - 1) * (Modulus - 1) \in Int /\ Modulus - 2 \in Int
    BY ModulusAssumption
  <2>3. ((Modulus - 1) * (Modulus - 1)) % Modulus = 1 % Modulus
    BY <2>1, <2>2, ModSame
  <2> QED
    BY <2>3, ModulusAssumption
<1> QED
  BY <1>3, <1>4, <1>5

LEMMA RootOfDouble ==
  ASSUME NEW n \in Lengths, NEW s \in Positive, 2 * s \in Factors(n)
  PROVE  Root(2 * s) \in Nat /\ (Root(2 * s) * Root(2 * s)) % Modulus = Root(s)
<1>1. PICK c \in Positive : n = (2 * s) * c
  BY DEF Factors
<1>2. PICK d \in Nat : d = 2 * s /\ d >= 2 /\ d \div 2 = s
  BY DEF Positive
<1>3. n % d = 0 /\ d <= n
  <2>1. d \in Positive /\ n = d * c
    BY <1>1, <1>2 DEF Positive
  <2> QED
    BY <2>1, Divides
<1>4. n \in Nat /\ d \in 2 .. n
  BY <1>2, <1>3, LengthsAssumption
<1>5. Root(d) \in Nat /\ (Root(d) * Root(d)) % Modulus = Root(d \div 2)
  BY <1>3, <1>4, RootAssumption
<1> QED
  BY <1>2, <1>5

LEMMA HalfFactor ==
  ASSUME NEW n \in Lengths, NEW s \in Positive, 2 * s \in Factors(n)
  PROVE  s \in Factors(n)
<1>1. PICK c \in Positive : n = (2 * s) * c
  BY DEF Factors
<1>2. n = s * (2 * c) /\ 2 * c \in Positive
  BY <1>1 DEF Positive
<1> QED
  BY <1>2 DEF Factors

LEMMA RootType ==
  ASSUME NEW n \in Lengths, NEW s \in Factors(n)
  PROVE  s \in PowersOfTwo /\ Root(s) \in Nat
<1>1. s \in PowersOfTwo
  BY LengthPower, FactorPower DEF Factors
<1>2. CASE s = 1
  BY <1>1, <1>2, RootOfTwo
<1>3. CASE s # 1
  <2>1. PICK m \in PowersOfTwo : s = 2 * m
    BY <1>1, <1>3, HalfPower
  <2>2. m \in Positive
    BY DEF PowersOfTwo
  <2> QED
    BY <1>1, <2>1, <2>2, RootOfDouble
<1> QED
  BY <1>2, <1>3

(* The root for a length is -1 at half the length, and 1 at the length.    *)
LEMMA RootAtHalf ==
  ASSUME NEW n \in Lengths, NEW q \in Positive, 2 * q \in Factors(n)
  PROVE  Power(Root(2 * q), q) = Modulus - 1
<1> DEFINE T == {s \in Positive : 2 * s \in Factors(n) => Power(Root(2 * s), s) = Modulus - 1}
<1>1. 1 \in T
  <2>1. Power(Root(2), 1) = Modulus - 1
    <3>1. Root(2) = Modulus - 1 /\ Root(2) \in Residues /\ Root(2) \in Int
      BY RootOfTwo, ModulusAssumption DEF Residues
    <3> QED
      BY <3>1, PowerOne, ModOf
  <2> QED
    BY <2>1 DEF Positive
<1>2. ASSUME NEW m \in PowersOfTwo, m \in T PROVE 2 * m \in T
  <2>1. m \in Positive /\ 2 * m \in Positive
    BY DEF PowersOfTwo, Positive
  <2>2. SUFFICES ASSUME 2 * (2 * m) \in Factors(n)
                 PROVE  Power(Root(2 * (2 * m)), 2 * m) = Modulus - 1
    BY <2>1
  <2>3. Root(2 * (2 * m)) \in Nat
        /\ (Root(2 * (2 * m)) * Root(2 * (2 * m))) % Modulus = Root(2 * m)
    BY <2>1, <2>2, RootOfDouble
  <2>4. Power(Root(2 * (2 * m)), 2 * m) = Power(Root(2 * m), m)
    <3>1. PICK w \in Int : w = Root(2 * (2 * m)) /\ (w * w) % Modulus = Root(2 * m)
      BY <2>3
    <3>2. Power(w, 2 * m) = Power((w * w) % Modulus, m)
      BY <2>1, PowerSquare DEF Positive
    <3> QED
      BY <3>1, <3>2
  <2>5. 2 * m \in Factors(n)
    BY <2>1, <2>2, HalfFactor
  <2> QED
    BY <1>2, <2>4, <2>5
<1> HIDE DEF T
<1>3. PowersOfTwo \subseteq T
  BY <1>1, <1>2, PowerInduction
<1>4. q \in PowersOfTwo
  BY HalfFactor, RootType
<1> QED
  BY <1>3, <1>4 DEF T

LEMMA RootAtWhole ==
  ASSUME NEW n \in Lengths, NEW q \in Factors(n)
  PROVE  Power(Root(q), q) = 1
<1> DEFINE T == {s \in Positive : s \in Factors(n) => Power(Root(s), s) = 1}
<1>1. 1 \in T
  <2>1. Power(Root(1), 1) = 1
    <3>1. Root(1) = 1 /\ 1 % Modulus = 1
      BY RootOfTwo, ModulusAssumption
    <3> QED
      BY <3>1, PowerOne
  <2> QED
    BY <2>1 DEF Positive
<1>2. ASSUME NEW m \in PowersOfTwo, m \in T PROVE 2 * m \in T
  <2>1. m \in Positive /\ 2 * m \in Positive
    BY DEF PowersOfTwo, Positive
  <2>2. SUFFICES ASSUME 2 * m \in Factors(n) PROVE Power(Root(2 * m), 2 * m) = 1
    BY <2>1
  <2>3. PICK w \in Int : w = Root(2 * m) /\ (w * w) % Modulus = Root(m)
    BY <2>1, <2>2, RootOfDouble
  <2>4. Power(w, 2 * m) = Power((w * w) % Modulus, m)
    BY <2>1, PowerSquare DEF Positive
  <2>5. m \in Factors(n)
    BY <2>1, <2>2, HalfFactor
  <2> QED
    BY <1>2, <2>3, <2>4, <2>5
<1> HIDE DEF T
<1>3. PowersOfTwo \subseteq T
  BY <1>1, <1>2, PowerInduction
<1>4. q \in PowersOfTwo
  BY RootType
<1> QED
  BY <1>3, <1>4 DEF T

(* So exponents of a root count only modulo its order.                     *)
LEMMA RootPeriod ==
  ASSUME NEW n \in Lengths, NEW s \in Factors(n), NEW a \in Nat, NEW b \in Nat
  PROVE  Power(Root(s), s * a + b) = Power(Root(s), b)
<1>1. PICK w \in Int : w = Root(s)
  BY RootType
<1>2. s \in Nat
  BY DEF Factors, Positive
<1> DEFINE T == {c \in Nat : Power(w, s * c) = 1}
<1>3. 0 \in T
  BY <1>2, PowerZero
<1>4. ASSUME NEW c \in T PROVE c + 1 \in T
  <2>1. c \in Nat /\ s * c \in Nat /\ s * (c + 1) = s * c + s
    BY <1>2
  <2>2. Power(w, s * c + s) = (Power(w, s * c) * Power(w, s)) % Modulus
    BY <1>2, <2>1, PowerSum
  <2>3. Power(w, s * c) = 1 /\ Power(w, s) = 1
    BY <1>1, RootAtWhole
  <2>4. (1 * 1) % Modulus = 1
    BY ModulusAssumption
  <2> QED
    BY <2>1, <2>2, <2>3, <2>4
<1> HIDE DEF T
<1>5. T = Nat
  <2>1. T \in SUBSET Nat
    BY DEF T
  <2> QED
    BY <1>3, <1>4, <2>1, Induction
<1>6. Power(w, s * a + b) = (Power(w, s * a) * Power(w, b)) % Modulus
  <2>1. s * a \in Nat
    BY <1>2
  <2> QED
    BY <2>1, PowerSum
<1>7. Power(w, s * a) = 1
  BY <1>5 DEF T
<1>8. (1 * Power(w, b)) % Modulus = Power(w, b)
  <2>1. Power(w, b) \in Residues
    BY PowerType
  <2>2. \A z \in Residues : 1 * z = z
    BY DEF Residues
  <2> QED
    BY <2>1, <2>2, ModOf
<1> QED
  BY <1>1, <1>6, <1>7, <1>8
-----------------------------------------------------------------------------
(* Reversing the bits of the numbers below n, a power of two.  With        *)
(* n = 2 * s * t, the bit of s becomes the bit of t, those above s become  *)
(* those below t, and those below s become those above t.                  *)
HighBits(R, s, t) ==
  \A q \in 0 .. t - 1 : R[2 * (s * q)] < t /\ R[2 * (s * q) + s] = R[2 * (s * q)] + t
LowBits(R, s, t) ==
  \A a \in 0 .. s - 1 : \E b \in 0 .. s - 1 : R[a] = 2 * (t * b) /\ R[a + s] = 2 * (t * b) + t
IsReversal(R, n) ==
  /\ R \in [0 .. n - 1 -> 0 .. n - 1]
  /\ R[0] = 0
  /\ \A s, t \in Positive : n = 2 * (s * t) => HighBits(R, s, t) /\ LowBits(R, s, t)

LEMMA Row ==
  ASSUME NEW s \in Nat, NEW t \in Nat, NEW q \in 0 .. t - 1
  PROVE  s * q \in Nat /\ (s * q) + s <= s * t
<1>1. PICK d \in Nat : d = (t - 1) - q
  OBVIOUS
<1>2. PICK e \in Nat : e = s * d
  BY <1>1
<1>3. s * t = ((s * q) + s) + e
  <2>1. t = (q + 1) + d
    BY <1>1
  <2>2. s * ((q + 1) + d) = ((s * q) + s) + (s * d)
    BY <1>1
  <2> QED
    BY <1>2, <2>1, <2>2
<1>4. s * q \in Nat
  OBVIOUS
<1> QED
  BY <1>2, <1>3, <1>4

(* The reversal for 2 * m takes the last bit first.                        *)
Doubles(R, Q, m) ==
  /\ R \in [0 .. (2 * m) - 1 -> 0 .. (2 * m) - 1]
  /\ \A p \in 0 .. m - 1 : R[2 * p] = Q[p] /\ R[(2 * p) + 1] = m + Q[p]

LEMMA DoubleExists ==
  ASSUME NEW m \in Positive, NEW Q \in [0 .. m - 1 -> 0 .. m - 1]
  PROVE  \E R : Doubles(R, Q, m)
<1>1. PICK R : R = [p \in 0 .. (2 * m) - 1 |-> IF p % 2 = 0 THEN Q[p \div 2] ELSE m + Q[p \div 2]]
  OBVIOUS
<1>2. \A p \in 0 .. (2 * m) - 1 : p \div 2 \in 0 .. m - 1
  BY DEF Positive
<1>3. R \in [0 .. (2 * m) - 1 -> 0 .. (2 * m) - 1]
  <2>1. ASSUME NEW p \in 0 .. (2 * m) - 1 PROVE R[p] \in 0 .. (2 * m) - 1
    <3>1. Q[p \div 2] \in 0 .. m - 1
      BY <1>2
    <3>2. R[p] = IF p % 2 = 0 THEN Q[p \div 2] ELSE m + Q[p \div 2]
      BY <1>1
    <3>3. m \in Nat
      BY DEF Positive
    <3> QED
      BY <3>1, <3>2, <3>3
  <2> QED
    BY <1>1, <2>1
<1>4. ASSUME NEW p \in 0 .. m - 1 PROVE R[2 * p] = Q[p] /\ R[(2 * p) + 1] = m + Q[p]
  <2>1. /\ 2 * p \in 0 .. (2 * m) - 1 /\ (2 * p) % 2 = 0 /\ (2 * p) \div 2 = p
        /\ (2 * p) + 1 \in 0 .. (2 * m) - 1 /\ ((2 * p) + 1) % 2 # 0 /\ ((2 * p) + 1) \div 2 = p
    BY DEF Positive
  <2> QED
    BY <1>1, <2>1
<1> QED
  BY <1>3, <1>4 DEF Doubles

LEMMA DoubleHigh ==
  ASSUME NEW m \in Positive, NEW Q, IsReversal(Q, m), NEW R, Doubles(R, Q, m),
         NEW h \in Positive, NEW t \in Positive, m = 2 * (h * t)
  PROVE  HighBits(R, 2 * h, t)
<1> SUFFICES ASSUME NEW q \in 0 .. t - 1
             PROVE  /\ R[2 * ((2 * h) * q)] < t
                    /\ R[2 * ((2 * h) * q) + (2 * h)] = R[2 * ((2 * h) * q)] + t
  BY DEF HighBits
<1>1. PICK x \in Nat : x = h * q /\ x + h <= h * t
  <2>1. h \in Nat /\ t \in Nat
    BY DEF Positive
  <2> QED
    BY <2>1, Row
<1>2. Q[2 * x] < t /\ Q[(2 * x) + h] = Q[2 * x] + t
  BY <1>1 DEF IsReversal, HighBits
<1>3. 2 * x \in 0 .. m - 1 /\ (2 * x) + h \in 0 .. m - 1
  <2>1. PICK y \in Int : y = h * t
    BY DEF Positive
  <2> QED
    BY <1>1, <2>1 DEF Positive
<1>4. R[2 * (2 * x)] = Q[2 * x] /\ R[2 * ((2 * x) + h)] = Q[(2 * x) + h]
  BY <1>3 DEF Doubles
<1>5. 2 * ((2 * h) * q) = 2 * (2 * x) /\ 2 * ((2 * h) * q) + (2 * h) = 2 * ((2 * x) + h)
  BY <1>1 DEF Positive
<1> QED
  BY <1>2, <1>4, <1>5

LEMMA DoubleLow ==
  ASSUME NEW m \in Positive, NEW Q, IsReversal(Q, m), NEW R, Doubles(R, Q, m),
         NEW h \in Positive, NEW t \in Positive, m = 2 * (h * t)
  PROVE  LowBits(R, 2 * h, t)
<1> SUFFICES ASSUME NEW a \in 0 .. (2 * h) - 1
             PROVE  \E b \in 0 .. (2 * h) - 1 :
                      R[a] = 2 * (t * b) /\ R[a + (2 * h)] = 2 * (t * b) + t
  BY DEF LowBits
<1>1. PICK p \in 0 .. h - 1 : p = a \div 2
  BY DEF Positive
<1>2. a = 2 * p \/ a = (2 * p) + 1
  BY <1>1 DEF Positive
<1>3. PICK c \in 0 .. h - 1 : Q[p] = 2 * (t * c) /\ Q[p + h] = 2 * (t * c) + t
  BY DEF IsReversal, LowBits
<1>4. p \in 0 .. m - 1 /\ p + h \in 0 .. m - 1
  <2>1. h * t >= h
    BY DEF Positive
  <2>2. PICK y \in Int : y = h * t
    BY DEF Positive
  <2> QED
    BY <2>1, <2>2 DEF Positive
<1>5. CASE a = 2 * p
  <2>1. R[2 * p] = Q[p] /\ R[2 * (p + h)] = Q[p + h]
    BY <1>4 DEF Doubles
  <2>2. a + (2 * h) = 2 * (p + h) /\ c \in 0 .. (2 * h) - 1
    BY <1>5 DEF Positive
  <2> QED
    BY <1>3, <1>5, <2>1, <2>2
<1>6. CASE a = (2 * p) + 1
  <2>1. R[(2 * p) + 1] = m + Q[p] /\ R[(2 * (p + h)) + 1] = m + Q[p + h]
    BY <1>4 DEF Doubles
  <2>2. a + (2 * h) = (2 * (p + h)) + 1 /\ h + c \in 0 .. (2 * h) - 1
    BY <1>6 DEF Positive
  <2>3. m + 2 * (t * c) = 2 * (t * (h + c)) /\ m + (2 * (t * c) + t) = 2 * (t * (h + c)) + t
    <3>1. t * (h + c) = (h * t) + (t * c)
      BY DEF Positive
    <3>2. PICK y \in Int, z \in Int, v \in Int : y = h * t /\ z = t * c /\ v = t * (h + c)
      BY DEF Positive
    <3>3. v = y + z /\ m = 2 * y /\ t \in Int
      BY <3>1, <3>2 DEF Positive
    <3>4. m + 2 * z = 2 * v /\ m + (2 * z + t) = 2 * v + t
      BY <3>3
    <3> QED
      BY <3>2, <3>4, Zenon
  <2> QED
    BY <1>3, <1>6, <2>1, <2>2, <2>3
<1> QED
  BY <1>2, <1>5, <1>6

LEMMA DoubleReversal ==
  ASSUME NEW m \in PowersOfTwo, NEW Q, IsReversal(Q, m), NEW R, Doubles(R, Q, m)
  PROVE  IsReversal(R, 2 * m)
<1>1. m \in Positive
  BY DEF PowersOfTwo
<1>2. Q[0] = 0 /\ R[0] = 0 /\ R[1] = m
  <2>1. Q[0] = 0 /\ 0 \in 0 .. m - 1
    BY <1>1 DEF IsReversal, Positive
  <2>2. R[2 * 0] = Q[0] /\ R[(2 * 0) + 1] = m + Q[0]
    BY <2>1 DEF Doubles
  <2> QED
    BY <1>1, <2>1, <2>2 DEF Positive
<1>3. ASSUME NEW s \in Positive, NEW t \in Positive, 2 * m = 2 * (s * t)
      PROVE  HighBits(R, s, t) /\ LowBits(R, s, t)
  <2>1. m = s * t
    <3>1. s * t \in Int
      BY DEF Positive
    <3> QED
      BY <1>1, <1>3, <3>1 DEF Positive
  <2>2. CASE s = 1
    <3>1. t = m
      BY <2>1, <2>2 DEF Positive
    <3>2. ASSUME NEW q \in 0 .. t - 1
          PROVE  R[2 * (s * q)] < t /\ R[2 * (s * q) + s] = R[2 * (s * q)] + t
      <4>1. R[2 * q] = Q[q] /\ R[(2 * q) + 1] = m + Q[q] /\ Q[q] \in 0 .. m - 1
        BY <3>1 DEF Doubles, IsReversal
      <4>2. s * q = q
        BY <2>2
      <4> QED
        BY <1>1, <2>2, <3>1, <4>1, <4>2 DEF Positive
    <3>3. LowBits(R, s, t)
      <4>1. 0 \in 0 .. s - 1 /\ 2 * (t * 0) = 0 /\ 2 * (t * 0) + t = m /\ 0 + s = 1
        BY <1>1, <2>2, <3>1 DEF Positive
      <4>2. \A a \in 0 .. s - 1 : a = 0
        BY <2>2
      <4> QED
        BY <1>2, <4>1, <4>2 DEF LowBits
    <3> QED
      BY <3>2, <3>3 DEF HighBits
  <2>3. CASE s # 1
    <3>1. s % 2 = 0
      BY <2>1, <2>3 DEF PowersOfTwo
    <3>2. PICK h \in Positive : s = 2 * h
      <4>1. s \div 2 \in Positive /\ s = 2 * (s \div 2)
        BY <3>1 DEF Positive
      <4> QED
        BY <4>1
    <3>3. m = 2 * (h * t)
      BY <2>1, <3>2 DEF Positive
    <3>4. HighBits(R, 2 * h, t)
      BY <1>1, <3>3, DoubleHigh
    <3>5. LowBits(R, 2 * h, t)
      BY <1>1, <3>3, DoubleLow
    <3> QED
      BY <3>2, <3>4, <3>5
  <2> QED
    BY <2>2, <2>3
<1> QED
  BY <1>2, <1>3 DEF IsReversal, Doubles

LEMMA ReversalExists == \A n \in PowersOfTwo : \E R : IsReversal(R, n)
<1> DEFINE T == {n \in Positive : \E R : IsReversal(R, n)}
<1>1. 1 \in T
  <2>1. PICK R : R = [m \in 0 .. 0 |-> 0]
    OBVIOUS
  <2>2. R \in [0 .. 1 - 1 -> 0 .. 1 - 1] /\ R[0] = 0
    BY <2>1
  <2>3. \A s, t \in Positive : 1 # 2 * (s * t)
    <3> SUFFICES ASSUME NEW s \in Positive, NEW t \in Positive PROVE 1 # 2 * (s * t)
      OBVIOUS
    <3>1. s * t \in Int
      BY DEF Positive
    <3> QED
      BY <3>1
  <2>4. IsReversal(R, 1)
    BY <2>2, <2>3 DEF IsReversal
  <2> QED
    BY <2>4 DEF Positive
<1>2. ASSUME NEW m \in PowersOfTwo, m \in T PROVE 2 * m \in T
  <2>1. PICK Q : IsReversal(Q, m)
    BY <1>2
  <2>2. PICK R : Doubles(R, Q, m)
    BY <1>2, <2>1, DoubleExists DEF IsReversal
  <2>3. IsReversal(R, 2 * m)
    BY <2>1, <2>2, DoubleReversal
  <2> QED
    BY <1>2, <2>3 DEF Positive
<1> HIDE DEF T
<1>3. PowersOfTwo \subseteq T
  BY <1>1, <1>2, PowerInduction
<1> QED
  BY <1>3 DEF T

(* The reversal undoes itself.                                             *)
LEMMA ReversalTwice ==
  ASSUME NEW n \in PowersOfTwo, NEW R, IsReversal(R, n), NEW m \in 0 .. n - 1
  PROVE  R[m] \in 0 .. n - 1 /\ R[R[m]] = m
<1> DEFINE T == {s \in Positive : \A t \in Positive : n = s * t => \A a \in 0 .. s - 1 : R[R[a]] = a}
<1>1. 1 \in T
  <2>1. \A a \in 0 .. 1 - 1 : a = 0
    OBVIOUS
  <2> QED
    BY <2>1 DEF IsReversal, Positive
<1>2. ASSUME NEW s \in PowersOfTwo, s \in T PROVE 2 * s \in T
  <2>1. s \in Positive /\ 2 * s \in Positive
    BY DEF PowersOfTwo, Positive
  <2>2. SUFFICES ASSUME NEW t \in Positive, n = (2 * s) * t, NEW a \in 0 .. (2 * s) - 1
                 PROVE  R[R[a]] = a
    BY <2>1
  <2>3. n = s * (2 * t) /\ 2 * t \in Positive
    BY <2>1, <2>2 DEF Positive
  <2>4. n = 2 * (s * t) /\ n = 2 * (t * s)
    BY <2>1, <2>2 DEF Positive
  <2>5. LowBits(R, s, t) /\ HighBits(R, t, s)
    BY <2>1, <2>4 DEF IsReversal
  <2>6. CASE a < s
    <3>1. a \in 0 .. s - 1
      BY <2>1, <2>6 DEF Positive
    <3> QED
      BY <1>2, <2>3, <3>1
  <2>7. CASE ~(a < s)
    <3>1. PICK c \in 0 .. s - 1 : a = c + s
      <4>1. a - s \in 0 .. s - 1 /\ a = (a - s) + s
        BY <2>1, <2>7 DEF Positive
      <4> QED
        BY <4>1
    <3>2. PICK b \in 0 .. s - 1 : R[c] = 2 * (t * b) /\ R[c + s] = 2 * (t * b) + t
      BY <2>5 DEF LowBits
    <3>3. R[R[c]] = c
      BY <1>2, <2>3
    <3>4. R[2 * (t * b) + t] = R[2 * (t * b)] + s
      BY <2>5 DEF HighBits
    <3> QED
      BY <3>1, <3>2, <3>3, <3>4
  <2> QED
    BY <2>6, <2>7
<1> HIDE DEF T
<1>3. PowersOfTwo \subseteq T
  BY <1>1, <1>2, PowerInduction
<1>4. n \in T
  BY <1>3
<1>5. n = n * 1 /\ 1 \in Positive
  BY DEF PowersOfTwo, Positive
<1>6. R[R[m]] = m
  BY <1>4, <1>5 DEF T
<1> QED
  BY <1>6 DEF IsReversal
-----------------------------------------------------------------------------
(* The transform of s samples of x, those t apart from sample o.           *)
Samples(x, s, t, o, q) == [n \in 0 .. s - 1 |-> x[o + (n * t)] * Power(Root(s), n * q)]
Block(x, s, t, o, q) == Sum(Samples(x, s, t, o, q), s)
Within(L, x) == L \in Lengths /\ x \in [0 .. L - 1 -> Residues]

LEMMA SamplesType ==
  ASSUME NEW L, NEW x, Within(L, x), NEW s \in Positive, NEW t \in Positive, L = s * t,
         NEW o \in 0 .. t - 1, NEW q \in Nat, NEW n \in 0 .. s - 1
  PROVE  /\ n * t \in Nat /\ o + (n * t) \in 0 .. L - 1
         /\ x[o + (n * t)] \in Residues /\ Power(Root(s), n * q) \in Residues
         /\ Samples(x, s, t, o, q)[n] = x[o + (n * t)] * Power(Root(s), n * q)
         /\ Samples(x, s, t, o, q)[n] \in Int
<1>1. s \in Nat /\ t \in Nat
  BY DEF Positive
<1>2. PICK a \in Nat : a = t * n /\ a + t <= t * s
  BY <1>1, Row
<1>3. a = n * t /\ L = t * s
  BY <1>1, <1>2
<1>4. o + a \in 0 .. L - 1
  <2>1. PICK y \in Int : y = t * s
    BY <1>1
  <2> QED
    BY <1>1, <1>2, <1>3, <2>1
<1>5. x[o + (n * t)] \in Residues
  BY <1>3, <1>4 DEF Within
<1>6. Power(Root(s), n * q) \in Residues
  <2>1. Root(s) \in Nat
    BY RootType DEF Factors, Within
  <2>2. n * q \in Nat /\ Root(s) \in Int
    BY <2>1
  <2> QED
    BY <2>2, PowerType
<1>7. Samples(x, s, t, o, q)[n] = x[o + (n * t)] * Power(Root(s), n * q)
  BY DEF Samples
<1>8. \A y, z \in Residues : y * z \in Int
  BY DEF Residues
<1>9. Samples(x, s, t, o, q)[n] \in Int
  BY <1>5, <1>6, <1>7, <1>8
<1> QED
  BY <1>2, <1>3, <1>4, <1>5, <1>6, <1>7, <1>9

LEMMA BlockType ==
  ASSUME NEW L, NEW x, Within(L, x), NEW s \in Positive, NEW t \in Positive, L = s * t,
         NEW o \in 0 .. t - 1, NEW q \in Nat
  PROVE  Block(x, s, t, o, q) \in Residues
<1>1. \A n \in 0 .. s - 1 : Samples(x, s, t, o, q)[n] \in Int
  BY SamplesType
<1>2. s \in Nat
  BY DEF Positive
<1> QED
  BY <1>1, <1>2, SumType DEF Block

LEMMA BlockOfOne ==
  ASSUME NEW L, NEW x, Within(L, x), NEW o \in 0 .. L - 1
  PROVE  Block(x, 1, L, o, 0) = x[o]
<1>1. L \in Positive /\ 1 \in Positive /\ L = 1 * L /\ 0 \in Nat
  BY LengthsAssumption DEF Within, Positive
<1>2. PICK f : f = Samples(x, 1, L, o, 0)
  OBVIOUS
<1>3. f[0] = x[o + (0 * L)] * Power(Root(1), 0 * 0) /\ x[o + (0 * L)] \in Residues /\ f[0] \in Int
  <2>1. 0 \in 0 .. 1 - 1
    OBVIOUS
  <2> QED
    BY <1>1, <1>2, <2>1, SamplesType
<1>4. o + (0 * L) = o /\ 0 * 0 = 0
  BY <1>1 DEF Positive
<1>5. Power(Root(1), 0) = 1
  BY RootOfTwo, PowerZero DEF Within
<1>6. f[0] = x[o] /\ x[o] \in Residues
  <2>1. x[o] \in Residues /\ f[0] = x[o] * 1
    BY <1>3, <1>4, <1>5
  <2>2. \A y \in Residues : y * 1 = y
    BY DEF Residues
  <2> QED
    BY <2>1, <2>2
<1>7. Sum(f, 0 + 1) = (Sum(f, 0) + f[0]) % Modulus
  <2>1. \A m \in 0 .. 0 : f[m] \in Int
    BY <1>3
  <2> QED
    BY <2>1, SumNext
<1>8. (0 + f[0]) % Modulus = f[0]
  <2>1. \A y \in Residues : 0 + y = y
    BY DEF Residues
  <2> QED
    BY <1>6, <2>1, ModOf
<1>9. 0 + 1 = 1 /\ Sum(f, 0) = 0
  BY SumZero
<1> QED
  BY <1>2, <1>6, <1>7, <1>8, <1>9 DEF Block

(* Even and odd samples apart, in numbers. *)
LEMMA OddTerm ==
  ASSUME NEW y \in Int, NEW p \in Int, NEW w \in Int
  PROVE  (y * ((p * w) % Modulus)) % Modulus = (w * (y * p)) % Modulus
<1>1. PICK z \in Int : z = p * w
  OBVIOUS
<1>2. (y * (z % Modulus)) % Modulus = (y * z) % Modulus
  BY ModProduct
<1>3. y * z = w * (y * p)
  BY <1>1
<1> QED
  BY <1>1, <1>2, <1>3

LEMMA SamplesInterleave ==
  ASSUME NEW L, NEW x, Within(L, x), NEW s \in Positive, NEW t \in Positive, L = 2 * (s * t),
         NEW o \in 0 .. t - 1, NEW q \in Nat
  PROVE  Interleaves(Samples(x, 2 * s, t, o, q), Samples(x, s, 2 * t, o, q),
                     Samples(x, s, 2 * t, o + t, q), Power(Root(2 * s), q), s)
<1>1. /\ 2 * s \in Positive /\ 2 * t \in Positive /\ L = (2 * s) * t /\ L = s * (2 * t)
      /\ o \in 0 .. (2 * t) - 1 /\ o + t \in 0 .. (2 * t) - 1
  BY DEF Positive
<1>2. L \in Lengths
  BY DEF Within
<1>3. 2 * s \in Factors(L)
  BY <1>1 DEF Factors
<1>4. PICK v \in Int : v = Root(2 * s) /\ (v * v) % Modulus = Root(s)
  BY <1>2, <1>3, RootOfDouble
<1>5. PICK w \in Int : w = Power(v, q)
  BY PowerType DEF Residues
<1> SUFFICES ASSUME NEW m \in 0 .. s - 1
             PROVE  /\ Samples(x, 2 * s, t, o, q)[2 * m] \in Int
                    /\ Samples(x, 2 * s, t, o, q)[(2 * m) + 1] \in Int
                    /\ Samples(x, s, 2 * t, o, q)[m] \in Int
                    /\ Samples(x, s, 2 * t, o + t, q)[m] \in Int
                    /\ Samples(x, 2 * s, t, o, q)[2 * m] % Modulus
                         = Samples(x, s, 2 * t, o, q)[m] % Modulus
                    /\ Samples(x, 2 * s, t, o, q)[(2 * m) + 1] % Modulus
                         = (w * Samples(x, s, 2 * t, o + t, q)[m]) % Modulus
  BY <1>4, <1>5 DEF Interleaves
<1>6. 2 * m \in 0 .. (2 * s) - 1 /\ (2 * m) + 1 \in 0 .. (2 * s) - 1
  BY DEF Positive
<1>7. /\ Samples(x, 2 * s, t, o, q)[2 * m] = x[o + ((2 * m) * t)] * Power(Root(2 * s), (2 * m) * q)
      /\ Samples(x, 2 * s, t, o, q)[2 * m] \in Int
  <2>1. PICK a \in 0 .. (2 * s) - 1 : a = 2 * m
    BY <1>6
  <2>2. /\ Samples(x, 2 * s, t, o, q)[a] = x[o + (a * t)] * Power(Root(2 * s), a * q)
        /\ Samples(x, 2 * s, t, o, q)[a] \in Int
    <3>1. 2 * s \in Positive /\ L = (2 * s) * t
      BY <1>1
    <3> QED
      BY <3>1, SamplesType
  <2> QED
    BY <2>1, <2>2, Zenon
<1>8. /\ Samples(x, 2 * s, t, o, q)[(2 * m) + 1]
           = x[o + (((2 * m) + 1) * t)] * Power(Root(2 * s), ((2 * m) + 1) * q)
      /\ Samples(x, 2 * s, t, o, q)[(2 * m) + 1] \in Int
  <2>1. PICK a \in 0 .. (2 * s) - 1 : a = (2 * m) + 1
    BY <1>6
  <2>2. /\ Samples(x, 2 * s, t, o, q)[a] = x[o + (a * t)] * Power(Root(2 * s), a * q)
        /\ Samples(x, 2 * s, t, o, q)[a] \in Int
    <3>1. 2 * s \in Positive /\ L = (2 * s) * t
      BY <1>1
    <3> QED
      BY <3>1, SamplesType
  <2> QED
    BY <2>1, <2>2, Zenon
<1>9. /\ Samples(x, s, 2 * t, o, q)[m] = x[o + (m * (2 * t))] * Power(Root(s), m * q)
      /\ Samples(x, s, 2 * t, o, q)[m] \in Int
  BY <1>1, SamplesType
<1>10. /\ Samples(x, s, 2 * t, o + t, q)[m] = x[(o + t) + (m * (2 * t))] * Power(Root(s), m * q)
       /\ x[(o + t) + (m * (2 * t))] \in Residues
       /\ Samples(x, s, 2 * t, o + t, q)[m] \in Int
  BY <1>1, SamplesType
<1>11. /\ o + ((2 * m) * t) = o + (m * (2 * t))
       /\ o + (((2 * m) + 1) * t) = (o + t) + (m * (2 * t))
  BY DEF Positive
<1>12. m * q \in Nat /\ (2 * m) * q = 2 * (m * q) /\ ((2 * m) + 1) * q = 2 * (m * q) + q
  OBVIOUS
<1>13. PICK p \in Int : p = Power(Root(s), m * q) /\ p = Power(v, 2 * (m * q))
  <2>1. Power(v, 2 * (m * q)) = Power((v * v) % Modulus, m * q)
    BY <1>12, PowerSquare
  <2>2. 2 * (m * q) \in Nat
    BY <1>12
  <2>3. Power(v, 2 * (m * q)) \in Int
    <3>1. PICK a \in Nat : a = 2 * (m * q)
      BY <2>2
    <3>2. Power(v, a) \in Int
      BY PowerType DEF Residues
    <3> QED
      BY <3>1, <3>2
  <2> QED
    BY <1>4, <2>1, <2>3
<1>14. Power(v, 2 * (m * q) + q) = (p * w) % Modulus
  <2>1. 2 * (m * q) \in Nat
    BY <1>12
  <2>2. Power(v, 2 * (m * q) + q) = (Power(v, 2 * (m * q)) * Power(v, q)) % Modulus
    BY <2>1, PowerSum
  <2> QED
    BY <1>5, <1>13, <2>2
<1>15. Samples(x, 2 * s, t, o, q)[2 * m] = Samples(x, s, 2 * t, o, q)[m]
  BY <1>4, <1>7, <1>9, <1>11, <1>12, <1>13, Zenon
<1>16. PICK y \in Int : y = x[(o + t) + (m * (2 * t))]
  BY <1>10 DEF Residues
<1>17. Samples(x, 2 * s, t, o, q)[(2 * m) + 1] = y * ((p * w) % Modulus)
  BY <1>4, <1>8, <1>11, <1>12, <1>14, <1>16, Zenon
<1>18. Samples(x, s, 2 * t, o + t, q)[m] = y * p
  BY <1>10, <1>13, <1>16, Zenon
<1>19. (y * ((p * w) % Modulus)) % Modulus = (w * (y * p)) % Modulus
  BY OddTerm
<1>20. Samples(x, 2 * s, t, o, q)[(2 * m) + 1] % Modulus
         = (w * Samples(x, s, 2 * t, o + t, q)[m]) % Modulus
  BY <1>17, <1>18, <1>19, Zenon
<1> QED
  BY <1>7, <1>8, <1>9, <1>10, <1>15, <1>20, Zenon

LEMMA BlockMerge ==
  ASSUME NEW L, NEW x, Within(L, x), NEW s \in Positive, NEW t \in Positive, L = 2 * (s * t),
         NEW o \in 0 .. t - 1, NEW q \in Nat
  PROVE  Block(x, 2 * s, t, o, q)
           = (Block(x, s, 2 * t, o, q) + (Power(Root(2 * s), q) * Block(x, s, 2 * t, o + t, q))) % Modulus
<1>1. PICK w \in Int : w = Power(Root(2 * s), q)
  <2>1. 2 * s \in Factors(L) /\ L \in Lengths
    <3>1. L = (2 * s) * t /\ 2 * s \in Positive
      BY DEF Positive
    <3> QED
      BY <3>1 DEF Factors, Within
  <2>2. PICK v \in Int : v = Root(2 * s)
    BY <2>1, RootOfDouble
  <2>3. Power(v, q) \in Int
    BY PowerType DEF Residues
  <2> QED
    BY <2>2, <2>3
<1>2. PICK f, g, h : /\ f = Samples(x, 2 * s, t, o, q) /\ g = Samples(x, s, 2 * t, o, q)
                     /\ h = Samples(x, s, 2 * t, o + t, q)
  OBVIOUS
<1>3. s \in Nat
  BY DEF Positive
<1>4. Interleaves(f, g, h, w, s)
  BY <1>1, <1>2, SamplesInterleave
<1>5. Sum(f, 2 * s) = (Sum(g, s) + (w * Sum(h, s))) % Modulus
  BY <1>3, <1>4, SumSplit
<1> QED
  BY <1>1, <1>2, <1>5, Zenon DEF Block

LEMMA BlockPeriod ==
  ASSUME NEW L \in Lengths, NEW x, NEW s \in Factors(L), NEW t, NEW o, NEW q \in Nat
  PROVE  Block(x, s, t, o, q + s) = Block(x, s, t, o, q)
<1>1. s \in Nat
  BY DEF Factors, Positive
<1>2. ASSUME NEW n \in 0 .. s - 1
      PROVE  Power(Root(s), n * (q + s)) = Power(Root(s), n * q)
  <2>1. n * (q + s) = s * n + n * q /\ n * q \in Nat /\ n \in Nat
    BY <1>1
  <2> QED
    BY <2>1, RootPeriod
<1>3. Samples(x, s, t, o, q + s) = Samples(x, s, t, o, q)
  BY <1>2, Zenon DEF Samples
<1> QED
  BY <1>3 DEF Block

LEMMA BlockHigh ==
  ASSUME NEW L, NEW x, Within(L, x), NEW s \in Positive, NEW t \in Positive, L = 2 * (s * t),
         NEW o \in 0 .. t - 1, NEW q \in Nat
  PROVE  Block(x, 2 * s, t, o, q + s)
           = (Block(x, s, 2 * t, o, q) - (Power(Root(2 * s), q) * Block(x, s, 2 * t, o + t, q))) % Modulus
<1>1. /\ L \in Lengths /\ 2 * s \in Factors(L) /\ s \in Factors(L) /\ s \in Nat
      /\ L = s * (2 * t) /\ 2 * t \in Positive /\ q + s \in Nat
      /\ o \in 0 .. (2 * t) - 1 /\ o + t \in 0 .. (2 * t) - 1
  <2>1. /\ L = (2 * s) * t /\ 2 * s \in Positive /\ L = s * (2 * t) /\ 2 * t \in Positive
        /\ s \in Nat /\ q + s \in Nat /\ o \in 0 .. (2 * t) - 1 /\ o + t \in 0 .. (2 * t) - 1
    BY DEF Positive
  <2> QED
    BY <2>1 DEF Factors, Within
<1>2. PICK v \in Int : v = Root(2 * s)
  BY <1>1, RootOfDouble
<1>3. PICK w \in Int : w = Power(v, q)
  BY PowerType DEF Residues
<1>4. PICK a \in Int : a = Block(x, s, 2 * t, o, q)
  BY <1>1, BlockType DEF Residues
<1>5. PICK b \in Int : b = Block(x, s, 2 * t, o + t, q)
  BY <1>1, BlockType DEF Residues
<1>6. Block(x, s, 2 * t, o, q + s) = a
  BY <1>1, <1>4, BlockPeriod
<1>7. Block(x, s, 2 * t, o + t, q + s) = b
  BY <1>1, <1>5, BlockPeriod
<1>8. Power(v, q + s) = (w * (Modulus - 1)) % Modulus
  <2>1. Power(v, q + s) = (Power(v, q) * Power(v, s)) % Modulus
    BY <1>1, PowerSum
  <2>2. Power(v, s) = Modulus - 1
    BY <1>1, <1>2, RootAtHalf
  <2> QED
    BY <1>3, <2>1, <2>2
<1>9. PICK z \in Int : z = (w * (Modulus - 1)) % Modulus
  <2>1. w * (Modulus - 1) \in Int
    BY ModulusAssumption
  <2> QED
    BY <2>1, ModType DEF Residues
<1>10. Block(x, 2 * s, t, o, q + s) = (a + (z * b)) % Modulus
  <2>1. Block(x, 2 * s, t, o, q + s)
          = (Block(x, s, 2 * t, o, q + s)
              + (Power(Root(2 * s), q + s) * Block(x, s, 2 * t, o + t, q + s))) % Modulus
    BY <1>1, BlockMerge
  <2> QED
    BY <1>2, <1>6, <1>7, <1>8, <1>9, <2>1, Zenon
<1>11. (a + (z * b)) % Modulus = (a - (w * b)) % Modulus
  <2>1. PICK c \in Int : z = w * (Modulus - 1) + c * Modulus
    <3>1. w * (Modulus - 1) \in Int
      BY ModulusAssumption
    <3> QED
      BY <1>9, <3>1, ModDiffers
  <2>2. a + (z * b) = (a - (w * b)) + ((w + c) * b) * Modulus
    <3>1. z = (w + c) * Modulus - w
      BY <2>1, ModulusAssumption
    <3>2. PICK d \in Int : d = w + c
      OBVIOUS
    <3>3. (d * Modulus - w) * b = (d * b) * Modulus - w * b
      BY ModulusAssumption
    <3>4. PICK e \in Int, y \in Int, r \in Int : e = z * b /\ y = (d * b) * Modulus /\ r = w * b
      BY ModulusAssumption
    <3> QED
      BY <3>1, <3>2, <3>3, <3>4
  <2>3. a + (z * b) \in Int /\ a - (w * b) \in Int /\ (w + c) * b \in Int
    OBVIOUS
  <2> QED
    BY <2>2, <2>3, ModSame
<1> QED
  BY <1>2, <1>3, <1>4, <1>5, <1>10, <1>11, Zenon
-----------------------------------------------------------------------------
(* What the buffer holds in each loop.                                     *)
(* While bits are reversed, the pairs of the indices below a are exchanged. *)
Exchanged(buf, x, R, n, a) ==
  \A m \in 0 .. n - 1 : buf[m] = x[IF m < a \/ R[m] < a THEN R[m] ELSE m]

(* In the stage that joins blocks of s into blocks of 2 * s, element q of  *)
(* the two blocks at b, before and after they are joined.                  *)
Before(buf, x, R, s, c, b, q) ==
  /\ buf[2 * (s * b) + q] = Block(x, s, 2 * c, R[2 * (s * b)], q)
  /\ buf[(2 * (s * b) + q) + s] = Block(x, s, 2 * c, R[2 * (s * b) + s], q)
After(buf, x, R, s, c, b, q) ==
  /\ buf[2 * (s * b) + q] = Block(x, 2 * s, c, R[2 * (s * b)], q)
  /\ buf[(2 * (s * b) + q) + s] = Block(x, 2 * s, c, R[2 * (s * b)], q + s)
Stage(buf, x, R, s, c, d, e) ==
  \A b \in 0 .. c - 1 : \A q \in 0 .. s - 1 :
    IF q < d \/ (q = d /\ b < e) THEN After(buf, x, R, s, c, b, q)
    ELSE Before(buf, x, R, s, c, b, q)

(* While the halves, of h elements, are exchanged, the first a are.        *)
Swapped(buf, x, h, a) ==
  \A m \in 0 .. h - 1 :
    /\ buf[m] = Block(x, 2 * h, 1, 0, IF m < a THEN m + h ELSE m)
    /\ buf[m + h] = Block(x, 2 * h, 1, 0, IF m < a THEN m ELSE m + h)

LEMMA ExchangedInit ==
  ASSUME NEW n \in PowersOfTwo, NEW R, IsReversal(R, n), NEW x
  PROVE  Exchanged(x, x, R, n, 1)
<1> SUFFICES ASSUME NEW m \in 0 .. n - 1 PROVE x[m] = x[IF m < 1 \/ R[m] < 1 THEN R[m] ELSE m]
  BY DEF Exchanged
<1>1. R[m] \in 0 .. n - 1 /\ R[R[m]] = m
  BY ReversalTwice
<1>2. R[0] = 0
  BY DEF IsReversal
<1> QED
  BY <1>1, <1>2

Exchanges(new, buf, R, a) ==
  new = IF a < R[a] THEN [buf EXCEPT ![a] = buf[R[a]], ![R[a]] = buf[a]] ELSE buf

LEMMA ExchangedNext ==
  ASSUME NEW n \in PowersOfTwo, NEW R, IsReversal(R, n), NEW x, NEW S,
         NEW buf \in [0 .. n - 1 -> S], NEW new, NEW a \in 0 .. n - 1,
         Exchanged(buf, x, R, n, a), Exchanges(new, buf, R, a)
  PROVE  new \in [0 .. n - 1 -> S] /\ Exchanged(new, x, R, n, a + 1)
<1> USE DEF Exchanges
<1>1. PICK r \in 0 .. n - 1 : r = R[a] /\ R[r] = a
  BY ReversalTwice
<1>2. n \in Nat
  BY DEF PowersOfTwo, Positive
<1>3. new \in [0 .. n - 1 -> S]
  <2>1. [buf EXCEPT ![a] = buf[r], ![r] = buf[a]] \in [0 .. n - 1 -> S]
    OBVIOUS
  <2> QED
    BY <1>1, <2>1
<1>4. ASSUME NEW m \in 0 .. n - 1
      PROVE  new[m] = x[IF m < a + 1 \/ R[m] < a + 1 THEN R[m] ELSE m]
  <2>1. PICK p \in 0 .. n - 1 : p = R[m] /\ R[p] = m
    BY ReversalTwice
  <2>2. buf[m] = x[IF m < a \/ p < a THEN p ELSE m]
    BY <2>1 DEF Exchanged
  <2>3. buf[a] = x[IF r < a THEN r ELSE a]
    BY <1>1, <1>2 DEF Exchanged
  <2>4. buf[r] = x[IF r < a THEN a ELSE r]
    <3>1. buf[r] = x[IF r < a \/ R[r] < a THEN R[r] ELSE r]
      BY DEF Exchanged
    <3> QED
      BY <1>1, <1>2, <3>1
  <2>5. new[m] = IF a < r /\ m = a THEN buf[r] ELSE IF a < r /\ m = r THEN buf[a] ELSE buf[m]
    BY <1>1, <1>2
  <2>6. CASE m = a
    <3>1. p = r
      BY <1>1, <2>1, <2>6
    <3>2. new[m] = x[r]
      BY <1>2, <2>3, <2>4, <2>5, <2>6
    <3> QED
      BY <1>2, <2>1, <2>6, <3>1, <3>2
  <2>7. CASE m # a /\ m = r
    <3>1. p = a
      BY <1>1, <2>1, <2>7
    <3>2. new[m] = x[a]
      BY <1>2, <2>3, <2>4, <2>5, <2>7
    <3> QED
      BY <1>2, <2>1, <2>7, <3>1, <3>2
  <2>8. CASE m # a /\ m # r
    <3>1. p # a
      BY <1>1, <2>1, <2>8
    <3>2. new[m] = buf[m]
      BY <2>5, <2>8
    <3>3. (m < a + 1 <=> m < a) /\ (p < a + 1 <=> p < a)
      BY <1>2, <2>8, <3>1
    <3> QED
      BY <2>1, <2>2, <3>2, <3>3
  <2> QED
    BY <2>6, <2>7, <2>8
<1> QED
  BY <1>3, <1>4 DEF Exchanged

(* All pairs but the last are exchanged, so all are.                       *)
LEMMA ReversedStage ==
  ASSUME NEW L, NEW x, Within(L, x), NEW R, IsReversal(R, L), NEW c \in Positive, L = 2 * c,
         NEW buf, Exchanged(buf, x, R, L, L - 1)
  PROVE  Stage(buf, x, R, 1, c, 0, 0)
<1>1. L \in PowersOfTwo /\ L \in Positive /\ c \in Nat /\ L \in Nat
  BY LengthPower DEF Within, PowersOfTwo, Positive
<1>2. ASSUME NEW m \in 0 .. L - 1 PROVE buf[m] = Block(x, 1, 2 * c, R[m], 0)
  <2>1. PICK p \in 0 .. L - 1 : p = R[m] /\ R[p] = m
    BY <1>1, ReversalTwice
  <2>2. buf[m] = x[IF m < L - 1 \/ p < L - 1 THEN p ELSE m]
    BY <2>1 DEF Exchanged
  <2>3. buf[m] = x[p]
    <3>1. CASE m < L - 1 \/ p < L - 1
      BY <2>2, <3>1
    <3>2. CASE ~(m < L - 1 \/ p < L - 1)
      <4>1. m = p
        BY <1>1, <3>2
      <4> QED
        BY <2>2, <3>2, <4>1
    <3> QED
      BY <3>1, <3>2
  <2>4. Block(x, 1, L, p, 0) = x[p]
    BY BlockOfOne
  <2> QED
    BY <2>1, <2>3, <2>4
<1> SUFFICES ASSUME NEW b \in 0 .. c - 1, NEW q \in 0 .. 1 - 1 PROVE Before(buf, x, R, 1, c, b, q)
  BY DEF Stage
<1>3. q = 0 /\ 1 * b = b /\ 2 * b \in 0 .. L - 1 /\ 2 * b + 1 \in 0 .. L - 1 /\ 2 * b + 0 = 2 * b
  BY <1>1
<1>4. buf[2 * b] = Block(x, 1, 2 * c, R[2 * b], 0) /\ buf[2 * b + 1] = Block(x, 1, 2 * c, R[2 * b + 1], 0)
  BY <1>2, <1>3
<1> QED
  BY <1>3, <1>4 DEF Before

(* Elements of different blocks, or different elements, are apart.         *)
LEMMA Apart ==
  ASSUME NEW s \in Positive, NEW b \in Nat, NEW e \in Nat, NEW q \in 0 .. s - 1, NEW d \in 0 .. s - 1,
         ~(b = e /\ q = d)
  PROVE  /\ 2 * (s * b) + q # 2 * (s * e) + d
         /\ 2 * (s * b) + q # (2 * (s * e) + d) + s
         /\ (2 * (s * b) + q) + s # 2 * (s * e) + d
         /\ (2 * (s * b) + q) + s # (2 * (s * e) + d) + s
<1>1. s \in Nat
  BY DEF Positive
<1>2. PICK x \in Nat, y \in Nat : x = s * b /\ y = s * e
  BY <1>1
<1>3. CASE b < e
  <2>1. x + s <= y
    <3>1. b \in 0 .. e - 1
      BY <1>3
    <3> QED
      BY <1>1, <1>2, <3>1, Row
  <2> QED
    BY <1>1, <1>2, <2>1
<1>4. CASE e < b
  <2>1. y + s <= x
    <3>1. e \in 0 .. b - 1
      BY <1>4
    <3> QED
      BY <1>1, <1>2, <3>1, Row
  <2> QED
    BY <1>1, <1>2, <2>1
<1>5. CASE b = e
  BY <1>1, <1>2, <1>5
<1> QED
  BY <1>3, <1>4, <1>5

LEMMA Place ==
  ASSUME NEW s \in Positive, NEW c \in Positive, NEW b \in 0 .. c - 1, NEW q \in 0 .. s - 1
  PROVE  /\ s * b \in Nat
         /\ 2 * (s * b) + q \in 0 .. 2 * (s * c) - 1
         /\ (2 * (s * b) + q) + s \in 0 .. 2 * (s * c) - 1
<1>1. s \in Nat /\ c \in Nat
  BY DEF Positive
<1>2. s * b \in Nat /\ s * b + s <= s * c
  BY <1>1, Row
<1>3. PICK x \in Nat, y \in Nat : x = s * b /\ y = s * c
  BY <1>1, <1>2
<1> QED
  BY <1>1, <1>2, <1>3

(* A butterfly joins an element of two blocks.                             *)
JoinsAt(new, buf, s, b, d, p, r, w) ==
  /\ p = 2 * (s * b) + d /\ r = p + s
  /\ w = Power(Root(2 * s), d)
  /\ new = [buf EXCEPT ![p] = (buf[p] + (w * buf[r])) % Modulus, ![r] = (buf[p] - (w * buf[r])) % Modulus]

LEMMA Joined ==
  ASSUME NEW L, NEW x, Within(L, x), NEW R, IsReversal(R, L),
         NEW s \in Positive, NEW c \in Positive, L = 2 * (s * c),
         NEW buf \in [0 .. L - 1 -> Residues], NEW new, NEW b \in 0 .. c - 1, NEW d \in 0 .. s - 1,
         NEW p \in 0 .. L - 1, NEW r \in 0 .. L - 1, NEW w \in Int,
         JoinsAt(new, buf, s, b, d, p, r, w),
         Before(buf, x, R, s, c, b, d)
  PROVE  new \in [0 .. L - 1 -> Residues] /\ After(new, x, R, s, c, b, d)
<1> USE DEF JoinsAt
<1>1. p # r /\ p \in Int /\ r \in Int
  BY DEF Positive
<1>2. PICK y \in Int, z \in Int : y = buf[p] /\ z = buf[r]
  BY DEF Residues
<1>3. (y + (w * z)) % Modulus \in Residues /\ (y - (w * z)) % Modulus \in Residues
  <2>1. y + (w * z) \in Int /\ y - (w * z) \in Int
    OBVIOUS
  <2> QED
    BY <2>1, ModType
<1>4. new[p] = (y + (w * z)) % Modulus /\ new[r] = (y - (w * z)) % Modulus
      /\ new \in [0 .. L - 1 -> Residues]
  BY <1>1, <1>2, <1>3
<1>5. PICK o \in 0 .. c - 1 : o = R[2 * (s * b)] /\ R[2 * (s * b) + s] = o + c
  <2>1. HighBits(R, s, c)
    BY DEF IsReversal
  <2>2. R[2 * (s * b)] < c /\ R[2 * (s * b) + s] = R[2 * (s * b)] + c
    BY <2>1 DEF HighBits
  <2>3. R[2 * (s * b)] \in 0 .. L - 1
    <3>1. s * b \in Nat /\ 2 * (s * b) + 0 \in 0 .. 2 * (s * c) - 1
      <4>1. 0 \in 0 .. s - 1
        BY DEF Positive
      <4> QED
        BY <4>1, Place
    <3>2. 2 * (s * b) \in 0 .. L - 1
      BY <3>1
    <3> QED
      BY <3>2 DEF IsReversal
  <2>4. R[2 * (s * b)] \in 0 .. c - 1
    BY <2>2, <2>3 DEF Positive
  <2> QED
    BY <2>2, <2>4
<1>6. y = Block(x, s, 2 * c, o, d) /\ z = Block(x, s, 2 * c, o + c, d)
  BY <1>2, <1>5 DEF Before
<1>7. Block(x, 2 * s, c, o, d) = (y + (w * z)) % Modulus
  <2>1. d \in Nat
    OBVIOUS
  <2>2. Block(x, 2 * s, c, o, d)
          = (Block(x, s, 2 * c, o, d) + (Power(Root(2 * s), d) * Block(x, s, 2 * c, o + c, d))) % Modulus
    BY <2>1, BlockMerge
  <2> QED
    BY <1>6, <2>2, Zenon
<1>8. Block(x, 2 * s, c, o, d + s) = (y - (w * z)) % Modulus
  <2>1. d \in Nat
    OBVIOUS
  <2>2. Block(x, 2 * s, c, o, d + s)
          = (Block(x, s, 2 * c, o, d) - (Power(Root(2 * s), d) * Block(x, s, 2 * c, o + c, d))) % Modulus
    BY <2>1, BlockHigh
  <2> QED
    BY <1>6, <2>2, Zenon
<1>9. /\ new[2 * (s * b) + d] = Block(x, 2 * s, c, R[2 * (s * b)], d)
      /\ new[(2 * (s * b) + d) + s] = Block(x, 2 * s, c, R[2 * (s * b)], d + s)
  BY <1>4, <1>5, <1>7, <1>8, Zenon
<1> QED
  BY <1>4, <1>9 DEF After

LEMMA StageNext ==
  ASSUME NEW L, NEW x, Within(L, x), NEW R, IsReversal(R, L),
         NEW s \in Positive, NEW c \in Positive, L = 2 * (s * c),
         NEW buf \in [0 .. L - 1 -> Residues], NEW new, NEW e \in 0 .. c - 1, NEW d \in 0 .. s - 1,
         NEW p \in 0 .. L - 1, NEW r \in 0 .. L - 1, NEW w \in Int,
         JoinsAt(new, buf, s, e, d, p, r, w),
         Stage(buf, x, R, s, c, d, e)
  PROVE  new \in [0 .. L - 1 -> Residues] /\ Stage(new, x, R, s, c, d, e + 1)
<1>1. Before(buf, x, R, s, c, e, d)
  BY DEF Stage
<1>2. new \in [0 .. L - 1 -> Residues] /\ After(new, x, R, s, c, e, d)
  BY <1>1, Joined
<1> SUFFICES ASSUME NEW b \in 0 .. c - 1, NEW q \in 0 .. s - 1
             PROVE  IF q < d \/ (q = d /\ b < e + 1) THEN After(new, x, R, s, c, b, q)
                    ELSE Before(new, x, R, s, c, b, q)
  BY <1>2 DEF Stage
<1>3. CASE b = e /\ q = d
  BY <1>2, <1>3
<1>4. CASE ~(b = e /\ q = d)
  <2>1. PICK f \in 0 .. L - 1, g \in 0 .. L - 1 : f = 2 * (s * b) + q /\ g = (2 * (s * b) + q) + s
    BY Place
  <2>2. f # p /\ f # r /\ g # p /\ g # r
    <3>1. b \in Nat /\ e \in Nat
      OBVIOUS
    <3>2. /\ 2 * (s * b) + q # 2 * (s * e) + d
          /\ 2 * (s * b) + q # (2 * (s * e) + d) + s
          /\ (2 * (s * b) + q) + s # 2 * (s * e) + d
          /\ (2 * (s * b) + q) + s # (2 * (s * e) + d) + s
      BY <1>4, <3>1, Apart
    <3>3. p = 2 * (s * e) + d /\ r = (2 * (s * e) + d) + s
      BY DEF JoinsAt
    <3> QED
      BY <2>1, <3>2, <3>3, Zenon
  <2>3. new[f] = buf[f] /\ new[g] = buf[g]
    BY <2>2 DEF JoinsAt
  <2>4. (q < d \/ (q = d /\ b < e + 1)) <=> (q < d \/ (q = d /\ b < e))
    BY <1>4
  <2>5. IF q < d \/ (q = d /\ b < e) THEN After(buf, x, R, s, c, b, q) ELSE Before(buf, x, R, s, c, b, q)
    BY DEF Stage
  <2>6. /\ After(buf, x, R, s, c, b, q) => After(new, x, R, s, c, b, q)
        /\ Before(buf, x, R, s, c, b, q) => Before(new, x, R, s, c, b, q)
    BY <2>1, <2>3, Zenon DEF After, Before
  <2> QED
    BY <2>4, <2>5, <2>6, Zenon
<1> QED
  BY <1>3, <1>4

LEMMA StageTwiddle ==
  ASSUME NEW s \in Positive, NEW c \in Positive, NEW buf, NEW x, NEW R, NEW d \in Nat,
         Stage(buf, x, R, s, c, d, c)
  PROVE  Stage(buf, x, R, s, c, d + 1, 0)
<1> SUFFICES ASSUME NEW b \in 0 .. c - 1, NEW q \in 0 .. s - 1
             PROVE  IF q < d + 1 \/ (q = d + 1 /\ b < 0) THEN After(buf, x, R, s, c, b, q)
                    ELSE Before(buf, x, R, s, c, b, q)
  BY DEF Stage
<1>1. (q < d + 1 \/ (q = d + 1 /\ b < 0)) <=> (q < d \/ (q = d /\ b < c))
  BY DEF Positive
<1> QED
  BY <1>1, Zenon DEF Stage

(* After the last twiddle factor every element is joined.                  *)
LEMMA StageEnd ==
  ASSUME NEW s \in Positive, NEW c \in Positive, NEW buf, NEW x, NEW R,
         Stage(buf, x, R, s, c, s - 1, c), NEW b \in 0 .. c - 1, NEW q \in 0 .. s - 1
  PROVE  After(buf, x, R, s, c, b, q)
<1>1. q < s - 1 \/ (q = s - 1 /\ b < c)
  BY DEF Positive
<1> QED
  BY <1>1, Zenon DEF Stage

LEMMA NextStageBegins ==
  ASSUME NEW s \in Positive, NEW c \in Positive, NEW buf, NEW x, NEW R,
         Stage(buf, x, R, s, 2 * c, s - 1, 2 * c)
  PROVE  Stage(buf, x, R, 2 * s, c, 0, 0)
<1>1. s \in Nat /\ c \in Nat /\ 2 * c \in Positive
  BY DEF Positive
<1>2. ASSUME NEW a \in 0 .. (2 * c) - 1, NEW q \in 0 .. (2 * s) - 1
      PROVE  buf[2 * (s * a) + q] = Block(x, 2 * s, 2 * c, R[2 * (s * a)], q)
  <2>1. CASE q < s
    <3>1. q \in 0 .. s - 1
      BY <1>1, <2>1
    <3> QED
      BY <1>1, <3>1, StageEnd DEF After
  <2>2. CASE ~(q < s)
    <3>1. PICK r \in 0 .. s - 1 : q = r + s
      <4>1. q - s \in 0 .. s - 1 /\ q = (q - s) + s
        BY <1>1, <2>2
      <4> QED
        BY <4>1
    <3>2. After(buf, x, R, s, 2 * c, a, r)
      BY <1>1, StageEnd
    <3>3. 2 * (s * a) + q = (2 * (s * a) + r) + s
      <4>1. PICK y \in Int : y = s * a
        BY <1>1
      <4> QED
        BY <1>1, <3>1, <4>1
    <3> QED
      BY <3>1, <3>2, <3>3 DEF After
  <2> QED
    BY <2>1, <2>2
<1> SUFFICES ASSUME NEW b \in 0 .. c - 1, NEW q \in 0 .. (2 * s) - 1
             PROVE  Before(buf, x, R, 2 * s, c, b, q)
  BY <1>1 DEF Stage
<1>3. 2 * b \in 0 .. (2 * c) - 1 /\ (2 * b) + 1 \in 0 .. (2 * c) - 1
  BY <1>1
<1>4. s * (2 * b) = (2 * s) * b /\ 2 * (s * ((2 * b) + 1)) = 2 * ((2 * s) * b) + (2 * s)
  BY <1>1
<1>5. buf[2 * ((2 * s) * b) + q] = Block(x, 2 * s, 2 * c, R[2 * ((2 * s) * b)], q)
  BY <1>2, <1>3, <1>4
<1>6. buf[(2 * ((2 * s) * b) + (2 * s)) + q] = Block(x, 2 * s, 2 * c, R[2 * ((2 * s) * b) + (2 * s)], q)
  BY <1>2, <1>3, <1>4
<1>7. (2 * ((2 * s) * b) + (2 * s)) + q = (2 * ((2 * s) * b) + q) + (2 * s)
  <2>1. PICK y \in Int : y = (2 * s) * b
    BY <1>1
  <2> QED
    BY <1>1, <2>1
<1> QED
  BY <1>5, <1>6, <1>7, Zenon DEF Before

LEMMA LastStageEnds ==
  ASSUME NEW s \in Positive, NEW buf, NEW x, NEW R, R[0] = 0, Stage(buf, x, R, s, 1, s - 1, 1)
  PROVE  Swapped(buf, x, s, 0)
<1> SUFFICES ASSUME NEW m \in 0 .. s - 1
             PROVE  /\ buf[m] = Block(x, 2 * s, 1, 0, m)
                    /\ buf[m + s] = Block(x, 2 * s, 1, 0, m + s)
  BY DEF Swapped
<1>1. 0 \in 0 .. 1 - 1 /\ 1 \in Positive
  BY DEF Positive
<1>2. After(buf, x, R, s, 1, 0, m)
  BY <1>1, StageEnd
<1>3. 2 * (s * 0) = 0 /\ 0 + m = m
  BY DEF Positive
<1> QED
  BY <1>2, <1>3 DEF After

SwapsAt(new, buf, h, a) == new = [buf EXCEPT ![a] = buf[h + a], ![h + a] = buf[a]]

LEMMA SwappedNext ==
  ASSUME NEW h \in Positive, NEW S, NEW buf \in [0 .. (2 * h) - 1 -> S], NEW x, NEW a \in 0 .. h - 1,
         NEW new, SwapsAt(new, buf, h, a), Swapped(buf, x, h, a)
  PROVE  new \in [0 .. (2 * h) - 1 -> S] /\ Swapped(new, x, h, a + 1)
<1> USE DEF SwapsAt
<1>1. h \in Nat /\ a \in 0 .. (2 * h) - 1 /\ h + a \in 0 .. (2 * h) - 1 /\ a + h = h + a /\ h > 0
  BY DEF Positive
<1>2. new \in [0 .. (2 * h) - 1 -> S]
  BY <1>1
<1>3. ASSUME NEW m \in 0 .. h - 1
      PROVE  /\ new[m] = Block(x, 2 * h, 1, 0, IF m < a + 1 THEN m + h ELSE m)
             /\ new[m + h] = Block(x, 2 * h, 1, 0, IF m < a + 1 THEN m ELSE m + h)
  <2>1. /\ buf[m] = Block(x, 2 * h, 1, 0, IF m < a THEN m + h ELSE m)
        /\ buf[m + h] = Block(x, 2 * h, 1, 0, IF m < a THEN m ELSE m + h)
    BY DEF Swapped
  <2>2. m \in 0 .. (2 * h) - 1 /\ m + h \in 0 .. (2 * h) - 1 /\ m # h + a /\ m + h # a
    BY <1>1
  <2>3. CASE m = a
    <3>1. new[m] = buf[m + h] /\ new[m + h] = buf[m]
      BY <1>1, <2>2, <2>3
    <3>2. ~(m < a) /\ m < a + 1
      BY <2>3
    <3> QED
      BY <2>1, <3>1, <3>2
  <2>4. CASE m # a
    <3>1. new[m] = buf[m] /\ new[m + h] = buf[m + h]
      <4>1. m + h # h + a
        BY <1>1, <2>4
      <4> QED
        BY <2>2, <2>4, <4>1
    <3>2. m < a <=> m < a + 1
      BY <2>4
    <3> QED
      BY <2>1, <3>1, <3>2
  <2> QED
    BY <2>3, <2>4
<1> QED
  BY <1>2, <1>3 DEF Swapped
-----------------------------------------------------------------------------
(* The inductive invariant: what each loop has done, by the indices it has *)
(* reached.  Reversal is the permutation of the whole buffer.              *)
Reversal(n) == CHOOSE R : IsReversal(R, n)

FftTypes ==
  /\ Within(length, input)
  /\ buffer \in [0 .. length - 1 -> Residues]
  /\ loop \in {"reverse", "carry", "butterfly", "swap", "done"}

(* j is the reversal of i. *)
ReverseInv ==
  /\ le = 2 /\ u = 1
  /\ i \in 1 .. length - 1 /\ j = Reversal(length)[i]
  /\ Exchanged(buffer, input, Reversal(length), length, i)

(* Of i + 1 = t * c the bits below t are 0.  j is the reversal of          *)
(* i + 1 - t, and k is the bit of t reversed.                              *)
CarryInv ==
  /\ le = 2 /\ u = 1
  /\ i \in 0 .. length - 2
  /\ Exchanged(buffer, input, Reversal(length), length, i + 1)
  /\ \E t, c \in Positive :
       /\ i + 1 = t * c
       /\ k \in Positive /\ length = 2 * (t * k)
       /\ j = Reversal(length)[(i + 1) - t]

(* Blocks of s are joined: elements below j - 1 in all blocks, element     *)
(* j - 1 in the blocks below b.                                            *)
ButterflyInv ==
  \E s, c \in Positive :
    /\ le = 2 * s /\ length = 2 * (s * c)
    /\ j \in 1 .. s
    /\ u = Power(Root(le), j - 1)
    /\ \E b \in 0 .. c :
         /\ i = 2 * (s * b) + (j - 1)
         /\ Stage(buffer, input, Reversal(length), s, c, j - 1, b)

SwapInv ==
  \E h \in Positive :
    /\ length = 2 * h
    /\ i \in 0 .. h
    /\ loop = "done" => i = h
    /\ Swapped(buffer, input, h, i)

FftInv ==
  /\ FftTypes
  /\ loop = "reverse" => ReverseInv
  /\ loop = "carry" => CarryInv
  /\ loop = "butterfly" => ButterflyInv
  /\ loop \in {"swap", "done"} => SwapInv

LEMMA ReversalOf == \A n \in Lengths : IsReversal(Reversal(n), n)
<1> SUFFICES ASSUME NEW n \in Lengths PROVE IsReversal(Reversal(n), n)
  OBVIOUS
<1>1. \E R : IsReversal(R, n)
  BY LengthPower, ReversalExists
<1> QED
  BY <1>1, Zenon DEF Reversal

(* The length is twice a positive number. *)
LEMMA Halves ==
  ASSUME NEW n \in Lengths
  PROVE  n \div 2 \in Positive /\ n = 2 * (n \div 2) /\ n \in PowersOfTwo /\ n \in Nat
<1>1. n \in PowersOfTwo /\ n # 1
  BY LengthPower
<1>2. PICK m \in PowersOfTwo : n = 2 * m
  BY <1>1, HalfPower
<1> QED
  BY <1>1, <1>2 DEF PowersOfTwo, Positive

LEMMA InitInv == Init => FftInv
<1> SUFFICES ASSUME Init PROVE FftInv
  OBVIOUS
<1>1. Within(length, input)
  BY InputsAssumption DEF Init, Within, Residues
<1>2. PICK R : R = Reversal(length) /\ IsReversal(R, length)
  BY ReversalOf DEF Init
<1>3. nd2 \in Positive /\ length = 2 * nd2 /\ length \in PowersOfTwo
  BY Halves DEF Init, nd2
<1>4. R[1] = nd2
  <2>1. HighBits(R, 1, nd2)
    <3>1. length = 2 * (1 * nd2) /\ 1 \in Positive
      BY <1>3 DEF Positive
    <3> QED
      BY <1>2, <1>3, <3>1 DEF IsReversal
  <2>2. 0 \in 0 .. nd2 - 1
    BY <1>3 DEF Positive
  <2>3. R[2 * (1 * 0) + 1] = R[2 * (1 * 0)] + nd2
    BY <2>1, <2>2 DEF HighBits
  <2> QED
    BY <1>2, <1>3, <2>3 DEF IsReversal, Positive
<1>5. Exchanged(buffer, input, R, length, 1)
  BY <1>2, <1>3, ExchangedInit DEF Init
<1>6. 1 \in 1 .. length - 1
  BY <1>3 DEF Positive
<1>7. ReverseInv
  BY <1>2, <1>4, <1>5, <1>6 DEF ReverseInv, Init
<1>8. FftTypes
  BY <1>1 DEF FftTypes, Within, Init
<1> QED
  BY <1>7, <1>8 DEF FftInv, Init

LEMMA ReverseStep == FftInv /\ Reverse => FftInv'
<1> SUFFICES ASSUME FftInv, Reverse PROVE FftInv'
  OBVIOUS
<1>1. /\ loop = "reverse" /\ i < nm1 /\ loop' = "carry" /\ k' = nd2
      /\ buffer' = IF i < j THEN [buffer EXCEPT ![i] = buffer[j], ![j] = buffer[i]] ELSE buffer
      /\ length' = length /\ input' = input /\ i' = i /\ j' = j /\ le' = le /\ u' = u
  BY DEF Reverse, ReverseWhere, Exchange
<1>2. FftTypes /\ ReverseInv
  BY <1>1 DEF FftInv
<1>3. Within(length, input) /\ length \in Lengths /\ buffer \in [0 .. length - 1 -> Residues]
  BY <1>2 DEF FftTypes, Within
<1>4. PICK R : R = Reversal(length) /\ IsReversal(R, length)
  BY <1>3, ReversalOf
<1>5. nd2 \in Positive /\ length = 2 * nd2 /\ length \in PowersOfTwo /\ length \in Nat
  BY <1>3, Halves DEF nd2
<1>6. i \in 0 .. length - 2 /\ i \in 0 .. length - 1 /\ j = R[i]
  BY <1>1, <1>2, <1>4, <1>5 DEF ReverseInv, nm1
<1>7. buffer' \in [0 .. length - 1 -> Residues] /\ Exchanged(buffer', input, R, length, i + 1)
  <2>1. Exchanged(buffer, input, R, length, i)
    BY <1>2, <1>4 DEF ReverseInv
  <2>2. PICK new : new = buffer'
    OBVIOUS
  <2>3. Exchanges(new, buffer, R, i)
    BY <1>1, <1>6, <2>2 DEF Exchanges
  <2>4. new \in [0 .. length - 1 -> Residues] /\ Exchanged(new, input, R, length, i + 1)
    BY <1>3, <1>4, <1>5, <1>6, <2>1, <2>3, ExchangedNext
  <2> QED
    BY <2>2, <2>4
<1>8. CarryInv'
  <2>1. \E t, c \in Positive : /\ i' + 1 = t * c
                               /\ k' \in Positive /\ length' = 2 * (t * k')
                               /\ j' = Reversal(length')[(i' + 1) - t]
    <3>1. 1 \in Positive /\ i + 1 \in Positive /\ i + 1 = 1 * (i + 1) /\ length = 2 * (1 * nd2)
          /\ (i + 1) - 1 = i
      BY <1>5, <1>6 DEF Positive
    <3> QED
      BY <1>1, <1>4, <1>5, <1>6, <3>1, Zenon
  <2> QED
    BY <1>1, <1>2, <1>4, <1>6, <1>7, <2>1 DEF CarryInv, ReverseInv
<1>9. FftTypes'
  BY <1>1, <1>3, <1>7 DEF FftTypes
<1> QED
  BY <1>1, <1>8, <1>9 DEF FftInv

(* Adding one to a reversed number.  m = t * c, and k is the bit of t      *)
(* reversed: if c is odd, the bit is clear at m - t and set at m, and if c *)
(* is even, it is set at m - t and clear at m - 2 * t.                     *)
LEMMA CarryBits ==
  ASSUME NEW L \in PowersOfTwo, NEW R, IsReversal(R, L),
         NEW t \in Positive, NEW c \in Positive, NEW h \in Positive, L = 2 * (t * h),
         NEW m \in 1 .. L - 1, m = t * c
  PROVE  \/ R[m - t] \in 0 .. h - 1 /\ R[m] = R[m - t] + h
         \/ /\ \E d \in Positive : m = (2 * t) * d
            /\ h # 1 /\ R[m - (2 * t)] \in Nat /\ R[m - t] = R[m - (2 * t)] + h
<1>1. t \in Nat /\ h \in Nat /\ c \in Nat /\ L \in Nat /\ t > 0 /\ h > 0 /\ c > 0
  BY DEF Positive, PowersOfTwo
<1>2. HighBits(R, t, h)
  BY DEF IsReversal
<1>3. ASSUME NEW q \in Nat, 2 * (t * q) < L PROVE q \in 0 .. h - 1
  <2>1. CASE h <= q
    <3>1. PICK e \in Nat : q = h + e
      <4>1. q - h \in Nat /\ q = h + (q - h)
        BY <1>1, <2>1
      <4> QED
        BY <4>1
    <3>2. t * q = t * h + t * e /\ t * e \in Nat /\ t * h \in Nat
      BY <1>1, <3>1
    <3> QED
      BY <1>3, <3>2
  <2> QED
    BY <1>1, <2>1
<1>4. CASE c % 2 # 0
  <2>1. PICK q \in Nat : c = (2 * q) + 1
    <3>1. c \div 2 \in Nat /\ c = (2 * (c \div 2)) + 1
      BY <1>1, <1>4
    <3> QED
      BY <3>1
  <2>2. PICK y \in Nat : y = t * q /\ m = 2 * y + t
    <3>1. t * ((2 * q) + 1) = 2 * (t * q) + t /\ t * q \in Nat
      BY <1>1
    <3> QED
      BY <2>1, <3>1
  <2>3. q \in 0 .. h - 1
    BY <1>1, <1>3, <2>2
  <2>4. R[2 * y] < h /\ R[2 * y + t] = R[2 * y] + h
    BY <1>2, <2>2, <2>3 DEF HighBits
  <2>5. m - t = 2 * y /\ 2 * y \in 0 .. L - 1
    BY <1>1, <2>2
  <2>6. R[2 * y] \in Nat
    BY <2>5 DEF IsReversal
  <2>7. R[2 * y] \in 0 .. h - 1
    BY <1>1, <2>4, <2>6
  <2> QED
    BY <2>2, <2>4, <2>5, <2>7
<1>5. CASE c % 2 = 0
  <2>1. PICK d \in Positive : c = 2 * d
    <3>1. c \div 2 \in Positive /\ c = 2 * (c \div 2)
      BY <1>1, <1>5 DEF Positive
    <3> QED
      BY <3>1
  <2>2. PICK q \in Nat : d = q + 1
    <3>1. d - 1 \in Nat /\ d = (d - 1) + 1
      BY DEF Positive
    <3> QED
      BY <3>1
  <2>3. PICK y \in Nat : y = t * q /\ m = (2 * y + t) + t /\ m = (2 * t) * d
    <3>1. t * (2 * (q + 1)) = (2 * (t * q) + t) + t /\ t * (2 * (q + 1)) = (2 * t) * (q + 1)
          /\ t * q \in Nat
      BY <1>1
    <3> QED
      BY <2>1, <2>2, <3>1
  <2>4. q \in 0 .. h - 1
    BY <1>1, <1>3, <2>3
  <2>5. R[2 * y + t] = R[2 * y] + h
    BY <1>2, <2>3, <2>4 DEF HighBits
  <2>6. m - t = 2 * y + t /\ m - (2 * t) = 2 * y /\ 2 * y \in 0 .. L - 1
    BY <1>1, <2>3
  <2>7. R[2 * y] \in Nat
    BY <2>6 DEF IsReversal
(* Were it the last bit, m would be past the end.                          *)
  <2>8. h # 1
    <3> SUFFICES ASSUME h = 1 PROVE FALSE
      OBVIOUS
    <3>1. L = 2 * t
      BY <1>1
    <3> QED
      BY <1>1, <2>3, <3>1
  <2> QED
    BY <2>3, <2>5, <2>6, <2>7, <2>8
<1> QED
  BY <1>4, <1>5

LEMMA CarryStep == FftInv /\ Carry => FftInv'
<1> SUFFICES ASSUME FftInv, Carry PROVE FftInv'
  OBVIOUS
<1>1. /\ loop = "carry" /\ k <= j /\ loop' = "carry" /\ j' = j - k /\ k' = k \div 2
      /\ buffer' = buffer /\ length' = length /\ input' = input /\ i' = i /\ le' = le /\ u' = u
  BY DEF Carry
<1>2. FftTypes /\ CarryInv
  BY <1>1 DEF FftInv
<1>3. Within(length, input) /\ length \in Lengths
  BY <1>2 DEF FftTypes, Within
<1>4. PICK R : R = Reversal(length) /\ IsReversal(R, length)
  BY <1>3, ReversalOf
<1>5. length \in PowersOfTwo /\ length \in Nat
  BY <1>3, Halves
<1>6. PICK t \in Positive, c \in Positive :
        /\ i + 1 = t * c
        /\ k \in Positive /\ length = 2 * (t * k)
        /\ j = R[(i + 1) - t]
  BY <1>2, <1>4 DEF CarryInv
<1>7. i + 1 \in 1 .. length - 1
  BY <1>2, <1>5 DEF CarryInv
<1>8. t \in Nat /\ k \in Nat /\ 2 * t \in Positive
  BY <1>6 DEF Positive
<1>9. /\ \E d \in Positive : i + 1 = (2 * t) * d
      /\ k # 1 /\ j - k = R[(i + 1) - (2 * t)]
  <2>1. ~(R[(i + 1) - t] \in 0 .. k - 1)
    BY <1>1, <1>6, <1>8
  <2>2. /\ \E d \in Positive : i + 1 = (2 * t) * d
        /\ k # 1 /\ R[(i + 1) - (2 * t)] \in Nat /\ R[(i + 1) - t] = R[(i + 1) - (2 * t)] + k
    BY <1>4, <1>5, <1>6, <1>7, <2>1, CarryBits
  <2> QED
    BY <1>6, <1>8, <2>2
<1>10. k \div 2 \in Positive /\ k = 2 * (k \div 2)
  <2>1. length = k * (2 * t)
    BY <1>6, <1>8
  <2>2. k % 2 = 0
    BY <1>5, <1>6, <1>8, <1>9, <2>1 DEF PowersOfTwo
  <2> QED
    BY <1>6, <2>2 DEF Positive
<1>11. length = 2 * ((2 * t) * (k \div 2))
  <2>1. PICK h \in Int : h = k \div 2 /\ k = 2 * h
    BY <1>10 DEF Positive
  <2>2. 2 * (t * (2 * h)) = 2 * ((2 * t) * h)
    BY <1>8
  <2> QED
    BY <1>6, <2>1, <2>2
<1>12. CarryInv'
  <2>1. \E r, e \in Positive : /\ i' + 1 = r * e
                               /\ k' \in Positive /\ length' = 2 * (r * k')
                               /\ j' = Reversal(length')[(i' + 1) - r]
    BY <1>1, <1>4, <1>8, <1>9, <1>10, <1>11, Zenon
  <2> QED
    BY <1>1, <1>2, <1>4, <2>1 DEF CarryInv
<1>13. FftTypes'
  BY <1>1, <1>2 DEF FftTypes
<1> QED
  BY <1>1, <1>12, <1>13 DEF FftInv

LEMMA CarriedStep == FftInv /\ Carried => FftInv'
<1> SUFFICES ASSUME FftInv, Carried PROVE FftInv'
  OBVIOUS
<1>1. /\ loop = "carry" /\ k > j /\ loop' = "reverse" /\ j' = j + k /\ i' = i + 1
      /\ buffer' = buffer /\ length' = length /\ input' = input /\ k' = k /\ le' = le /\ u' = u
  BY DEF Carried
<1>2. FftTypes /\ CarryInv
  BY <1>1 DEF FftInv
<1>3. Within(length, input) /\ length \in Lengths
  BY <1>2 DEF FftTypes, Within
<1>4. PICK R : R = Reversal(length) /\ IsReversal(R, length)
  BY <1>3, ReversalOf
<1>5. length \in PowersOfTwo /\ length \in Nat
  BY <1>3, Halves
<1>6. PICK t \in Positive, c \in Positive :
        /\ i + 1 = t * c
        /\ k \in Positive /\ length = 2 * (t * k)
        /\ j = R[(i + 1) - t]
  BY <1>2, <1>4 DEF CarryInv
<1>7. i + 1 \in 1 .. length - 1
  BY <1>2, <1>5 DEF CarryInv
<1>8. t \in Nat /\ k \in Nat
  BY <1>6 DEF Positive
<1>9. R[i + 1] = j + k
  <2>1. ASSUME R[(i + 1) - (2 * t)] \in Nat, R[(i + 1) - t] = R[(i + 1) - (2 * t)] + k PROVE FALSE
    BY <1>1, <1>6, <1>8, <2>1
  <2>2. R[(i + 1) - t] \in 0 .. k - 1 /\ R[i + 1] = R[(i + 1) - t] + k
    BY <1>4, <1>5, <1>6, <1>7, <2>1, CarryBits
  <2> QED
    BY <1>6, <2>2
<1>10. ReverseInv'
  BY <1>1, <1>2, <1>4, <1>7, <1>9 DEF ReverseInv, CarryInv
<1>11. FftTypes'
  BY <1>1, <1>2 DEF FftTypes
<1> QED
  BY <1>1, <1>10, <1>11 DEF FftInv

LEMMA ReversedStep == FftInv /\ Reversed => FftInv'
<1> SUFFICES ASSUME FftInv, Reversed PROVE FftInv'
  OBVIOUS
<1>1. /\ loop = "reverse" /\ i >= nm1 /\ loop' = "butterfly" /\ i' = 0 /\ j' = 1
      /\ buffer' = buffer /\ length' = length /\ input' = input /\ k' = k /\ le' = le /\ u' = u
  BY DEF Reversed
<1>2. FftTypes /\ ReverseInv
  BY <1>1 DEF FftInv
<1>3. Within(length, input) /\ length \in Lengths
  BY <1>2 DEF FftTypes, Within
<1>4. PICK R : R = Reversal(length) /\ IsReversal(R, length)
  BY <1>3, ReversalOf
<1>5. PICK c \in Positive : length = 2 * c /\ length \in Nat
  BY <1>3, Halves
<1>6. Exchanged(buffer, input, R, length, length - 1)
  <2>1. i = length - 1
    BY <1>1, <1>2, <1>5 DEF ReverseInv, nm1
  <2> QED
    BY <1>2, <1>4, <2>1 DEF ReverseInv
<1>7. Stage(buffer, input, R, 1, c, 0, 0)
  BY <1>3, <1>4, <1>5, <1>6, ReversedStage
<1>8. u = Power(Root(le), 0) /\ le = 2 * 1
  <2>1. Root(2) \in Int /\ le = 2 /\ u = 1
    BY <1>2, <1>3, RootOfTwo, ModulusAssumption DEF ReverseInv
  <2> QED
    BY <2>1, PowerZero
<1>9. ButterflyInv'
  <2>1. 1 \in Positive /\ length = 2 * (1 * c) /\ 0 \in 0 .. c /\ 0 = 2 * (1 * 0) + 0 /\ 1 - 1 = 0
        /\ 1 \in 1 .. 1
    BY <1>5 DEF Positive
  <2>2. \E b \in 0 .. c : 0 = 2 * (1 * b) + 0 /\ Stage(buffer, input, R, 1, c, 0, b)
    BY <1>7, <2>1
  <2>3. \E s, d \in Positive :
          /\ le' = 2 * s /\ length' = 2 * (s * d) /\ j' \in 1 .. s /\ u' = Power(Root(le'), j' - 1)
          /\ \E b \in 0 .. d : /\ i' = 2 * (s * b) + (j' - 1)
                               /\ Stage(buffer', input', Reversal(length'), s, d, j' - 1, b)
    BY <1>1, <1>4, <1>5, <1>8, <2>1, <2>2, Zenon
  <2> QED
    BY <2>3 DEF ButterflyInv
<1>10. FftTypes'
  BY <1>1, <1>2 DEF FftTypes
<1> QED
  BY <1>1, <1>9, <1>10 DEF FftInv

(* A stage, with the values of its indices named.                          *)
StageAt(s, c, R) ==
  /\ Within(length, input) /\ length \in Lengths /\ length \in PowersOfTwo /\ length \in Nat
  /\ R = Reversal(length) /\ IsReversal(R, length)
  /\ s \in Nat /\ c \in Nat /\ le = 2 * s /\ le2 = s /\ length = 2 * (s * c)
  /\ j \in 1 .. s /\ u = Power(Root(2 * s), j - 1)
  /\ \E b \in 0 .. c : /\ i = 2 * (s * b) + (j - 1)
                       /\ i <= nm1 <=> b < c
                       /\ Stage(buffer, input, R, s, c, j - 1, b)

LEMMA InStage ==
  ASSUME FftInv, loop = "butterfly"
  PROVE  \E s, c \in Positive, R \in {Reversal(length)} : StageAt(s, c, R)
<1> USE DEF StageAt
<1>1. FftTypes /\ ButterflyInv
  BY DEF FftInv
<1>2. Within(length, input) /\ length \in Lengths
  BY <1>1 DEF FftTypes, Within
<1>3. length \in PowersOfTwo /\ length \in Nat
  BY <1>2, Halves
<1>4. PICK R : R = Reversal(length) /\ IsReversal(R, length)
  BY <1>2, ReversalOf
<1>5. PICK s \in Positive, c \in Positive :
        /\ le = 2 * s /\ length = 2 * (s * c) /\ j \in 1 .. s /\ u = Power(Root(le), j - 1)
        /\ \E b \in 0 .. c : /\ i = 2 * (s * b) + (j - 1)
                             /\ Stage(buffer, input, R, s, c, j - 1, b)
  BY <1>1, <1>4 DEF ButterflyInv
<1>6. s \in Nat /\ c \in Nat /\ le2 = s /\ s > 0
  BY <1>5 DEF Positive, le2
<1>7. PICK b \in 0 .. c : i = 2 * (s * b) + (j - 1) /\ Stage(buffer, input, R, s, c, j - 1, b)
  BY <1>5
<1>8. i <= nm1 <=> b < c
  <2>1. CASE b < c
    <3>1. j - 1 \in 0 .. s - 1 /\ b \in 0 .. c - 1
      BY <1>5, <1>6, <2>1
    <3>2. 2 * (s * b) + (j - 1) \in 0 .. 2 * (s * c) - 1
      BY <3>1, Place
    <3> QED
      BY <1>3, <1>5, <1>7, <2>1, <3>2 DEF nm1
  <2>2. CASE ~(b < c)
    <3>1. b = c
      BY <1>6, <2>2
    <3>2. i = length + (j - 1)
      BY <1>5, <1>7, <3>1
    <3> QED
      BY <1>3, <1>5, <2>2, <3>2 DEF nm1
  <2> QED
    BY <2>1, <2>2
<1> QED
  BY <1>2, <1>3, <1>4, <1>5, <1>6, <1>7, <1>8, Zenon

LEMMA ButterflyStep == FftInv /\ Butterfly => FftInv'
<1> SUFFICES ASSUME FftInv, Butterfly PROVE FftInv'
  OBVIOUS
<1>1. /\ loop = "butterfly" /\ i <= nm1 /\ loop' = loop /\ i' = i + le
      /\ buffer' = [buffer EXCEPT ![i] = (buffer[i] + (u * buffer[i + le2])) % Modulus,
                                  ![i + le2] = (buffer[i] - (u * buffer[i + le2])) % Modulus]
      /\ length' = length /\ input' = input /\ j' = j /\ k' = k /\ le' = le /\ u' = u
  BY DEF Butterfly
<1>2. FftTypes
  BY DEF FftInv
<1>3. PICK s \in Positive, c \in Positive, R \in {Reversal(length)} : StageAt(s, c, R)
  BY <1>1, InStage
<1> USE DEF StageAt
<1>4. PICK b \in 0 .. c - 1 : i = 2 * (s * b) + (j - 1) /\ Stage(buffer, input, R, s, c, j - 1, b)
  BY <1>1, <1>3
<1>5. PICK d \in 0 .. s - 1 : d = j - 1
  BY <1>3
<1>6. PICK p \in 0 .. length - 1, r \in 0 .. length - 1 : p = i /\ r = i + s
  <2>1. 2 * (s * b) + d \in 0 .. length - 1 /\ (2 * (s * b) + d) + s \in 0 .. length - 1
    BY <1>3, Place
  <2> QED
    BY <1>4, <1>5, <2>1
<1>7. PICK w \in Int : w = u
  <2>1. 2 * s \in Factors(length)
    <3>1. length = (2 * s) * c /\ 2 * s \in Positive
      BY <1>3 DEF Positive
    <3> QED
      BY <3>1 DEF Factors
  <2>2. PICK v \in Int : v = Root(2 * s)
    BY <1>3, <2>1, RootOfDouble
  <2>3. Power(v, d) \in Int
    <3>1. d \in Nat
      BY <1>3
    <3> QED
      BY <3>1, PowerType DEF Residues
  <2> QED
    BY <1>3, <1>5, <2>2, <2>3
<1>8. PICK buf \in [0 .. length - 1 -> Residues] : buf = buffer
  BY <1>2 DEF FftTypes
<1>9. PICK new : new = buffer'
  OBVIOUS
<1>10. JoinsAt(new, buf, s, b, d, p, r, w)
  BY <1>1, <1>3, <1>4, <1>5, <1>6, <1>7, <1>8, <1>9, Zenon DEF JoinsAt
<1>11. new \in [0 .. length - 1 -> Residues] /\ Stage(new, input, R, s, c, d, b + 1)
  <2>1. Stage(buf, input, R, s, c, d, b)
    BY <1>4, <1>5, <1>8
  <2> QED
    BY <1>3, <1>10, <2>1, StageNext
<1>12. b + 1 \in 0 .. c /\ i + le = 2 * (s * (b + 1)) + (j - 1)
  <2>1. s * (b + 1) = s * b + s
    BY <1>3
  <2>2. PICK y \in Int : y = s * b
    BY <1>3
  <2> QED
    BY <1>3, <1>4, <2>1, <2>2
<1>13. ButterflyInv'
  <2>1. \E a \in 0 .. c : /\ i' = 2 * (s * a) + (j' - 1)
                          /\ Stage(buffer', input', Reversal(length'), s, c, j' - 1, a)
    BY <1>1, <1>3, <1>5, <1>9, <1>11, <1>12, Zenon
  <2>2. le' = 2 * s /\ length' = 2 * (s * c) /\ j' \in 1 .. s /\ u' = Power(Root(le'), j' - 1)
    BY <1>1, <1>3, Zenon
  <2>3. \E q, e \in Positive :
          /\ le' = 2 * q /\ length' = 2 * (q * e) /\ j' \in 1 .. q /\ u' = Power(Root(le'), j' - 1)
          /\ \E a \in 0 .. e : /\ i' = 2 * (q * a) + (j' - 1)
                               /\ Stage(buffer', input', Reversal(length'), q, e, j' - 1, a)
    BY <2>1, <2>2, Zenon
  <2> QED
    BY <2>3 DEF ButterflyInv
<1>14. FftTypes'
  BY <1>1, <1>2, <1>9, <1>11 DEF FftTypes
<1> QED
  BY <1>1, <1>13, <1>14 DEF FftInv

LEMMA NextTwiddleStep == FftInv /\ NextTwiddle => FftInv'
<1> SUFFICES ASSUME FftInv, NextTwiddle PROVE FftInv'
  OBVIOUS
<1>1. /\ loop = "butterfly" /\ i > nm1 /\ j < le2 /\ loop' = loop
      /\ u' = (u * Root(le)) % Modulus /\ j' = j + 1 /\ i' = j
      /\ buffer' = buffer /\ length' = length /\ input' = input /\ k' = k /\ le' = le
  BY DEF NextTwiddle
<1>2. FftTypes
  BY DEF FftInv
<1>3. PICK s \in Positive, c \in Positive, R \in {Reversal(length)} : StageAt(s, c, R)
  BY <1>1, InStage
<1> USE DEF StageAt
<1>4. Stage(buffer, input, R, s, c, j - 1, c)
  <2>1. PICK b \in 0 .. c : /\ i = 2 * (s * b) + (j - 1)
                            /\ i <= nm1 <=> b < c
                            /\ Stage(buffer, input, R, s, c, j - 1, b)
    BY <1>3
  <2>2. i \in Int /\ nm1 \in Int
    <3>1. s * b \in Int
      BY <1>3
    <3> QED
      BY <1>3, <2>1, <3>1 DEF nm1
  <2>3. b = c
    BY <1>1, <1>3, <2>1, <2>2
  <2> QED
    BY <2>1, <2>3
<1>5. PICK d \in Nat : d = j - 1 /\ j = d + 1 /\ j' - 1 = d + 1
  BY <1>1, <1>3
<1>6. Stage(buffer, input, R, s, c, d + 1, 0)
  BY <1>4, <1>5, StageTwiddle
<1>7. u' = Power(Root(2 * s), d + 1)
  <2>1. 2 * s \in Factors(length)
    <3>1. length = (2 * s) * c /\ 2 * s \in Positive
      BY <1>3 DEF Positive
    <3> QED
      BY <3>1 DEF Factors
  <2>2. PICK v \in Int : v = Root(2 * s)
    BY <1>3, <2>1, RootOfDouble
  <2>3. Power(v, d + 1) = (v * Power(v, d)) % Modulus
    BY PowerNext
  <2>4. Power(v, d) * v = v * Power(v, d)
    <3>1. Power(v, d) \in Int
      BY PowerType DEF Residues
    <3> QED
      BY <3>1
  <2> QED
    BY <1>1, <1>3, <1>5, <2>2, <2>3, <2>4, Zenon
<1>8. ButterflyInv'
  <2>1. 0 \in 0 .. c /\ j' \in 1 .. s /\ i' = 2 * (s * 0) + (j' - 1)
    BY <1>1, <1>3
  <2>2. \E a \in 0 .. c : /\ i' = 2 * (s * a) + (j' - 1)
                          /\ Stage(buffer', input', Reversal(length'), s, c, j' - 1, a)
    BY <1>1, <1>3, <1>5, <1>6, <2>1, Zenon
  <2>3. le' = 2 * s /\ length' = 2 * (s * c) /\ u' = Power(Root(le'), j' - 1)
    BY <1>1, <1>3, <1>5, <1>7, Zenon
  <2>4. \E q, e \in Positive :
          /\ le' = 2 * q /\ length' = 2 * (q * e) /\ j' \in 1 .. q /\ u' = Power(Root(le'), j' - 1)
          /\ \E a \in 0 .. e : /\ i' = 2 * (q * a) + (j' - 1)
                               /\ Stage(buffer', input', Reversal(length'), q, e, j' - 1, a)
    BY <2>1, <2>2, <2>3, Zenon
  <2> QED
    BY <2>4 DEF ButterflyInv
<1>9. FftTypes'
  BY <1>1, <1>2 DEF FftTypes
<1> QED
  BY <1>1, <1>8, <1>9 DEF FftInv

LEMMA NextStageStep == FftInv /\ NextStage => FftInv'
<1> SUFFICES ASSUME FftInv, NextStage PROVE FftInv'
  OBVIOUS
<1>1. /\ loop = "butterfly" /\ i > nm1 /\ j = le2 /\ u' = 1 /\ j' = 1 /\ i' = 0
      /\ buffer' = buffer /\ length' = length /\ input' = input /\ k' = k
      /\ \/ le < length /\ le' = 2 * le /\ loop' = loop
         \/ le = length /\ loop' = "swap" /\ le' = le
  BY DEF NextStage
<1>2. FftTypes
  BY DEF FftInv
<1>3. PICK s \in Positive, c \in Positive, R \in {Reversal(length)} : StageAt(s, c, R)
  BY <1>1, InStage
<1> USE DEF StageAt
<1>4. Stage(buffer, input, R, s, c, s - 1, c)
  <2>1. PICK b \in 0 .. c : /\ i = 2 * (s * b) + (j - 1)
                            /\ i <= nm1 <=> b < c
                            /\ Stage(buffer, input, R, s, c, j - 1, b)
    BY <1>3
  <2>2. i \in Int /\ nm1 \in Int
    <3>1. s * b \in Int
      BY <1>3
    <3> QED
      BY <1>3, <2>1, <3>1 DEF nm1
  <2>3. b = c /\ j = s
    BY <1>1, <1>3, <2>1, <2>2
  <2> QED
    BY <2>1, <2>3
<1>5. FftTypes'
  BY <1>1, <1>2 DEF FftTypes
<1>6. CASE le < length /\ le' = 2 * le /\ loop' = loop
  <2>1. PICK d \in Positive : c = 2 * d
    <3>1. c # 1
      BY <1>3, <1>6
    <3>2. c \in PowersOfTwo
      <4>1. length = (2 * s) * c /\ 2 * s \in Positive
        BY <1>3 DEF Positive
      <4> QED
        BY <1>3, <4>1, FactorPower
    <3>3. PICK d \in PowersOfTwo : c = 2 * d
      BY <3>1, <3>2, HalfPower
    <3> QED
      BY <3>3 DEF PowersOfTwo
  <2>2. Stage(buffer, input, R, 2 * s, d, 0, 0)
    <3>1. Stage(buffer, input, R, s, 2 * d, s - 1, 2 * d)
      BY <1>4, <2>1
    <3> QED
      BY <3>1, NextStageBegins
  <2>3. 1 = Power(Root(2 * (2 * s)), 0)
    <3>1. length = (2 * (2 * s)) * d /\ 2 * s \in Positive /\ 2 * (2 * s) \in Positive
      BY <1>3, <2>1 DEF Positive
    <3>2. Root(2 * (2 * s)) \in Int
      BY <1>3, <3>1, RootOfDouble DEF Factors
    <3> QED
      BY <3>2, PowerZero
  <2>4. /\ 2 * s \in Positive /\ le' = 2 * (2 * s) /\ length' = 2 * ((2 * s) * d)
        /\ j' \in 1 .. 2 * s /\ j' - 1 = 0
        /\ 0 \in 0 .. d /\ 0 = 2 * ((2 * s) * 0) + 0
    BY <1>1, <1>3, <1>6, <2>1 DEF Positive
  <2>5. \E b \in 0 .. d : /\ i' = 2 * ((2 * s) * b) + (j' - 1)
                          /\ Stage(buffer', input', Reversal(length'), 2 * s, d, j' - 1, b)
    BY <1>1, <1>3, <2>2, <2>4, Zenon
  <2>6. u' = Power(Root(le'), j' - 1)
    BY <1>1, <2>3, <2>4, Zenon
  <2>7. ButterflyInv'
    BY <2>1, <2>4, <2>5, <2>6, Zenon DEF ButterflyInv
  <2> QED
    BY <1>1, <1>5, <1>6, <2>7 DEF FftInv
<1>7. CASE le = length /\ loop' = "swap" /\ le' = le
  <2>1. c = 1 /\ length = 2 * s
    <3>1. 2 * s = 2 * (s * c)
      BY <1>3, <1>7
    <3>2. s = s * c
      <4>1. s * c \in Int
        BY <1>3
      <4> QED
        BY <1>3, <3>1, <4>1
    <3>3. c = 1
      <4>1. s * c = s + s * (c - 1)
        BY <1>3
      <4>2. s * (c - 1) = 0
        BY <1>3, <3>2, <4>1
      <4> QED
        BY <1>3, <4>2 DEF Positive
    <3> QED
      BY <1>3, <1>7, <3>3
  <2>2. Swapped(buffer, input, s, 0)
    <3>1. R[0] = 0
      BY <1>3 DEF IsReversal
    <3>2. Stage(buffer, input, R, s, 1, s - 1, 1)
      BY <1>4, <2>1
    <3> QED
      BY <3>1, <3>2, LastStageEnds
  <2>3. SwapInv'
    <3>1. /\ length' = 2 * s /\ i' \in 0 .. s
          /\ loop' = "done" => i' = s
          /\ Swapped(buffer', input', s, i')
      BY <1>1, <1>3, <1>7, <2>1, <2>2
    <3> QED
      BY <1>3, <3>1, Zenon DEF SwapInv
  <2> QED
    BY <1>5, <1>7, <2>3 DEF FftInv
<1> QED
  BY <1>1, <1>6, <1>7

LEMMA SwapStep == FftInv /\ Swap => FftInv'
<1> SUFFICES ASSUME FftInv, Swap PROVE FftInv'
  OBVIOUS
<1>1. /\ loop = "swap"
      /\ \/ /\ i < nd2 /\ i' = i + 1 /\ loop' = loop
            /\ buffer' = [buffer EXCEPT ![i] = buffer[nd2 + i], ![nd2 + i] = buffer[i]]
         \/ i = nd2 /\ loop' = "done" /\ buffer' = buffer /\ i' = i
      /\ length' = length /\ input' = input /\ j' = j /\ k' = k /\ le' = le /\ u' = u
  BY DEF Swap, Exchange
<1>2. FftTypes /\ SwapInv
  BY <1>1 DEF FftInv
<1>3. PICK h \in Positive : length = 2 * h /\ i \in 0 .. h /\ Swapped(buffer, input, h, i)
  BY <1>2 DEF SwapInv
<1>4. nd2 = h /\ h \in Nat
  BY <1>3 DEF nd2, Positive
<1>5. CASE /\ i < nd2 /\ i' = i + 1 /\ loop' = loop
           /\ buffer' = [buffer EXCEPT ![i] = buffer[nd2 + i], ![nd2 + i] = buffer[i]]
  <2>1. PICK a \in 0 .. h - 1 : a = i
    BY <1>3, <1>4, <1>5
  <2>2. PICK buf \in [0 .. (2 * h) - 1 -> Residues] : buf = buffer
    BY <1>2, <1>3 DEF FftTypes
  <2>3. PICK new : new = buffer'
    OBVIOUS
  <2>4. SwapsAt(new, buf, h, a) /\ Swapped(buf, input, h, a)
    BY <1>3, <1>4, <1>5, <2>1, <2>2, <2>3 DEF SwapsAt
  <2>5. new \in [0 .. (2 * h) - 1 -> Residues] /\ Swapped(new, input, h, a + 1)
    BY <2>4, SwappedNext
  <2>6. SwapInv'
    <3>1. /\ length' = 2 * h /\ i' \in 0 .. h
          /\ loop' = "done" => i' = h
          /\ Swapped(buffer', input', h, i')
      BY <1>1, <1>3, <1>4, <1>5, <2>1, <2>3, <2>5
    <3> QED
      BY <1>3, <3>1, Zenon DEF SwapInv
  <2>7. FftTypes'
    BY <1>1, <1>2, <1>3, <1>5, <2>3, <2>5 DEF FftTypes
  <2> QED
    BY <1>1, <1>5, <2>6, <2>7 DEF FftInv
<1>6. CASE i = nd2 /\ loop' = "done" /\ buffer' = buffer /\ i' = i
  <2>1. SwapInv'
    <3>1. /\ length' = 2 * h /\ i' \in 0 .. h
          /\ loop' = "done" => i' = h
          /\ Swapped(buffer', input', h, i')
      BY <1>1, <1>3, <1>4, <1>6
    <3> QED
      BY <1>3, <3>1, Zenon DEF SwapInv
  <2>2. FftTypes'
    BY <1>1, <1>2, <1>6 DEF FftTypes
  <2> QED
    BY <1>6, <2>1, <2>2 DEF FftInv
<1> QED
  BY <1>1, <1>5, <1>6

(* The invariant holds in every behaviour of the transform.                *)
THEOREM FftInvariant == Spec => []FftInv
<1>1. Init => FftInv
  BY InitInv
<1>2. FftInv /\ [Next]_vars => FftInv'
  <2> SUFFICES ASSUME FftInv, [Next]_vars PROVE FftInv'
    OBVIOUS
  <2>1. CASE Next
    BY <2>1, ReverseStep, CarryStep, CarriedStep, ReversedStep, ButterflyStep, NextTwiddleStep,
       NextStageStep, SwapStep DEF Next
  <2>2. CASE UNCHANGED vars
    <3>1. /\ buffer' = buffer /\ length' = length /\ input' = input /\ loop' = loop
          /\ i' = i /\ j' = j /\ k' = k /\ le' = le /\ u' = u
      BY <2>2 DEF vars
    <3>2. FftTypes' = FftTypes /\ SwapInv' = SwapInv /\ ReverseInv' = ReverseInv
      BY <3>1 DEF FftTypes, SwapInv, ReverseInv
    <3>3. CarryInv' = CarryInv /\ ButterflyInv' = ButterflyInv
      BY <3>1 DEF CarryInv, ButterflyInv
    <3> QED
      BY <3>1, <3>2, <3>3 DEF FftInv
  <2> QED
    BY <2>1, <2>2
<1> QED
  BY <1>1, <1>2, PTL DEF Spec
-----------------------------------------------------------------------------
LEMMA Divided ==
  ASSUME NEW n \in Positive, NEW m \in Nat
  PROVE  \E a \in Nat, b \in Nat : m = n * a + b /\ m % n = b
<1>1. n \in Int /\ n > 0 /\ m \in Int
  BY DEF Positive
<1>2. m = n * (m \div n) + (m % n)
  BY <1>1
<1>3. m \div n \in Int /\ m % n \in Nat
  BY <1>1
<1>4. m \div n \in Nat
  BY <1>1
<1> QED
  BY <1>2, <1>3, <1>4

(* The definition is a block of the whole buffer.                          *)
LEMMA WholeBlock ==
  ASSUME NEW L, NEW x, Within(L, x), NEW f \in Nat
  PROVE  [n \in 0 .. L - 1 |-> x[n] * Power(Root(L), (n * f) % L)] = Samples(x, L, 1, 0, f)
<1>1. L \in Lengths /\ L \in Positive /\ L = L * 1 /\ 1 \in Positive
  BY Halves, LengthPower DEF Within, PowersOfTwo, Positive
<1>2. L \in Factors(L)
  BY <1>1 DEF Factors
<1>3. ASSUME NEW n \in 0 .. L - 1
      PROVE  x[n] * Power(Root(L), (n * f) % L) = x[0 + (n * 1)] * Power(Root(L), n * f)
  <2>1. n * f \in Nat /\ 0 + (n * 1) = n
    OBVIOUS
  <2>2. PICK a \in Nat, b \in Nat : n * f = L * a + b /\ (n * f) % L = b
    BY <1>1, <2>1, Divided
  <2>3. Power(Root(L), L * a + b) = Power(Root(L), b)
    BY <1>1, <1>2, RootPeriod
  <2> QED
    BY <2>1, <2>2, <2>3
<1> QED
  BY <1>3, Zenon DEF Samples

LEMMA InvariantImpliesDft == FftInv => FftIsDft
<1> SUFFICES ASSUME FftInv, loop = "done", NEW n \in 0 .. nm1
             PROVE  buffer[n] = Dft(input, (n + nd2) % length)
  BY DEF FftIsDft
<1>1. Within(length, input) /\ SwapInv
  BY DEF FftInv, FftTypes
<1>2. PICK h \in Positive : length = 2 * h /\ Swapped(buffer, input, h, h)
  BY <1>1 DEF SwapInv
<1>3. nd2 = h /\ h \in Nat /\ nm1 = (2 * h) - 1
  BY <1>2 DEF nd2, nm1, Positive
<1>4. ASSUME NEW f \in Nat PROVE Dft(input, f) = Block(input, 2 * h, 1, 0, f)
  <2>1. [m \in 0 .. length - 1 |-> input[m] * Power(Root(length), (m * f) % length)]
          = Samples(input, length, 1, 0, f)
    BY <1>1, WholeBlock
  <2> QED
    BY <1>2, <2>1, Zenon DEF Dft, Block, nm1
<1>5. CASE n < h
  <2>1. n \in 0 .. h - 1
    BY <1>3, <1>5
  <2>2. buffer[n] = Block(input, 2 * h, 1, 0, n + h)
    <3>1. buffer[n] = Block(input, 2 * h, 1, 0, IF n < h THEN n + h ELSE n)
      BY <1>2, <2>1, Zenon DEF Swapped
    <3> QED
      BY <1>5, <3>1, Zenon
  <2>3. (n + h) % length = n + h /\ n + h \in Nat
    BY <1>2, <1>3, <2>1
  <2> QED
    BY <1>3, <1>4, <2>2, <2>3
<1>6. CASE ~(n < h)
  <2>1. PICK m \in 0 .. h - 1 : n = m + h
    <3>1. n - h \in 0 .. h - 1 /\ n = (n - h) + h
      BY <1>3, <1>6
    <3> QED
      BY <3>1
  <2>2. buffer[n] = Block(input, 2 * h, 1, 0, m)
    <3>1. buffer[m + h] = Block(input, 2 * h, 1, 0, IF m < h THEN m ELSE m + h)
      BY <1>2, Zenon DEF Swapped
    <3>2. m < h
      BY <1>3
    <3> QED
      BY <2>1, <3>1, <3>2, Zenon
  <2>3. (n + h) % length = m
    <3>1. n + h = length + m /\ m < length /\ length \in Nat /\ length > 0
      BY <1>2, <1>3, <2>1 DEF Positive
    <3> QED
      BY <3>1
  <2> QED
    BY <1>3, <1>4, <2>2, <2>3
<1> QED
  BY <1>5, <1>6

(* The transform of any buffer, for any length that is a power of two, is  *)
(* its discrete Fourier transform with frequency 0 in the middle.          *)
THEOREM TransformIsDft == Spec => []FftIsDft
  BY FftInvariant, InvariantImpliesDft, PTL
=============================================================================
