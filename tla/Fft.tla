-------------------------------- MODULE Fft --------------------------------
(***************************************************************************)
(* The fast Fourier transform of the IQ balancer (iqbalancer.c): the bit   *)
(* reversal, the stages of butterflies, and the exchange of the halves,    *)
(* one iteration of an innermost loop per step, against the definition of  *)
(* the discrete Fourier transform.                                         *)
(*                                                                         *)
(* The algorithm uses of the complex numbers only that they are a ring     *)
(* with roots of unity.  Here they are the integers modulo Modulus, in     *)
(* which the transform is exact, and exp(-2 pi i / n) is Root(n).          *)
(***************************************************************************)
EXTENDS Integers

CONSTANTS
  Modulus,
  Root(_),   \* of length: an element of that order
  Lengths,   \* powers of two
  Inputs(_)  \* of length: buffers

VARIABLES
  length, input, buffer,
  loop,      \* "reverse", "carry", "butterfly", "swap", "done"
  i, j, k,
  le,        \* 2^l in the stages
  u          \* the twiddle factor

vars == <<length, input, buffer, loop, i, j, k, le, u>>

nm1 == length - 1
nd2 == length \div 2
le2 == le \div 2

(* A power of two is a number whose divisors other than 1 are even.        *)
ASSUME LengthsAssumption ==
  /\ Lengths \subseteq Nat \ {0, 1}
  /\ \A n \in Lengths : \A d \in 2 .. n : n % d = 0 => d % 2 = 0

ASSUME ModulusAssumption == Modulus \in Nat \ {0, 1}

(* The root for two is -1, each other one a square root of the one before. *)
ASSUME RootAssumption ==
  /\ Root(2) = Modulus - 1
  /\ \A n \in Lengths : \A d \in 2 .. n :
       n % d = 0 => Root(d) \in Nat /\ (Root(d) * Root(d)) % Modulus = Root(d \div 2)

ASSUME InputsAssumption ==
  \A n \in Lengths : Inputs(n) \subseteq [0 .. n - 1 -> 0 .. Modulus - 1]

Init ==
  /\ length \in Lengths
  /\ input \in Inputs(length)
  /\ buffer = input
  /\ loop = "reverse"
  /\ i = 1
  /\ j = nd2
  /\ k = nd2
  /\ le = 2
  /\ u = 1
-----------------------------------------------------------------------------
Exchange(a, b) == [buffer EXCEPT ![a] = buffer[b], ![b] = buffer[a]]

ReverseWhere(exchanged) ==
  /\ loop = "reverse" /\ i < nm1
  /\ buffer' = IF exchanged THEN Exchange(i, j) ELSE buffer
  /\ k' = nd2
  /\ loop' = "carry"
  /\ UNCHANGED <<length, input, i, j, le, u>>

(* Mutant: each pair is exchanged twice. *)
ReverseTwice == ReverseWhere(TRUE)
Reverse == ReverseWhere(i < j)

(* Adds one to j, whose highest bit comes last. *)
Carry ==
  /\ loop = "carry" /\ k <= j
  /\ j' = j - k
  /\ k' = k \div 2
  /\ UNCHANGED <<length, input, buffer, loop, i, le, u>>

Carried ==
  /\ loop = "carry" /\ k > j
  /\ j' = j + k
  /\ i' = i + 1
  /\ loop' = "reverse"
  /\ UNCHANGED <<length, input, buffer, k, le, u>>

Reversed ==
  /\ loop = "reverse" /\ i >= nm1
  /\ loop' = "butterfly"
  /\ i' = 0 /\ j' = 1
  /\ UNCHANGED <<length, input, buffer, k, le, u>>

(* Loops over the elements of a stage with the same twiddle factor. *)
Butterfly ==
  LET t == u * buffer[i + le2] IN
  /\ loop = "butterfly" /\ i <= nm1
  /\ buffer' = [buffer EXCEPT ![i] = (@ + t) % Modulus, ![i + le2] = (buffer[i] - t) % Modulus]
  /\ i' = i + le
  /\ UNCHANGED <<length, input, loop, j, k, le, u>>

NextTwiddle ==
  /\ loop = "butterfly" /\ i > nm1 /\ j < le2
  /\ u' = (u * Root(le)) % Modulus
  /\ j' = j + 1
  /\ i' = j
  /\ UNCHANGED <<length, input, buffer, loop, k, le>>

NextStage ==
  /\ loop = "butterfly" /\ i > nm1 /\ j = le2
  /\ \/ le < length /\ le' = 2 * le /\ UNCHANGED loop
     \/ le = length /\ loop' = "swap" /\ UNCHANGED le
  /\ u' = 1 /\ j' = 1 /\ i' = 0
  /\ UNCHANGED <<length, input, buffer, k>>

Swap ==
  /\ loop = "swap"
  /\ \/ i < nd2 /\ buffer' = Exchange(i, nd2 + i) /\ i' = i + 1 /\ UNCHANGED loop
     \/ i = nd2 /\ loop' = "done" /\ UNCHANGED <<buffer, i>>
  /\ UNCHANGED <<length, input, j, k, le, u>>

Next ==
  \/ Reverse \/ Carry \/ Carried \/ Reversed
  \/ Butterfly \/ NextTwiddle \/ NextStage \/ Swap

Spec == Init /\ [][Next]_vars
-----------------------------------------------------------------------------
(* The definition of the transform. *)
Power(x, n) ==
  LET p[m \in 0 .. n] == IF m = 0 THEN 1 ELSE (x * p[m - 1]) % Modulus IN p[n]
Sum(f, n) ==
  LET s[m \in 0 .. n] == IF m = 0 THEN 0 ELSE (s[m - 1] + f[m - 1]) % Modulus IN s[n]
Dft(x, freq) ==
  Sum([n \in 0 .. nm1 |-> x[n] * Power(Root(length), (n * freq) % length)], length)

(* The buffer ends as the transform of what it was, with frequency 0 in    *)
(* the middle, which the bins that the balancer correlates rely on.        *)
FftIsDft ==
  loop = "done" => \A n \in 0 .. nm1 : buffer[n] = Dft(input, (n + nd2) % length)
=============================================================================
