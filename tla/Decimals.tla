------------------------------ MODULE Decimals ------------------------------
(***************************************************************************)
(* The decimal digits of a number, as lab3's writers take them off, and    *)
(* the number digits stand for.                                            *)
(***************************************************************************)
EXTENDS Integers, Sequences

\* while (n > 0) { n % 10; n / 10 }: the digits of a number, the last first.
Popped[n \in Nat] == IF n = 0 THEN <<>> ELSE <<n % 10>> \o Popped[n \div 10]
Digits(n) == IF n > 0 THEN Popped[n] ELSE <<>>

\* What digits are read as, the first of them first.
NumberOf(digits) ==
  LET number[k \in 0..Len(digits)] ==
        IF k = 0 THEN 0 ELSE 10 * number[k - 1] + digits[k]
  IN  number[Len(digits)]

ZerosPut(n) == [i \in 1..n |-> 0]
=============================================================================
