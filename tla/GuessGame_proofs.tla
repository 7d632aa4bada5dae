-------------------------- MODULE GuessGame_proofs --------------------------
(***************************************************************************)
(* Proofs about GuessGame, for every width of int, every secret and bound, *)
(* and answers in time or late.                                            *)
(***************************************************************************)
EXTENDS GuessGame, Data_proofs, TLAPS

\* A remainder by more than the number is the number.
LEMMA SmallRemainder ==
  ASSUME NEW a \in Nat, NEW b \in Nat \ {0}, a < b
  PROVE  a % b = a
OBVIOUS

\* An int addition whose result fits does not wrap.
LEMMA WrapFits ==
  ASSUME NEW n \in Int, -1 <= n, n <= IntMax
  PROVE  Wrap(n) = n
<1> DEFINE a == n + IntMax + 1
           b == 2 * (IntMax + 1)
<1>1. a \in Nat /\ b \in Nat \ {0} /\ a < b
  BY IntMaxAssumption
<1>2. a % b = a
  BY <1>1, SmallRemainder
<1> QED
  BY <1>2, IntMaxAssumption DEF Wrap

\* Any addition gives an int.
LEMMA WrapType ==
  ASSUME NEW n \in Int
  PROVE  Wrap(n) \in Int
<1>1. 2 * (IntMax + 1) \in Nat \ {0}
  BY IntMaxAssumption
<1>2. \A a \in Int : \A b \in Nat \ {0} : a % b \in Int
  OBVIOUS
<1> QED
  BY <1>1, <1>2, IntMaxAssumption DEF Wrap

LEMMA MiddleType ==
  ASSUME lower \in Int, upper \in Int
  PROVE  Middle \in Int
<1>1. Wrap(lower + upper) \in Int
  BY WrapType
<1> QED
  BY <1>1 DEF Middle, Half

\* The middle of a range of two or more lies in it, and below its end.
LEMMA MiddleInside ==
  ASSUME lower \in Int, upper \in Int, range \in Int, NoOverflow,
         0 <= lower, lower < upper, upper <= range
  PROVE  lower <= Middle /\ Middle < upper
<1>1. lower + upper <= IntMax
  BY IntMaxAssumption DEF NoOverflow
<1>2. Wrap(lower + upper) = lower + upper
  BY <1>1, WrapFits
<1> QED
  BY <1>2 DEF Middle, Half

-----------------------------------------------------------------------------
(* Halving.                                                                *)

\* What one answer leaves is at most half of what there was.
LEMMA HalfLeft ==
  ASSUME lower \in Int, upper \in Int, range \in Int, NoOverflow,
         0 <= lower, lower < upper, upper <= range
  PROVE  /\ 2 * (upper - Middle) <= upper - lower + 1
         /\ 2 * (Middle - lower) <= upper - lower + 1
<1>1. lower + upper <= IntMax
  BY IntMaxAssumption DEF NoOverflow
<1>2. Wrap(lower + upper) = lower + upper
  BY <1>1, WrapFits
<1> QED
  BY <1>2 DEF Middle, Half

LEMMA HalfTimes ==
  ASSUME NEW a \in Int, NEW b \in Int, NEW p \in Nat, NEW c \in Int, 2 * a <= b, b * p <= c
  PROVE  a * (2 * p) <= c
<1>1. (2 * a) * p <= b * p
  OBVIOUS
<1>2. a * (2 * p) = (2 * a) * p
  OBVIOUS
<1>3. (2 * a) * p \in Int /\ b * p \in Int
  OBVIOUS
<1> QED
  BY <1>1, <1>2, <1>3

LEMMA RangeType == UpperBounds \cup {0} \subseteq Int /\ Secrets \subseteq Int
BY RangeAssumption, IntMaxAssumption

LEMMA Initial == Init => IInv
<1> SUFFICES ASSUME Init PROVE IInv
  OBVIOUS
<1>0. /\ secret \in Secrets /\ game = "pause" /\ verdict = "blank" /\ removed = FALSE
      /\ guess = 0
      /\ result \in Results \cup {"blank"} /\ guesser = "none" /\ lower = 0 /\ upper = 0
      /\ range = 0 /\ tries = 0 /\ runs = 0
  BY Zenon DEF Init
<1>1. TypeOK
  <2>1. usr1 \in BOOLEAN /\ (usr1 => game # "dead") /\ inTime \in BOOLEAN
    BY CasesAssumption, Zenon DEF Init
  <2>2. guess \in Int /\ lower \in Int /\ upper \in Int /\ tries \in Nat /\ runs \in 0..MaxRuns
    BY <1>0, RunsAssumption
  <2> QED
    BY <1>0, <2>1, <2>2 DEF TypeOK, Results, Ended
<1>2. Bounds
  BY <1>0 DEF Bounds
<1>3. Answered /\ Bracketed /\ FoundIsSecret
  BY Zenon DEF Init, Answered, Bracketed, FoundIsSecret
<1>4. Aimed
  BY <1>0, Zenon DEF Aimed
<1>5. Halved
  BY <1>0, PowerOfNone DEF Halved
<1> QED
  BY <1>1, <1>2, <1>3, <1>4, <1>5 DEF IInv

-----------------------------------------------------------------------------
(* Process guess.                                                          *)

LEMMA StartStep ==
  ASSUME IInv, NEW bound \in UpperBounds, StartGuess(bound)
  PROVE  IInv'
<1>1. TypeOK'
  <2>1. runs' \in 0..MaxRuns /\ lower' \in Int /\ upper' \in Int /\ tries' \in Nat
        /\ range' \in UpperBounds \cup {0}
    BY RangeType, RunsAssumption DEF StartGuess, IInv, TypeOK
  <2>2. guess' \in Int /\ result' \in Results \cup {"blank", "torn"}
    BY DEF StartGuess, IInv, TypeOK
  <2> QED
    BY <2>1, <2>2 DEF StartGuess, IInv, TypeOK, gameVars
<1>2. bound \in Int
  BY RangeType
<1>3. Answered'
  BY DEF StartGuess, Answered
<1>5. Bounds'
  BY <1>2 DEF StartGuess, Bounds
<1>4. Bracketed' /\ FoundIsSecret'
  BY DEF StartGuess, Bracketed, FoundIsSecret
<1>6. Aimed'
  BY DEF StartGuess, Aimed
<1>7. Halved'
  <2>1. lower' = 0 /\ upper' = bound /\ range' = bound /\ 2^(tries') = 1
    BY PowerOfNone DEF StartGuess
  <2> QED
    BY <1>2, <2>1 DEF Halved
<1> QED
  BY <1>1, <1>3, <1>4, <1>5, <1>6, <1>7 DEF IInv

\* Steps of guess that leave its bounds alone.
LEMMA GuessStep ==
  ASSUME IInv, RangeError \/ WriteGuess \/ Kill \/ GuessKilled
  PROVE  IInv'
<1> USE DEF IInv, gameVars, boundVars
<1>0. NoOverflow' = NoOverflow
  BY DEF RangeError, WriteGuess, Kill, GuessKilled, NoOverflow
<1>1. TypeOK'
  <2>1. guess' \in Int
    BY MiddleType DEF RangeError, WriteGuess, Kill, GuessKilled, TypeOK
  <2>2. usr1' \in BOOLEAN /\ (usr1' => game # "dead")
    <3>1. CASE Kill
      BY <3>1, Zenon DEF Kill
    <3>2. CASE RangeError \/ WriteGuess \/ GuessKilled
      <4>1. usr1' = usr1
        BY <3>2 DEF RangeError, WriteGuess, GuessKilled
      <4> QED
        BY <4>1 DEF TypeOK
    <3> QED
      BY <3>1, <3>2
  <2>3. guesser' \in Ended \cup {"pause", "kill", "read"}
    BY DEF RangeError, WriteGuess, Kill, GuessKilled, Ended
  <2>4. UNCHANGED <<secret, game, verdict, removed, result, lower, upper, range, tries, runs, inTime>>
    BY DEF RangeError, WriteGuess, Kill, GuessKilled
  <2> QED
    BY <2>1, <2>2, <2>3, <2>4 DEF TypeOK
<1>2. Answered'
  BY DEF RangeError, WriteGuess, Kill, GuessKilled, TypeOK, Answered
<1>3. Bounds'
  <2>1. WriteGuess /\ NoOverflow /\ range >= 0 => lower <= Middle /\ Middle < upper
    BY MiddleInside, RangeType DEF WriteGuess, Bounds, TypeOK
  <2> QED
    BY <1>0, <2>1 DEF RangeError, WriteGuess, Kill, GuessKilled, Bounds, Ended
<1>4. Bracketed'
  BY <1>0 DEF RangeError, WriteGuess, Kill, GuessKilled, Bracketed
<1>5. FoundIsSecret'
  BY DEF RangeError, WriteGuess, Kill, GuessKilled, FoundIsSecret
<1>6. Aimed'
  <2>1. Middle' = Middle
    BY DEF RangeError, WriteGuess, Kill, GuessKilled, Middle
  <2> QED
    BY <2>1 DEF RangeError, WriteGuess, Kill, GuessKilled, Aimed, Ended
<1>7. Halved'
  BY <1>0 DEF RangeError, WriteGuess, Kill, GuessKilled, Halved
<1> QED
  BY <1>1, <1>2, <1>3, <1>4, <1>5, <1>6, <1>7

\* The answer, when in time, is about the guess read with it.
LEMMA ReadStep ==
  ASSUME IInv, ReadResult
  PROVE  IInv'
<1> USE DEF IInv
<1>1. UNCHANGED <<gameVars, usr1, guess, result, range, runs, inTime>> /\ Awake
  BY DEF ReadResult
<1>2. inTime /\ game # "dead" => result = Verdict
  BY <1>1 DEF Awake, Answered
<1>3. guess \in Int /\ lower \in Int /\ upper \in Int /\ range \in Int /\ tries \in Nat
      /\ secret \in Int
  BY RangeType DEF TypeOK
<1>4. guesser = "read"
  BY <1>1 DEF Awake
<1>5. NoOverflow /\ range >= 0 => Wrap(guess + 1) = guess + 1 /\ Wrap(guess - 1) = guess - 1
  <2> SUFFICES ASSUME NoOverflow, range >= 0 PROVE Wrap(guess + 1) = guess + 1
                                                   /\ Wrap(guess - 1) = guess - 1
    OBVIOUS
  <2>1. 0 <= guess /\ guess < IntMax
    BY <1>3, <1>4, IntMaxAssumption DEF Bounds, NoOverflow
  <2> QED
    BY <1>3, <2>1, WrapFits, IntMaxAssumption
<1>6. Wrap(guess + 1) \in Int /\ Wrap(guess - 1) \in Int
  BY <1>3, WrapType
<1>7. /\ UNCHANGED <<secret, game, range>>
      /\ \/ /\ result = "smaller" /\ guesser' = "pause"
            /\ lower' = Wrap(guess + 1) /\ upper' = upper /\ tries' = tries + 1
         \/ /\ result = "bigger" /\ guesser' = "pause"
            /\ lower' = lower /\ upper' = Wrap(guess - 1) /\ tries' = tries + 1
         \/ /\ result = "bingo" /\ guesser' = "found"
            /\ UNCHANGED <<lower, upper, tries>>
         \/ /\ result \notin Results /\ guesser' = "pause"
            /\ UNCHANGED <<lower, upper, tries>>
  BY DEF ReadResult, Narrow, Results, gameVars
<1>8. NoOverflow' = NoOverflow
  BY <1>1 DEF NoOverflow
<1>9. TypeOK'
  <2>1. lower' \in Int /\ upper' \in Int /\ tries' \in Nat /\ guesser' \in Ended \cup {"pause"}
    BY <1>3, <1>6, <1>7 DEF Ended
  <2> QED
    BY <1>1, <2>1 DEF TypeOK, gameVars
<1>10. Answered'
  BY <1>7 DEF Answered
<1>11. Bounds'
  <2> SUFFICES ASSUME NoOverflow, range >= 0
               PROVE  0 <= lower' /\ lower' <= upper' + 1 /\ upper' <= range
                      /\ guesser' \notin {"kill", "read"}
    BY <1>7, <1>8 DEF Bounds
  <2>1. 0 <= lower /\ upper <= range /\ lower <= guess /\ guess < upper
    BY <1>4 DEF Bounds
  <2> QED
    BY <1>3, <1>5, <1>7, <2>1
<1>12. Bracketed'
  <2> SUFFICES ASSUME inTime, game # "dead", NoOverflow, secret \in 0..range
               PROVE  secret \in lower'..upper'
    BY <1>1, <1>7, <1>8 DEF Bracketed
  <2>1. secret \in lower..upper /\ range >= 0
    BY <1>3, <1>4 DEF Bracketed
  <2>2. result = Verdict
    BY <1>2
  <2> QED
    BY <1>3, <1>5, <1>7, <2>1, <2>2 DEF Verdict, Results
<1>13. FoundIsSecret'
  <2>1. result = "bingo" /\ result = Verdict => guess = secret
    BY DEF Verdict
  <2> QED
    BY <1>1, <1>2, <1>7, <2>1 DEF FoundIsSecret, gameVars
<1>14. Aimed'
  BY <1>7 DEF Aimed
<1>15. Halved'
  <2> SUFFICES ASSUME NoOverflow, range >= 0
               PROVE  (upper' - lower' + 1) * 2^(tries') <= range + 1
    BY <1>7, <1>8 DEF Halved
  <2>1. 0 <= lower /\ lower < upper /\ upper <= range
    BY <1>3, <1>4 DEF Bounds
  <2>2. guess = Middle
    BY <1>4 DEF Aimed
  <2>3. (upper - lower + 1) * 2^tries <= range + 1
    BY DEF Halved
  <2>4. CASE UNCHANGED <<lower, upper, tries>>
    BY <2>3, <2>4
  <2>5. CASE tries' = tries + 1
    <3>1. 2 * (upper' - lower' + 1) <= upper - lower + 1
      BY <1>3, <1>5, <1>7, <2>1, <2>2, <2>5, HalfLeft
    <3>2. 2^tries \in Nat /\ 2^(tries') = 2 * 2^tries
      BY <1>3, <2>5, PowerCounts, PowerDoubles
    <3>3. upper' - lower' + 1 \in Int /\ upper - lower + 1 \in Int /\ range + 1 \in Int
      BY <1>3, <1>6, <1>7
    <3> QED
      BY <2>3, <3>1, <3>2, <3>3, HalfTimes
  <2> QED
    BY <1>7, <2>4, <2>5
<1> QED
  BY <1>9, <1>10, <1>11, <1>12, <1>13, <1>14, <1>15

-----------------------------------------------------------------------------
(* Process game.                                                           *)

LEMMA GameStep ==
  ASSUME IInv, handle_signal \/ cleanup_shared_memory
  PROVE  IInv'
<1> USE DEF IInv, boundVars
<1>0. UNCHANGED <<secret, guess, guesser, boundVars, inTime>>
  BY DEF handle_signal, Bingo, Compare, WriteResult, cleanup_shared_memory
<1>1. TypeOK'
  <2>1. CASE handle_signal
    <3>1. removed' = removed
      BY <2>1 DEF handle_signal, Bingo, Compare, WriteResult
    <3>2. (removed => game = "dead") /\ game # "dead"
      BY <2>1 DEF handle_signal, Bingo, Compare, WriteResult, TypeOK
    <3>3. /\ game' \in {"pause", "compare", "write", "writing"}
          /\ verdict' \in Results \cup {"blank"} /\ usr1' \in BOOLEAN
          /\ result' \in Results \cup {"blank", "torn"}
      BY <2>1, Zenon DEF handle_signal, Bingo, Compare, WriteResult, TypeOK, Results
    <3> QED
      BY <1>0, <3>1, <3>2, <3>3 DEF TypeOK
  <2>2. CASE cleanup_shared_memory
    BY <1>0, <2>2, Zenon DEF cleanup_shared_memory, TypeOK
  <2> QED
    BY <2>1, <2>2
<1>2. Answered'
  <2>1. CASE Bingo
    BY <2>1 DEF Bingo, Answered, Verdict
  <2>2. CASE Compare
    BY <2>2 DEF Compare, Answered, Verdict
  <2>3. CASE WriteResult
    BY <2>3 DEF WriteResult, Answered, Verdict
  <2>4. CASE cleanup_shared_memory
    BY <2>4 DEF cleanup_shared_memory, Answered
  <2> QED
    BY <2>1, <2>2, <2>3, <2>4 DEF handle_signal
<1>3. Bounds' /\ FoundIsSecret' /\ Bracketed'
  <2>1. game' # "dead" => game # "dead"
    BY DEF handle_signal, Bingo, Compare, WriteResult, cleanup_shared_memory
  <2> QED
    BY <1>0, <2>1 DEF Bounds, FoundIsSecret, Bracketed, NoOverflow
<1>4. Aimed' /\ Halved'
  BY <1>0 DEF Aimed, Halved, Middle, NoOverflow
<1> QED
  BY <1>1, <1>2, <1>3, <1>4

LEMMA Step == IInv /\ [Next]_vars => IInv'
<1> SUFFICES ASSUME IInv, [Next]_vars PROVE IInv'
  OBVIOUS
<1>1. CASE UNCHANGED vars
  <2>1. UNCHANGED <<secret, game, verdict, removed, usr1, guess, result, guesser, lower,
                    upper, range, tries, runs, inTime>>
    BY <1>1 DEF vars, gameVars, boundVars
  <2>2. TypeOK' /\ Bounds'
    BY <2>1 DEF IInv, TypeOK, Bounds, NoOverflow
  <2>3. Answered' /\ Bracketed' /\ FoundIsSecret'
    BY <2>1 DEF IInv, Answered, Bracketed, FoundIsSecret, NoOverflow, Verdict
  <2>4. Aimed' /\ Halved'
    BY <2>1 DEF IInv, Aimed, Halved, Middle, NoOverflow
  <2> QED
    BY <2>2, <2>3, <2>4 DEF IInv
<1> QED
  BY <1>1, StartStep, GuessStep, ReadStep, GameStep DEF Next, timer_handler

-----------------------------------------------------------------------------
\* The invariant holds of every game, whatever ends or is started again.
THEOREM Invariance == Spec => []IInv
BY Initial, Step, PTL DEF Spec

\* With answers in time the secret never leaves the bounds (guess.c, lines 27-37).
THEOREM SecretBracketed == Spec => []Bracketed
<1>1. IInv => Bracketed
  BY DEF IInv
<1> QED
  BY <1>1, Invariance, PTL

\* With answers in time bingo is the truth about the guess (guess.c, line 37).
THEOREM FoundTruly == Spec => []FoundIsSecret
<1>1. IInv => FoundIsSecret
  BY DEF IInv
<1> QED
  BY <1>1, Invariance, PTL

\* Each answer, in time or late, at least halves the range (guess.c, lines 27-37).
THEOREM RangeHalved == Spec => []Halved
<1>1. IInv => Halved
  BY DEF IInv
<1> QED
  BY <1>1, Invariance, PTL
=============================================================================
