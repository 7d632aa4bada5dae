------------------------------ MODULE GuessGame -----------------------------
(***************************************************************************)
(* The number guessing of lab7.  Process game (game.c) knows a secret and, *)
(* on SIGUSR1, compares it with the guess in shared memory and writes the  *)
(* result there; process guess (guess.c), on a timer, writes the middle of *)
(* its range, signals game, sleeps 100 microseconds and reads the result.  *)
(* Nothing but that sleep orders the answer before the read.               *)
(***************************************************************************)
EXTENDS Integers

CONSTANTS Secrets,      \* secret numbers game can be started with
          UpperBounds,  \* upper bounds guess can be started with
          IntMax,       \* INT_MAX
          InTime,       \* whether the 100 microseconds suffice: the cases checked
          MaxRuns       \* bound: how often guess is started

ASSUME IntMaxAssumption == IntMax \in Nat /\ IntMax % 2 = 1
ASSUME RangeAssumption  == Secrets \cup UpperBounds \subseteq (-IntMax - 1)..IntMax
ASSUME CasesAssumption  == InTime \subseteq BOOLEAN
ASSUME RunsAssumption   == MaxRuns \in Nat

VARIABLES
  secret,  \* secret_number of game
  game,    \* where game is: "pause", in handle_signal, or "dead"
  verdict, \* what handle_signal is about to write
  removed, \* the segment of the key has been removed, and no new one made
  usr1,    \* SIGUSR1 is pending for game
  guess,   \* shared_memory->guess
  result,  \* shared_memory->result
  guesser, \* where guess is: "pause", in timer_handler, or how it has ended
  lower,   \* lower_bound
  upper,   \* upper_bound
  range,   \* history: the upper bound guess was started with
  tries,   \* history: how many answers have narrowed the range
  runs,    \* how often guess has been started
  inTime   \* game answers before guess reads, in this behaviour

gameVars  == <<secret, game, verdict, removed>>
boundVars == <<lower, upper, range, tries, runs>>
vars      == <<gameVars, usr1, guess, result, guesser, boundVars, inTime>>

-----------------------------------------------------------------------------
Results == {"smaller", "bigger", "bingo"}
Ended   == {"none", "found", "error", "killed"}

\* What a signed int holds after an addition, and division as C does it.
Wrap(n) == ((n + IntMax + 1) % (2 * (IntMax + 1))) - IntMax - 1
Half(n) == IF n >= 0 THEN n \div 2 ELSE -((-n) \div 2)

Middle == Half(Wrap(lower + upper))

\* A segment left over from an earlier game may hold any earlier result.
Init ==
  /\ secret \in Secrets
  /\ game = "pause" /\ verdict = "blank" /\ removed = FALSE /\ usr1 = FALSE
  /\ guess = 0 /\ result \in Results \cup {"blank"}
  /\ guesser = "none" /\ lower = 0 /\ upper = 0 /\ range = 0
  /\ tries = 0 /\ runs = 0
  /\ inTime \in InTime

-----------------------------------------------------------------------------
(* Process guess.                                                          *)

\* main: it attaches to the segment of the key, or, when game has removed that,
\* makes a new one full of zeros, which nothing removes.
StartGuess(bound) ==
  /\ guesser \in Ended /\ runs < MaxRuns
  /\ guesser' = "pause"
  /\ lower' = 0 /\ upper' = bound /\ range' = bound
  /\ tries' = 0 /\ runs' = runs + 1
  /\ removed' = FALSE
  /\ IF removed THEN guess' = 0 /\ result' = "blank" ELSE UNCHANGED <<guess, result>>
  /\ UNCHANGED <<secret, game, verdict, usr1, inTime>>

\* timer_handler, on SIGALRM.
RangeError ==
  /\ guesser = "pause" /\ upper <= lower
  /\ guesser' = "error"
  /\ UNCHANGED <<gameVars, usr1, guess, result, boundVars, inTime>>

WriteGuess ==
  /\ guesser = "pause" /\ upper > lower
  /\ guess' = Middle
  /\ guesser' = "kill"
  /\ UNCHANGED <<gameVars, usr1, result, boundVars, inTime>>

\* A second SIGUSR1 is not queued behind a pending one; one to a process that
\* has ended fails unnoticed.
Kill ==
  /\ guesser = "kill"
  /\ guesser' = "read"
  /\ usr1' = (game # "dead")
  /\ UNCHANGED <<gameVars, guess, result, boundVars, inTime>>

\* Mutant of Awake: guess reads at once.
AwakeAtOnce == guesser = "read"

\* The end of usleep(100).
Awake ==
  /\ guesser = "read"
  /\ inTime => game = "dead" \/ (game = "pause" /\ ~ usr1)

Narrow(low, up) ==
  /\ lower' = low /\ upper' = up
  /\ tries' = tries + 1
  /\ guesser' = "pause"

\* Mutants of ReadResult: the two bounds exchanged, and a bound that stays in
\* the range.
ReadResultSwapped ==
  /\ Awake
  /\ CASE result = "smaller" -> Narrow(lower, Wrap(guess - 1))
       [] result = "bigger"  -> Narrow(Wrap(guess + 1), upper)
       [] result = "bingo"   -> guesser' = "found"  /\ UNCHANGED <<lower, upper, tries>>
       [] OTHER              -> guesser' = "pause"  /\ UNCHANGED <<lower, upper, tries>>
  /\ UNCHANGED <<gameVars, usr1, guess, result, range, runs, inTime>>

ReadResultInclusive ==
  /\ Awake
  /\ CASE result = "smaller" -> Narrow(guess, upper)
       [] result = "bigger"  -> Narrow(lower, guess)
       [] result = "bingo"   -> guesser' = "found"  /\ UNCHANGED <<lower, upper, tries>>
       [] OTHER              -> guesser' = "pause"  /\ UNCHANGED <<lower, upper, tries>>
  /\ UNCHANGED <<gameVars, usr1, guess, result, range, runs, inTime>>

ReadResult ==
  /\ Awake
  /\ CASE result = "smaller" -> Narrow(Wrap(guess + 1), upper)
       [] result = "bigger"  -> Narrow(lower, Wrap(guess - 1))
       [] result = "bingo"   -> guesser' = "found"  /\ UNCHANGED <<lower, upper, tries>>
       [] OTHER              -> guesser' = "pause"  /\ UNCHANGED <<lower, upper, tries>>
  /\ UNCHANGED <<gameVars, usr1, guess, result, range, runs, inTime>>

\* Ctrl-C on guess.
GuessKilled ==
  /\ guesser \notin Ended
  /\ guesser' = "killed"
  /\ UNCHANGED <<gameVars, usr1, guess, result, boundVars, inTime>>

timer_handler == RangeError \/ WriteGuess \/ Kill \/ ReadResult

-----------------------------------------------------------------------------
(* Process game: handle_signal, which loads the guess for each comparison. *)

Bingo ==
  /\ game = "pause" /\ usr1
  /\ usr1' = FALSE
  /\ IF guess = secret THEN game' = "write" /\ verdict' = "bingo"
                       ELSE game' = "compare" /\ UNCHANGED verdict
  /\ UNCHANGED <<secret, removed, guess, result, guesser, boundVars, inTime>>

Compare ==
  /\ game = "compare"
  /\ game' = "write"
  /\ verdict' = IF guess > secret THEN "bigger" ELSE "smaller"
  /\ UNCHANGED <<secret, removed, usr1, guess, result, guesser, boundVars, inTime>>

\* Mutant of WriteResult: a buffer one byte too short for "smaller".
WriteResultCut ==
  /\ game = "write"
  /\ game' = "pause"
  /\ result' = IF verdict = "smaller" THEN "torn" ELSE verdict
  /\ verdict' = "blank"
  /\ UNCHANGED <<secret, removed, usr1, guess, guesser, boundVars, inTime>>

\* snprintf, byte by byte: for a moment the text is neither word.
WriteResult ==
  \/ /\ game = "write"
     /\ game' = "writing"
     /\ result' = "torn"
     /\ UNCHANGED <<secret, verdict, removed, usr1, guess, guesser, boundVars, inTime>>
  \/ /\ game = "writing"
     /\ game' = "pause"
     /\ result' = verdict
     /\ verdict' = "blank"
     /\ UNCHANGED <<secret, removed, usr1, guess, guesser, boundVars, inTime>>

handle_signal == Bingo \/ Compare \/ WriteResult

\* Ctrl-C on game: the key is free, and the segment lives on until guess
\* detaches from it.
cleanup_shared_memory ==
  /\ game # "dead"
  /\ game' = "dead" /\ usr1' = FALSE /\ verdict' = "blank" /\ removed' = TRUE
  /\ UNCHANGED <<secret, guess, result, guesser, boundVars, inTime>>

-----------------------------------------------------------------------------
Next ==
  \/ \E bound \in UpperBounds : StartGuess(bound)
  \/ timer_handler \/ GuessKilled
  \/ handle_signal \/ cleanup_shared_memory

\* The timer goes on firing, and game is scheduled.
Spec == Init /\ [][Next]_vars /\ WF_vars(timer_handler) /\ WF_vars(handle_signal)

-----------------------------------------------------------------------------
(* Properties.                                                             *)

\* An upper bound no sum of two numbers of the range goes beyond INT_MAX for.
NoOverflow == range <= IntMax \div 2

TypeOK ==
  /\ secret \in Secrets
  /\ game \in {"pause", "compare", "write", "writing", "dead"}
  /\ verdict \in Results \cup {"blank"}
  /\ removed \in BOOLEAN /\ (removed => game = "dead")
  /\ usr1 \in BOOLEAN /\ (usr1 => game # "dead")
  /\ guess \in Int
  /\ result \in Results \cup {"blank", "torn"}
  /\ guesser \in Ended \cup {"pause", "kill", "read"}
  /\ lower \in Int /\ upper \in Int /\ range \in UpperBounds \cup {0}
  /\ tries \in Nat /\ runs \in 0..MaxRuns
  /\ inTime \in BOOLEAN

\* When game answers in time, a secret within the bound guess was started
\* with never leaves lower_bound..upper_bound: through restarts of guess,
\* answers left over from an earlier run and signals that come together.  When
\* "Error in guessing range." ends guess, the one number left is the secret,
\* which line 22 gives up without a guess.
Bracketed ==
  inTime /\ game # "dead" /\ NoOverflow /\ secret \in 0..range
    => guesser \in {"none", "killed"} \/ secret \in lower..upper

\* "Guessed the number" is said of the secret only (when answered in time).
FoundIsSecret == inTime /\ game # "dead" /\ guesser = "found" => guess = secret

\* What makes the two inductive: once the signal of a guess is taken, what game
\* is about to say, or has said, is about that guess; and bounds and guess stay
\* in the range.
Verdict == IF guess = secret THEN "bingo" ELSE IF guess > secret THEN "bigger" ELSE "smaller"

Answered ==
  guesser = "read" /\ ~ usr1 =>
    /\ game = "compare" => guess # secret
    /\ game \in {"write", "writing"} => verdict = Verdict
    /\ game = "pause" => result = Verdict

Bounds ==
  NoOverflow /\ range >= 0 =>
    /\ 0 <= lower /\ lower <= upper + 1 /\ upper <= range
    /\ guesser \in {"kill", "read"} => lower <= guess /\ guess < upper

\* Until its answer is read, the guess stays the middle of the bounds.
Aimed == guesser \in {"kill", "read"} => guess = Middle

\* Each answer, late or not, at least halves the range, so there are at most
\* log2(upper_bound + 1) of them.
Halved ==
  NoOverflow /\ range >= 0 => (upper - lower + 1) * 2^tries <= range + 1

IInv ==
  TypeOK /\ Answered /\ Bounds /\ Aimed /\ Bracketed /\ FoundIsSecret /\ Halved

\* As long as game runs and answers in time, guess comes to an end.
Finishes ==
  guesser = "pause" /\ inTime /\ NoOverflow ~> guesser \in Ended \/ game = "dead"
=============================================================================
