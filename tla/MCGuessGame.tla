----------------------------- MODULE MCGuessGame ----------------------------
(* The guessing game on small ranges.                                      *)
EXTENDS GuessGame

\* 0..7 as the range of the secret, and secrets beyond both ends.  With IntMax
\* 15, 7 is the largest bound for which lower_bound + upper_bound never wraps.
MCSecrets     == -1..8
MCUpperBounds == {0, 1, 6, 7}
=============================================================================
