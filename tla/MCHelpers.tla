------------------------------ MODULE MCHelpers ------------------------------
(* Bounded inputs for the helpers: iterables of up to 5 items and sizes 1  *)
(* to 3 (exact multiples and remainders); texts of up to 6 characters      *)
(* over a letter, a space and a newline with blocks whose mean and max     *)
(* differ or not; dates from any day of a common year into a leap year.   *)
EXTENDS Helpers

MCBatchInputs == {[i \in 1..n |-> i] : n \in 0..5}
MCNL == "\n"
MCSP == " "
MCTexts == UNION {[1..n -> {"w", MCSP, MCNL}] : n \in 0..6}
MCBlocks == {<<1, 2>>, <<2, 3>>, <<1, 3>>, <<2, 2>>}
MCYears == 2023..2024
==============================================================================
