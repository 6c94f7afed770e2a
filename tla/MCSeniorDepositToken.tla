------------------------ MODULE MCSeniorDepositToken ------------------------
(***************************************************************************)
(* Model values for checking SeniorDepositToken with TLC.                  *)
(***************************************************************************)
EXTENDS SeniorDepositToken, TLC

\* Users are interchangeable; only safety is checked.
Sym == Permutations(Users)
=============================================================================
