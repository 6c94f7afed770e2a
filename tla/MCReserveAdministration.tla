----------------------- MODULE MCReserveAdministration -----------------------
(***************************************************************************)
(* Values of the configuration fields for checking ReserveAdministration.  *)
(***************************************************************************)
EXTENDS ReserveAdministration, TLC

CONSTANTS Full,  \* collections whose fields take all the values below
          Wide   \* ratios of more than 16 bits that administrators pass

\* For each field its largest value and a small or empty one; 10001 as an
\* income ratio is just too large, 2^8 as an interval as well.
AllOnes(n) == 0 .. n - 1
Bits10000 == {4, 8, 9, 10, 13}
AllValues ==
  [liquidationBonus |-> {{}, AllOnes(16)}, decimals |-> {}, active |-> {},
   incomeRatio |-> {Bits10000, Bits10000 \cup {0}},
   loanInterval |-> {{0}, AllOnes(8), {8}}, loanTerm |-> {{0}, AllOnes(16)},
   gracePeriod |-> {{}, AllOnes(8)},
   optimalLiquidityRatio |-> {{}, AllOnes(16)} \cup Wide,
   maxTwapStaleness |-> {{}, AllOnes(40)}, twapTolerance |-> {{}, AllOnes(16)}]

\* One value for each field, for the other collections.
FewValues ==
  [f \in Fields |->
     IF f \in {"loanInterval", "loanTerm", "gracePeriod"} THEN {{0}} ELSE {}]

MCFieldValues == [c \in Collections |-> IF c \in Full THEN AllValues ELSE FewValues]

MCDecimals == [c \in Currencies |-> {1, 4}]

\* One input that every setter accepts and one that the last of them rejects.
MCInput ==
  [liquidationBonus |-> AllOnes(16), incomeRatio |-> Bits10000,
   optimalLiquidityRatio |-> {31, 0}, maxTwapStaleness |-> {0},
   loanInterval |-> {0}, loanTerm |-> {1}, gracePeriod |-> AllOnes(8),
   twapTolerance |-> {0}]
MCInputs == {MCInput, [MCInput EXCEPT !.twapTolerance = {16}]}
=============================================================================
