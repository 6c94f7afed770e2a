------------------------ MODULE ReserveAdministration ------------------------
(***************************************************************************)
(* What administrators keep for each collection: the reserve and its       *)
(* configuration, which LibReserveConfiguration packs in one 256-bit word. *)
(* A word, and a value put in it, is the set of its bits that are one, so  *)
(* masking is set difference, `or' is union, and shifting adds to each     *)
(* member.  Who may call is not modelled.                                  *)
(***************************************************************************)
EXTENDS Naturals, Sequences, SequencesExt, FiniteSetsExt

CONSTANTS
  Collections,     \* NFT collections, all of them contracts
  Currencies,      \* ERC-20 tokens
  Strategies,      \* interest-rate strategies
  Oracles,         \* price oracle contracts
  DecimalsOf,      \* what decimals() of each currency returns
  FieldValues,     \* for each collection and field, the values administrators pass
  ConfiguratorInputs  \* what VoyageReserveConfigurator is given for a collection

ASSUME CollectionsFinite == IsFiniteSet(Collections)

VARIABLES
  data,         \* ReserveConfigurationMap.data of each collection
  reserve,      \* the other fields of ReserveData
  reserveList,  \* _reserveList up to _reservesCount
  weth,         \* AppStorage.WETH9
  given         \* history: the last value each setter accepted, field by field

vars == <<data, reserve, reserveList, weth, given>>

Bits == 0 .. 255

(***************************************************************************)
(* The layout: where a field's mask is zero, and what its setter accepts.  *)
(***************************************************************************)
Low ==
  [liquidationBonus |-> 0, decimals |-> 16, active |-> 24, incomeRatio |-> 116,
   loanInterval |-> 132, loanTerm |-> 140, gracePeriod |-> 156,
   optimalLiquidityRatio |-> 164, maxTwapStaleness |-> 180, twapTolerance |-> 220]

Width ==
  [liquidationBonus |-> 16, decimals |-> 8, active |-> 1, incomeRatio |-> 16,
   loanInterval |-> 8, loanTerm |-> 16, gracePeriod |-> 8,
   optimalLiquidityRatio |-> 16, maxTwapStaleness |-> 40, twapTolerance |-> 16]

Fields == DOMAIN Low
Mask(f) == Low[f] .. Low[f] + Width[f] - 1

Number(v) == MapThenSumSet(LAMBDA b : 2 ^ b, v)

\* MAX_VALID_...: the width of the field, but type(uint32).max for the optimal
\* liquidity ratio and 100% for the income ratio.
Valid(f, v) ==
  /\ v \subseteq 0 .. (IF f = "optimalLiquidityRatio" THEN 32 ELSE Width[f]) - 1
  /\ f = "incomeRatio" => Number(v) <= 10000

\* (Fault) The old value is not masked out.
SetField_NotCleared(d, f, v) == d \cup {b + Low[f] : b \in v}

SetField(d, f, v) == (d \ Mask(f)) \cup {b + Low[f] : b \in v}
GetField(d, f) == {b - Low[f] : b \in d \cap Mask(f)}

\* Setters called one after the other; assignments are pairs of field and value.
SetFields(d, assignments) ==
  LET word[i \in 0 .. Len(assignments)] ==
        IF i = 0 THEN d
        ELSE SetField(word[i - 1], assignments[i][1], assignments[i][2])
  IN  word[Len(assignments)]

Record(g, f, v) == [g EXCEPT ![f] = v]
Accepted(g, assignments) ==
  LET record[i \in 0 .. Len(assignments)] ==
        IF i = 0 THEN g
        ELSE Record(record[i - 1], assignments[i][1], assignments[i][2])
  IN  record[Len(assignments)]

Flag(b) == IF b THEN {0} ELSE {}

(***************************************************************************)
(* Actions.                                                                *)
(***************************************************************************)
NoReserve ==
  [initialized |-> FALSE, currency |-> "none", strategy |-> "none", oracle |-> "none"]

Init ==
  /\ data = [c \in Collections |-> {}]
  /\ reserve = [c \in Collections |-> NoReserve]
  /\ reserveList = <<>>
  /\ weth \in Currencies
  /\ given = [c \in Collections |-> [f \in Fields |-> {}]]

\* saveConfiguration after the setters: all of them accept their value or the
\* call reverts.
Configure(c, assignments) ==
  /\ \A i \in DOMAIN assignments : Valid(assignments[i][1], assignments[i][2])
  /\ data' = [data EXCEPT ![c] = SetFields(@, assignments)]
  /\ given' = [given EXCEPT ![c] = Accepted(@, assignments)]

SetParameter(c, f, v) ==
  /\ f \in {"liquidationBonus", "incomeRatio", "optimalLiquidityRatio",
            "maxTwapStaleness", "twapTolerance"}
  /\ Configure(c, <<<<f, v>>>>)
  /\ UNCHANGED <<reserve, reserveList, weth>>

LoanParams(epoch, term, gracePeriod) ==
  <<<<"loanInterval", epoch>>, <<"loanTerm", term>>, <<"gracePeriod", gracePeriod>>>>

\* (Fault) The interval is compared with the old term.
SetLoanParams(c, epoch, term, gracePeriod) ==
  /\ Number(epoch) <= Number(term)
  /\ Configure(c, LoanParams(epoch, term, gracePeriod))
  /\ UNCHANGED <<reserve, reserveList, weth>>

ModifyReserveStatus(c, active) ==
  /\ Configure(c, <<<<"active", Flag(active)>>>>)
  /\ UNCHANGED <<reserve, reserveList, weth>>

\* initReserve with LibLiquidity.init.  The deposit tokens are deployed exactly
\* when the reserve becomes initialized, so their own check adds nothing.
ReserveFor(currency, strategy, oracle) ==
  [initialized |-> TRUE, currency |-> currency, strategy |-> strategy, oracle |-> oracle]

\* (Fault) A reserve may be initialized again.
InitReserve_Again(c, currency, strategy, oracle) ==
  /\ currency = weth
  /\ Configure(c, <<<<"decimals", DecimalsOf[currency]>>>>)
  /\ reserve' = [reserve EXCEPT ![c] = ReserveFor(currency, strategy, oracle)]
  /\ reserveList' = Append(reserveList, c)
  /\ UNCHANGED weth

InitReserve(c, currency, strategy, oracle) ==
  /\ currency = weth
  /\ ~reserve[c].initialized
  /\ Configure(c, <<<<"decimals", DecimalsOf[currency]>>>>)
  /\ reserve' = [reserve EXCEPT ![c] = ReserveFor(currency, strategy, oracle)]
  /\ reserveList' = Append(reserveList, c)
  /\ UNCHANGED weth

\* VoyageReserveConfigurator.initReserves: for each of the batch initReserve,
\* activateReserve and the setters, in this order; one failure undoes all.
ConfiguratorCalls(input) ==
  <<<<"decimals", DecimalsOf[weth]>>, <<"active", {0}>>,
    <<"liquidationBonus", input.liquidationBonus>>,
    <<"incomeRatio", input.incomeRatio>>,
    <<"optimalLiquidityRatio", input.optimalLiquidityRatio>>,
    <<"maxTwapStaleness", input.maxTwapStaleness>>>>
  \o LoanParams(input.loanInterval, input.loanTerm, input.gracePeriod)
  \o <<<<"twapTolerance", input.twapTolerance>>>>

InitReserves(batch, inputs, strategy, oracle) ==
  LET calls(c) == ConfiguratorCalls(inputs[c]) IN
  /\ IsInjective(batch)
  /\ \A c \in ToSet(batch) :
       /\ ~reserve[c].initialized
       /\ Number(inputs[c].loanInterval) <= Number(inputs[c].loanTerm)
       /\ \A i \in DOMAIN calls(c) : Valid(calls(c)[i][1], calls(c)[i][2])
  /\ data' = [c \in Collections |->
       IF c \in ToSet(batch) THEN SetFields(data[c], calls(c)) ELSE data[c]]
  /\ given' = [c \in Collections |->
       IF c \in ToSet(batch) THEN Accepted(given[c], calls(c)) ELSE given[c]]
  /\ reserve' = [c \in Collections |->
       IF c \in ToSet(batch) THEN ReserveFor(weth, strategy, oracle) ELSE reserve[c]]
  /\ reserveList' = reserveList \o batch
  /\ UNCHANGED weth

\* (Fault) A strategy may be set before there is a reserve.
SetInterestRateStrategyAddress_Early(c, strategy) ==
  /\ reserve' = [reserve EXCEPT ![c].strategy = strategy]
  /\ UNCHANGED <<data, reserveList, weth, given>>

SetInterestRateStrategyAddress(c, strategy) ==
  /\ reserve[c].initialized
  /\ reserve' = [reserve EXCEPT ![c].strategy = strategy]
  /\ UNCHANGED <<data, reserveList, weth, given>>

\* The beacon exists only once the reserve is initialized.
UpgradePriceOracleImpl(c, oracle) ==
  /\ reserve[c].initialized
  /\ reserve' = [reserve EXCEPT ![c].oracle = oracle]
  /\ UNCHANGED <<data, reserveList, weth, given>>

UpdateWETH9(currency) ==
  /\ weth' = currency
  /\ UNCHANGED <<data, reserve, reserveList, given>>

Batches == UNION {[1 .. n -> Collections] : n \in 1 .. Cardinality(Collections)}

Next ==
  \/ \E c \in Collections :
       \/ \E f \in Fields : \E v \in FieldValues[c][f] : SetParameter(c, f, v)
       \/ \E epoch \in FieldValues[c].loanInterval, term \in FieldValues[c].loanTerm,
            gracePeriod \in FieldValues[c].gracePeriod :
            SetLoanParams(c, epoch, term, gracePeriod)
       \/ \E active \in BOOLEAN : ModifyReserveStatus(c, active)
       \/ \E currency \in Currencies, strategy \in Strategies, oracle \in Oracles :
            InitReserve(c, currency, strategy, oracle)
       \/ \E strategy \in Strategies : SetInterestRateStrategyAddress(c, strategy)
       \/ \E oracle \in Oracles : UpgradePriceOracleImpl(c, oracle)
  \/ \E batch \in Batches : \E inputs \in [ToSet(batch) -> ConfiguratorInputs],
       strategy \in Strategies, oracle \in Oracles :
       InitReserves(batch, inputs, strategy, oracle)
  \/ \E currency \in Currencies : UpdateWETH9(currency)

Spec == Init /\ [][Next]_vars

-----------------------------------------------------------------------------
(***************************************************************************)
(* Properties.                                                             *)
(***************************************************************************)
TypeOK ==
  /\ data \in [Collections -> SUBSET Bits]
  /\ \A c \in Collections :
       reserve[c] = NoReserve
         \/ reserve[c] \in [initialized : {TRUE}, currency : Currencies,
                            strategy : Strategies, oracle : Oracles]
  /\ reserveList \in Seq(Collections)
  /\ weth \in Currencies
  /\ given \in [Collections -> [Fields -> SUBSET Bits]]

\* After any calls in any order a field reads back what its setter last
\* accepted: no setter disturbs another field of the word.  Only the optimal
\* liquidity ratio does, whose setter lets 32 bits pass into a field of 16
\* (LibReserveConfiguration:174): bits 16 and up of it are added to the low
\* half of maxTwapStaleness and never to anything else.
FieldsIndependent ==
  \A c \in Collections :
    LET read == [f \in Fields |-> GetField(data[c], f)] IN
    /\ \A f \in Fields \ {"optimalLiquidityRatio", "maxTwapStaleness"} :
         read[f] = given[c][f]
    /\ read.optimalLiquidityRatio = given[c].optimalLiquidityRatio \cap 0 .. 15
    /\ given[c].maxTwapStaleness \subseteq read.maxTwapStaleness
    /\ read.maxTwapStaleness \ given[c].maxTwapStaleness \subseteq 0 .. 15

\* The list of reserves has each initialized reserve once and nothing else,
\* whether reserves were initialized alone or in batches (LiquidityFacet:39-51).
ReservesListedOnce ==
  /\ IsInjective(reserveList)
  /\ ToSet(reserveList) = {c \in Collections : reserve[c].initialized}

\* Every value a setter accepts as valid (LibReserveConfiguration:38-46) is
\* what the getter returns until the field is set again.
FieldsReadBack ==
  \A c \in Collections, f \in Fields : GetField(data[c], f) = given[c][f]
=============================================================================
