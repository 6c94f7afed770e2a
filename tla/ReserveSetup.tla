----------------------------- MODULE ReserveSetup -----------------------------
(***************************************************************************)
(* Setting up reserves with the tasks of tasks/dev and tasks/helpers and   *)
(* the numbered scripts. One operator key sends every transaction. A task  *)
(* reads the mined state and sends transactions; most are awaited, some    *)
(* are not; sending fails when the call would revert on the mined state.   *)
(* Transactions that were sent are mined in order, also after the process  *)
(* that sent them is gone; with automine, at once.                         *)
(* For the properties, an activation names in x the collection whose       *)
(* set-up sends it (None: it was asked for on its own), and a reserve is   *)
(* "bare" when it was inactive and the activation belonged to no set-up of *)
(* its own.  No code reads either.                                         *)
(***************************************************************************)
EXTENDS Integers, SequencesExt, FiniteSets, FiniteSetsExt

CONSTANTS Collections, Crab, Fixed,   \* Crab: the deployed mock; Fixed: the one named in the scripts
          Targets,        \* collections that tasks are asked to set up
          Tasks,          \* tasks the operator runs
          Manual,         \* single calls the operator makes through a task, by mining mode
          Selections,     \* what is chosen from the menu of scripts
          Mining,         \* mining modes of the node: "auto", "interval"
          Junior, Senior, \* amounts that dev:bootstrap deposits
          MaxCrashes, MaxRuns, None
ASSUME SetupAssumption == {Crab, Fixed} \subseteq Collections /\ Targets \subseteq Collections /\ None \notin Collections
ASSUME AmountsAssumption == {Junior, Senior} \subseteq Nat
TaskNames == {"initialize-reserve", "configurator-initialize-reserve", "bootstrap"}
ManualNames ==
  {"loan", "staleness", "tolerance", "activate", "deactivate", "treasury", "oracle", "configurator",
   "strategy", "deposit"}
Treasuries == {"owner", "treasury", "multisig"}
ASSUME NamesAssumption ==
  /\ Tasks \subseteq TaskNames /\ \A m \in Mining : Manual[m] \subseteq ManualNames
  /\ None \notin TaskNames \cup ManualNames \cup Treasuries \cup {"runner"}

VARIABLES chain,      \* mined state
          pool,       \* transactions sent and not mined, in nonce order
          mining,     \* mining mode of this behaviour
          run,        \* the process in progress
          finished,   \* the last run, if it reached its end
          runs, crashes
vars == <<chain, pool, mining, run, finished, runs, crashes>>

Fields == {"bonus", "income", "loan", "liquidity", "staleness", "tolerance"}
Tranches == {"junior", "senior"}

-----------------------------------------------------------------------------
(* Calls: whether one succeeds on a state, and the state it leaves. *)

Call(fn, c, x) == [fn |-> fn, c |-> c, x |-> x]

Succeeds(call, ch) ==
  CASE call.fn = "initReserve" -> ~ch.reserves[call.c].initialized
    [] call.fn = "initReserves" -> ch.configurator /\ ~ch.reserves[call.c].initialized
    [] call.fn \in {"setInterestRateStrategyAddress", "withdraw"} -> ch.reserves[call.c].initialized
    [] call.fn = "deposit" ->
         ch.reserves[call.c].initialized /\ ch.approved /\ ch.weth >= call.x.amount
    [] call.fn = "transfer" -> ch.weth >= call.x
    [] OTHER -> TRUE

Result(call, ch) ==
  CASE call.fn = "initReserve" -> [ch EXCEPT !.reserves[call.c].initialized = TRUE]
    [] call.fn = "initReserves" ->
         [ch EXCEPT !.reserves[call.c] =
                      [initialized |-> TRUE, active |-> TRUE, bare |-> FALSE, set |-> Fields],
                    !.treasury = call.x]
    [] call.fn = "set" -> [ch EXCEPT !.reserves[call.c].set = @ \cup {call.x}]
    [] call.fn = "activateReserve" ->
         [ch EXCEPT !.reserves[call.c].active = TRUE,
                    !.reserves[call.c].bare =
                       call.x # call.c /\ (@ \/ ~ch.reserves[call.c].active)]
    [] call.fn = "deactivateReserve" -> [ch EXCEPT !.reserves[call.c].active = FALSE]
    [] call.fn = "updateProtocolFee" -> [ch EXCEPT !.treasury = call.x]
    [] call.fn = "updateTwap" -> [ch EXCEPT !.twap = @ \cup {call.c}]
    [] call.fn = "authorizeConfigurator" -> [ch EXCEPT !.configurator = TRUE]
    [] call.fn = "wrap" -> [ch EXCEPT !.weth = @ + call.x]
    [] call.fn = "transfer" -> [ch EXCEPT !.weth = @ - call.x]
    [] call.fn = "approve" -> [ch EXCEPT !.approved = TRUE]
    [] call.fn = "deposit" ->
         [ch EXCEPT !.weth = @ - call.x.amount, !.tranches[call.c][call.x.tranche] = @ + call.x.amount]
    [] OTHER -> ch

-----------------------------------------------------------------------------
(* Tasks, as the steps that remain. *)

Send(call) == <<[op |-> "send", call |-> call, await |-> TRUE]>>
SendOnly(call) == <<[op |-> "send", call |-> call, await |-> FALSE]>>
SetField(c, field) == Call("set", c, field)
SetTwap(c) == Send(Call("updateTwap", c, None))
ReadStatus(task, c) == <<[op |-> "status", task |-> task, c |-> c]>>
When(condition, steps) == IF condition THEN steps ELSE <<>>

\* dev:initialize-reserve, after it has read the status of the reserve.
InitializeReserve_ActivatesFirst(c, status) ==
  When(~status.initialized, Send(Call("initReserve", c, None)))
    \o When(~status.active, Send(Call("activateReserve", Crab, c)))
    \o Send(SetField(c, "bonus")) \o Send(SetField(c, "income")) \o Send(SetField(c, "loan"))
    \o Send(SetField(c, "liquidity"))
    \o SendOnly(SetField(c, "staleness")) \o SendOnly(SetField(c, "tolerance"))
    \o Send(Call("updateProtocolFee", None, "owner")) \o SetTwap(c)
InitializeReserve_NotAwaited(c, status) ==
  When(~status.initialized, Send(Call("initReserve", c, None)))
    \o Send(SetField(c, "bonus")) \o Send(SetField(c, "income")) \o Send(SetField(c, "loan"))
    \o Send(SetField(c, "liquidity"))
    \o SendOnly(SetField(c, "staleness")) \o SendOnly(SetField(c, "tolerance"))
    \o When(~status.active, Send(Call("activateReserve", Crab, c)))
    \o Send(Call("updateProtocolFee", None, "owner")) \o SendOnly(Call("updateTwap", c, None))
InitializeReserve_Again(c, status) ==
  Send(Call("initReserve", c, None))
    \o Send(SetField(c, "bonus")) \o Send(SetField(c, "income")) \o Send(SetField(c, "loan"))
    \o Send(SetField(c, "liquidity"))
    \o SendOnly(SetField(c, "staleness")) \o SendOnly(SetField(c, "tolerance"))
    \o When(~status.active, Send(Call("activateReserve", Crab, c)))
    \o Send(Call("updateProtocolFee", None, "owner")) \o SetTwap(c)
InitializeReserve(c, status) ==
  When(~status.initialized, Send(Call("initReserve", c, None)))
    \o Send(SetField(c, "bonus")) \o Send(SetField(c, "income")) \o Send(SetField(c, "loan"))
    \o Send(SetField(c, "liquidity"))
    \o SendOnly(SetField(c, "staleness")) \o SendOnly(SetField(c, "tolerance"))
    \o When(~status.active, Send(Call("activateReserve", Crab, c)))
    \o Send(Call("updateProtocolFee", None, "owner")) \o SetTwap(c)

\* dev:configurator-initialize-reserve
ConfiguratorInitialize(c, status) ==
  When(~status.initialized, SendOnly(Call("initReserves", c, "treasury")))

\* scripts/0001_create_reserve.ts
CreateReserve(c, status) ==
  When(~status.initialized, Send(Call("initReserve", c, None)))
    \o Send(SetField(c, "bonus")) \o Send(SetField(c, "income")) \o Send(SetField(c, "loan"))
    \o When(~status.active, Send(Call("activateReserve", c, c)))

AfterStatus(task, c, status) ==
  CASE task = "initialize-reserve" -> InitializeReserve(c, status)
    [] task = "configurator-initialize-reserve" -> ConfiguratorInitialize(c, status)
    [] task = "create_reserve" -> CreateReserve(c, status)

\* liquidity.ts: wraps what is missing, approves when it has to, deposits.
Deposit(c, tranche, amount) ==
  <<[op |-> "wrapMissing", amount |-> amount], [op |-> "approveOnce"]>>
    \o Send(Call("deposit", c, [tranche |-> tranche, amount |-> amount]))
ApproveWETH == Send(Call("approve", None, None))

Bootstrap(c) ==
  ReadStatus("initialize-reserve", c) \o ApproveWETH
    \o Deposit(c, "junior", Junior) \o Deposit(c, "senior", Senior)

TaskSteps(task, c) == IF task = "bootstrap" THEN Bootstrap(c) ELSE ReadStatus(task, c)

\* The tasks that do one thing.
DepositReserveTask(c) == Deposit(c, "junior", Junior)
SetLoanParams(c) == Send(SetField(c, "loan"))
SetTwapStaleness(c) == Send(SetField(c, "staleness"))
SetTwapTolerance(c) == Send(SetField(c, "tolerance"))
ActivateReserve(c) == Send(Call("activateReserve", c, None))
DeactivateReserve(c) == Send(Call("deactivateReserve", c, None))
ConfigureTreasury == Send(Call("updateProtocolFee", None, "multisig"))
ConfigureOracle(c) == SetTwap(c)
ConfigureConfigurator == Send(Call("authorizeConfigurator", None, None))
ConfigureInterestStrategy(c) == SendOnly(Call("setInterestRateStrategyAddress", c, None))
ManualSteps(name, c) ==
  CASE name = "loan" -> SetLoanParams(c) [] name = "staleness" -> SetTwapStaleness(c)
    [] name = "tolerance" -> SetTwapTolerance(c) [] name = "activate" -> ActivateReserve(c)
    [] name = "deactivate" -> DeactivateReserve(c) [] name = "treasury" -> ConfigureTreasury
    [] name = "oracle" -> ConfigureOracle(c) [] name = "configurator" -> ConfigureConfigurator
    [] name = "strategy" -> ConfigureInterestStrategy(c) [] name = "deposit" -> DepositReserveTask(c)

-----------------------------------------------------------------------------
(* The numbered scripts and their runner. *)

\* What a script reads or calls and none creates (an NFT, another reserve, a
\* vault that can buy): it may be there or not.
Needs(what) == <<[op |-> "needs", what |-> what]>>
FundVault == Needs("nft")
DeployVault == <<>>   \* the creation is commented out
DepositReserve ==
  Send(Call("wrap", None, 4 * Junior)) \o ApproveWETH
    \o Send(Call("deposit", Fixed, [tranche |-> "junior", amount |-> Junior]))
    \o Send(Call("deposit", Fixed, [tranche |-> "senior", amount |-> Junior]))
PreBuyNow ==
  SendOnly(Call("updateMarketPlaceData", None, None)) \o SendOnly(Call("updateTwap", "other", None))
    \o Needs("otherReserve")
BuyNow ==
  Send(Call("updateMarketPlaceData", None, None)) \o Send(Call("updateTwap", Crab, None))
    \o Needs("purchase")
WithdrawScript ==
  Send(Call("approveShares", Crab, None)) \o Send(Call("approveShares", Crab, None))
    \o SendOnly(Call("withdraw", Crab, None))
SetOracleOperator == Send(Call("setOperator", None, None))
SetMarketplaceAdapter == SendOnly(Call("updateMarketPlaceData", None, None))
UpdateOraclePrice == Send(Call("updateTwap", Fixed, None))
SendWETH == Send(Call("transfer", None, Junior))

\* In the order of readdirSync.
Script(name, steps) == [name |-> name, steps |-> steps]
Scripts_DepositsFirst ==
  <<Script("0003_deposit_reserve", DepositReserve),
    Script("0001_create_reserve", ReadStatus("create_reserve", Fixed))>>
Scripts ==
  <<Script("00010_fund_vault", FundVault),
    Script("0001_create_reserve", ReadStatus("create_reserve", Fixed)),
    Script("0002_deploy_vault", DeployVault),
    Script("0003_deposit_reserve", DepositReserve),
    Script("0004_preBuyNow", PreBuyNow),
    Script("0005_buyNow", BuyNow),
    Script("0005_withdraw", WithdrawScript),
    Script("0006_set_oracle_operator", SetOracleOperator),
    Script("0007_set_marketplace_adapter", SetMarketplaceAdapter),
    Script("0008_update_oracle_price", UpdateOraclePrice),
    Script("0009_send_weth", SendWETH)>>
ScriptNames == {s.name : s \in ToSet(Scripts)}
Runner(selection) ==
  LET chosen == IF selection = {} THEN ScriptNames ELSE selection
      Kept(s) == IF s.name \in chosen THEN s.steps ELSE <<>>
  IN FlattenSeq([i \in DOMAIN Scripts |-> Kept(Scripts[i])])

-----------------------------------------------------------------------------
NoRun == [task |-> None, on |-> None, todo |-> <<>>, waiting |-> FALSE]
Init ==
  /\ chain = [reserves |-> [c \in Collections |-> [initialized |-> FALSE, active |-> FALSE, bare |-> FALSE, set |-> {}]],
              treasury |-> None, twap |-> {}, configurator |-> FALSE, weth |-> 0, approved |-> FALSE,
              tranches |-> [c \in Collections |-> [t \in Tranches |-> 0]]]
  /\ pool = <<>>
  /\ mining \in Mining
  /\ run = NoRun
  /\ finished = None
  /\ runs = 0 /\ crashes = 0

Start(task, c, steps) ==
  /\ run.task = None
  /\ run' = [task |-> task, on |-> c, todo |-> steps, waiting |-> FALSE]
  /\ finished' = None
  /\ UNCHANGED <<chain, pool, mining, crashes>>
StartTask ==
  /\ runs < MaxRuns /\ runs' = runs + 1
  /\ \E task \in Tasks, c \in Targets : Start(task, c, TaskSteps(task, c))
StartManual ==
  /\ runs < MaxRuns /\ runs' = runs + 1
  /\ \E name \in Manual[mining], c \in Targets : Start(name, c, ManualSteps(name, c))
StartRunner ==
  /\ runs < MaxRuns /\ runs' = runs + 1
  /\ \E selection \in Selections : Start("runner", selection, Runner(selection))
\* The operator repeats dev:bootstrap for Crab until it has succeeded.
Retry ==
  /\ "bootstrap" \in Tasks
  /\ finished # [task |-> "bootstrap", on |-> Crab]
  /\ Start("bootstrap", Crab, Bootstrap(Crab)) /\ UNCHANGED runs

Ready == run.todo # <<>> /\ ~run.waiting
Next1 == Head(run.todo)
Rest == [run EXCEPT !.todo = Tail(@)]

\* Broadcasting a transaction; estimation runs it on the mined state first.
Broadcast(call, await) ==
  /\ Succeeds(call, chain)
  /\ IF mining = "auto"
       THEN chain' = Result(call, chain) /\ run' = Rest /\ UNCHANGED pool
       ELSE /\ pool' = Append(pool, call)
            /\ run' = [Rest EXCEPT !.waiting = await]
            /\ UNCHANGED chain
  /\ UNCHANGED <<mining, finished, runs, crashes>>
SendStep == Ready /\ Next1.op = "send" /\ Broadcast(Next1.call, Next1.await)
WrapMissing ==
  /\ Ready /\ Next1.op = "wrapMissing" /\ chain.weth < Next1.amount
  /\ Broadcast(Call("wrap", None, Next1.amount - chain.weth), TRUE)
ApproveOnce ==
  /\ Ready /\ Next1.op = "approveOnce" /\ ~chain.approved
  /\ Broadcast(Call("approve", None, None), TRUE)
Status ==
  /\ Ready /\ Next1.op = "status"
  /\ run' = [run EXCEPT !.todo =
               AfterStatus(Next1.task, Next1.c, chain.reserves[Next1.c]) \o Tail(@)]
  /\ UNCHANGED <<chain, pool, mining, finished, runs, crashes>>
PassOver ==
  /\ Ready
  /\ \/ Next1.op = "wrapMissing" /\ chain.weth >= Next1.amount
     \/ Next1.op = "approveOnce" /\ chain.approved
     \/ Next1.op = "needs"
  /\ run' = Rest
  /\ UNCHANGED <<chain, pool, mining, finished, runs, crashes>>

\* An exception: estimation fails, or a read does.
Fails ==
  /\ Ready
  /\ \/ Next1.op = "send" /\ ~Succeeds(Next1.call, chain)
     \/ Next1.op = "needs"
Abort ==
  /\ Fails
  /\ run' = NoRun /\ UNCHANGED <<chain, pool, mining, finished, runs, crashes>>
Finish ==
  /\ run.task # None /\ run.todo = <<>> /\ ~run.waiting
  /\ run' = NoRun /\ finished' = [task |-> run.task, on |-> run.on]
  /\ UNCHANGED <<chain, pool, mining, runs, crashes>>
Crash ==
  /\ run.task # None /\ crashes < MaxCrashes
  /\ crashes' = crashes + 1 /\ run' = NoRun
  /\ UNCHANGED <<chain, pool, mining, finished, runs>>

\* The process waits for the last transaction it sent, and throws when that
\* one reverts.
Mine ==
  /\ pool # <<>>
  /\ pool' = Tail(pool)
  /\ LET succeeds == Succeeds(Head(pool), chain)
         last == Len(pool) = 1 /\ run.waiting
     IN /\ chain' = IF succeeds THEN Result(Head(pool), chain) ELSE chain
        /\ run' = IF ~last THEN run
                  ELSE IF succeeds THEN [run EXCEPT !.waiting = FALSE]
                  ELSE NoRun
  /\ UNCHANGED <<mining, finished, runs, crashes>>

RunStep == SendStep \/ WrapMissing \/ ApproveOnce \/ Status \/ PassOver \/ Abort \/ Finish
Next == StartTask \/ StartManual \/ StartRunner \/ Retry \/ RunStep \/ Crash \/ Mine

Spec == Init /\ [][Next]_vars
\* Processes go on, blocks are mined, and the operator tries again.
FairSpec == Spec /\ WF_vars(RunStep) /\ WF_vars(Mine) /\ WF_vars(Retry)

-----------------------------------------------------------------------------
(* Properties. *)

\* Types, and the pool stays as short as what is sent without waiting.
TypeOK ==
  /\ chain.weth \in Nat
  /\ \A c \in Collections : chain.reserves[c].set \subseteq Fields
  /\ mining = "auto" => pool = <<>> /\ ~run.waiting
  /\ run.waiting => pool # <<>>

\* An active reserve has its terms: whatever tasks and scripts were run for
\* whatever collections, broken off and run again, with their transactions
\* mined late, activation comes after the liquidation bonus, the income ratio
\* and the loan terms.  Two activations are excepted, those `bare` records:
\* dev:activate-reserve asks for no terms, and dev:initialize-reserve for
\* another collection activates Crab instead (initialize-reserve.ts:144).  The
\* flag is what these tasks and getReserveStatus go by; no handler of a loan
\* reads it.
TermsBeforeActivation ==
  \A c \in Collections :
    chain.reserves[c].initialized /\ chain.reserves[c].active /\ ~chain.reserves[c].bare =>
      {"bonus", "income", "loan"} \subseteq chain.reserves[c].set

\* Both together.
ReservesConsistent == TypeOK /\ TermsBeforeActivation

\* dev:initialize-reserve and dev:bootstrap for Crab, once they end, have set
\* it up completely, the transactions they do not wait for included, and
\* dev:bootstrap has funded both tranches. For another collection they end
\* without activating it: they activate Crab in its place
\* (initialize-reserve.ts:144).
FinishedRunSetsUp ==
  finished # None /\ finished.task \in {"initialize-reserve", "bootstrap"} /\ finished.on = Crab =>
    LET r == chain.reserves[finished.on]
    IN /\ r.initialized /\ r.active /\ r.set = Fields
       /\ chain.treasury # None /\ finished.on \in chain.twap
       /\ finished.task = "bootstrap" =>
            /\ chain.tranches[finished.on]["junior"] >= Junior
            /\ chain.tranches[finished.on]["senior"] >= Senior

\* Wherever runs break off and however late their transactions are mined, a
\* repeated dev:bootstrap ends.
RetriesComplete == <>[](finished = [task |-> "bootstrap", on |-> Crab])

\* In a run of all scripts ("run the scripts serially, because of
\* dependencies", runner.ts:55) the deposits find the reserve that an earlier
\* script was to create, and the last script the WETH that one wrapped, also
\* after runs of single scripts that were broken off.
ScriptsInOrder ==
  run.task = "runner" /\ run.on = {} /\ Fails =>
    ~(Next1.op = "send" /\ Next1.call.fn \in {"deposit", "transfer"})
=============================================================================
