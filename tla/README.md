# Voyage contracts in TLA+

Voyage finances the purchase of an NFT: the buyer pays one instalment, the senior
tranche of a liquidity pool lends the rest, the NFT stays in the buyer's vault as
collateral until the loan is paid, and a junior tranche takes the first loss when it is
not.  The contracts are half of the repository; the other half is the TypeScript that
deploys them, sets up reserves and creates and funds vaults.  This directory models the
lending core, the senior tranche's withdrawal queue, the diamond that routes all calls and
its upgrades, the administration of reserves, the deployment pipeline, the tasks and
scripts that set up reserves, and vaults with the tasks that fund them.  It checks them with
TLC on small instances, and proves with TLAPS, for every value of the constants, every
safety property that a passing run checks (some under a hypothesis that section 4 states),
and among them two refinements: the diamond implements a table of selectors, and the tasks
that create vaults implement the registry.  Liveness is checked by TLC alone.

File names below are relative to `src/contracts/` (Solidity) or `src/` (TypeScript).

## 1. The system

| Component | State | Operations | Talks to |
|---|---|---|---|
| Lending, `voyage/facets/LoanFacet.sol` | none of its own | `buyNow`, `buyNowV2`, views | LibLoan, tranches (cash out and interest in), vault (pay, wrap), oracle, marketplace |
| Loan ledger, `voyage/libraries/LibLoan.sol`, `LibAppStorage.sol` | `BorrowData` per vault, `BorrowState` per collection, `nftIndex` | `initDebt`, `firstRepay`, `repay`, `closeDebt`, `releaseLien`, write-downs | called by the three lending facets |
| Repayment, `voyage/facets/RepaymentFacet.sol` | none | `repay` | LibLoan, vault, tranches, treasury |
| Liquidation, `voyage/facets/LiquidateFacet.sol` | none | `liquidate` | LibLoan, oracle, both tranches, treasury, vault, liquidator |
| Vaults, `vault/Vault.sol`, `voyage/facets/VaultFacet.sol`, `LibVault.sol` | ETH, WETH, NFTs; owner-to-vault map | create, withdraw NFT, transfer and wrap money, approve | driven only through the diamond |
| Senior token, `voyage/tokenization/SeniorDepositToken.sol` | shares, queue, totals | deposit, mint, withdraw, redeem, claim, transfer | reads debt from LoanFacet; lends through `transferUnderlyingTo` |
| Junior token, `JuniorDepositToken.sol` | shares | the ERC-4626 operations | as above |
| ERC-4626 base, `shared/tokenization/ERC4626.sol` | none | conversions and default handlers | inherited by both tokens |
| Pool, `voyage/facets/LiquidityFacet.sol`, `LibLiquidity.sol` | `ReserveData` | `initReserve`, (de)activate, deposit, withdraw | tokens |
| Oracle, `voyage/infra/PriceOracle.sol`, `facets/OracleFacet.sol` | last TWAP | `updateTwap`, `verifyMessage` | read by lending and liquidation |
| Configuration, `facets/ConfigurationFacet.sol`, `LibReserveConfiguration.sol` | one packed word per collection | setters | read by lending and liquidation |
| Rate strategy, `voyage/strategy`, `WadRayMath.sol` | fixed curve | `calculateBorrowRate` | called by `_initializeLoan` |
| Authorisation, `voyage/auth`, `LibSecurity.sol`, `SecurityFacet.sol` | roles, capabilities, pause flag | grant, revoke, pause | modifiers of every facet |
| Diamond, `shared/diamond`, `src/deploy/007_facets.ts` | selector table with two indices, owner | `diamondCut`, `facets`, `transferOwnership`; the script that deploys a release | routes every call |
| Configurator, `deployments/VoyageReserveConfigurator.sol` | none | `initReserves` in batches | pool, configuration |
| Gas sponsorship, `shared/gsn` | none | `preRelayedCall`, `postRelayedCall` | `Vault.refundGas` |
| Marketplace adapters, `voyage/adapter` | none | decode an order, build the purchase call | LoanFacet |
| Networks, `helpers/task-helpers/{addresses,chain}.ts`, `hardhat.config.ts` | none | which chain a command runs on, and the address it uses there | every script and task |
| Deployment pipeline, `deploy/`, `tasks/migration/voyage.dev.ts` | saved deployments and ABIs; everything on chain that is configured once | ten scripts, `deploy:dev`, the configuration tasks, the test fixture | diamond, configuration, paymaster |
| Reserve setup, `tasks/dev/initialize-reserve.ts` and others, `scripts/` | none of its own: it reads the chain | `dev:initialize-reserve`, `dev:bootstrap`, single calls, numbered scripts and their runner | pool, configuration, oracle, tokens |
| Vault funding, `tasks/dev/{create-vault,bootstrap-user,poc}.ts`, `helpers/task-helpers/vault.ts` | none | create, fund, bootstrap; wrap and unwrap | VaultFacet, WETH9 |
| Operation tasks, `tasks/helpers/{claim,withdraw,repay-loan,buy-now}.ts` | none | one call each | the facets |

There are two kinds of hard behaviour.  Contract code runs as transactions of one chain: a
call runs to its end or reverts and leaves nothing.  Here they are not thread interleavings but long
sequences of legal calls by many parties (several loans of a vault, administrators who
change parameters while loans are open, depositors who queue while others claim), running
totals which are only ever added to and subtracted from, roundings that disagree with one
another, storage slots read after they were deleted, and a settlement waterfall with many
partial cases.  The TypeScript has the other kind: a script is a sequence of transactions
with reads between them, so it can die half way, run twice at once, act on what it read
before another process changed it, or go on before a transaction it did not wait for is
mined; and its only remedy is to be run again, over whatever is there.  `PROJECT.json` lists
each of these as a hazard at its line.

What makes the parts correct:

* ledger: totals agree with the loans they summarise; as long as nobody defaulted an open loan can
  be paid to its end; interest due to the tranches covers the interest owed;
* collateral: it is in the vault, flagged, and used once; it leaves only by repayment
  first, or by default;
* money: nothing is created or lost, what passes through the diamond leaves nothing there and takes
  nothing that was sent there for nothing, and loss falls on the junior tranche first;
* queue: totals agree with entries, loans leave queued cash alone, a claim settles, nobody
  gains by rounding;
* diamond: the indices are inverse to each other after any cuts, a cut acts as a whole, and
  the next release can always be deployed;
* administration: setters of one packed word leave each other's fields alone, the list of
  reserves is exact;
* deployment: a run that completes has brought everything up to date and configured it,
  whatever earlier runs left behind; a run that died can be repeated; the saved ABI never
  names a function the diamond has lost; runs do not end a pause by accident;
* reserve setup: a reserve is activated after its terms are set; a task that ends has done all
  of it; a repeated task comes to an end;
* vaults: one vault for each owner, never replaced; what is sent ahead to an address is there
  when the vault is created at it; a repeated task creates the vault in the end, if the protocol has a treasury;
* still to be modelled: only capable callers act (authorisation); gas is paid by the vault
  that spent it and no more (sponsorship).

## 2. Modules

| Module | Models | Extends |
|---|---|---|
| `PercentageMath` | `percentMul`, `percentDiv`, the hand-written clamp | Integers |
| `LoanBook` | the lending core: 14 variables, one action per handler | PercentageMath |
| `LoanBookTotals` | invariants that relate running totals, loans and books | LoanBook |
| `InterestRate` | ray arithmetic, the borrow rate, `previewInterest` | Integers |
| `MCLoanBook` | constants and symmetry for TLC; the curve over a grid | LoanBookTotals, InterestRate |
| `ERC4626` | share and asset conversions | Integers |
| `SeniorDepositToken` | the senior token and its queue | ERC4626 |
| `MCSeniorDepositToken` | symmetry for TLC | SeniorDepositToken |
| `SelectorTable` | what `diamondCut` and a deployment promise, on a plain table | SequencesExt |
| `Diamond` | `LibDiamond`, its facets and the deployment script; implements `SelectorTable` | SequencesExt |
| `MCDiamond` | cuts by hand and releases for TLC | Diamond |
| `ReserveAdministration` | the configuration word, reserves, their list, the configurator | FiniteSetsExt |
| `MCReserveAdministration` | field values and symmetry for TLC | ReserveAdministration |
| `Networks` | chains, forks, and the address tables the TypeScript reads | Integers, Sequences |
| `Deployment` | the deployment scripts and what runs them, over releases, crashes and pauses | Networks |
| `MCDeployment` | networks and releases for TLC | Deployment |
| `ReserveSetup` | the tasks and scripts that set up and fund reserves, on a chain that mines at once or later | SequencesExt |
| `MCReserveSetup` | single calls and selections of scripts for TLC | ReserveSetup |
| `VaultRegistry` | what the protocol promises about vaults | none |
| `VaultFunding` | vaults, money, and the tasks that create and fund them; implements `VaultRegistry` | Sequences |
| `MCVaultFunding` | settings for TLC | VaultFunding |
| `NumberLemmas` | lemmas about quotients, percentages, induction, sums over finite sets, and sequences of sequences, for all the proofs | PercentageMath, SequencesExt, TLAPS |
| `LoanBookProofs` (with the totals and the rates), `SeniorDepositTokenProofs`, `DiamondProofs`, `ReserveAdministrationProofs`, `DeploymentProofs`, `ReserveSetupProofs`, `VaultFundingProofs` | theorems and proofs | the module named, and NumberLemmas or TLAPS |

Operators called `Definition_Fault` are faulty variants of a definition.  No specification
uses them: each is a plausible bug, put in place of the definition to confirm that the
property named for it in `PROJECT.json` notices.

### LoanBook

One collection and its currency, which `initReserve` requires to be WETH.

| State | Code |
|---|---|
| `loans`, `borrowData` | `BorrowData` of each vault; a deleted slot is `NoLoan`, all zeros |
| `borrowState`, `repayRecord` | `BorrowState` |
| `lien` | the NFTs whose `nftIndex` entry has `isCollateral` |
| `holder` | `ownerOf` in the NFT contract: a vault or `Outside` |
| `cash` | WETH of the two tokens, the treasury and the diamond; also the diamond's ETH |
| `weth`, `eth` | balances of each vault |
| `world` | net amount sellers, liquidators, depositors and owners have received |
| `given` | history: what the diamond was sent for nothing |
| `twap`, `conf`, `now` | oracle, configuration fields that lending reads, block time |

An action is a successful transaction, and every condition that reverts is a guard,
including checked subtraction.  Subtraction that the model leaves unguarded is subtraction
that the type invariant shows never goes below zero.  `Borrow` is `_validateLiquidity`,
`_initializeLoan` and `_executeBuyNow` in one step; `BuyNow` and `BuyNowV2` add their price
checks.  `Liquidate` is the whole of `liquidate`: it works with the vault's totals, and, since
`releaseLien` deletes the loan before `closeDebt` reads it, leaves `borrowData` as it was.

The diamond is nobody's account, but money reaches it.  `buyNow`, `buyNowV2` (`LoanFacet.sol:142`, `:194`)
and `wrapVaultETH` (`VaultFacet.sol:125`) are payable and forward no `msg.value` (`sent`); `transferETH` and
`transferCurrency` take any recipient (`EthRecipients`, `WethRecipients`: a vault, the treasury, the diamond, for WETH
a tranche, anybody outside); and its `receive` takes ETH from anybody (`GiftStep`).  `unwrapWETH9` unwraps all the WETH
the diamond has, so a purchase in ETH turns such WETH into ETH, which stays (`DiamondEthAfter`).  Nothing
takes it out again: `StrayMoneyStays`.

Abstractions:

* `Interests` stands for what `calculateBorrowRate` and `previewInterest` yield: any member
  may come out for any loan.  Both are in `InterestRate`, on their own.
* `Pendings` stands for what `totalUnbondingAsset` returns.
* `avgBorrowRate` is left out.  It feeds no decision except the division by the remaining
  debt in `firstRepay`, which is kept as a guard, and the subtraction before it
  (`LibLoan.sol:244`).  That one is checked and rounded, so it may make a purchase revert which
  the model lets through.  (`repay` has the same subtraction with a clamp.)
* `approve` and allowances, the pause flag, roles, signatures and the contents of
  marketplace orders are left out; an order is its price, NFT and currency.  The whole
  price always reaches the seller.
* liquidators and depositors have unlimited funds (`world` may go below zero).
* Repayment history (`repayments`, `totalPrincipalPaid`, `totalInterestPaid`) is only
  reported by views and is left out.
* `Configure` sets any configuration in one step; a sequence of setters is several of
  them.  Time is counted in days, so the TWAP's staleness is too.
* `StartTime` exceeds every grace period, as the time stamp of any real block does.  That
  matters: a deleted loan is due at 0.

### InterestRate

No state: `RayMul` and `RayDiv` with their rounding, `CalculateBorrowRate` as one operator for each
step of the handler, `PreviewInterest`.  `Ray` is a constant, so TLC takes 100 for what is 10^27.
`MCLoanBook` states as assumptions, which TLC evaluates, that both roundings return the
nearest integer (a definition without division) and that the rate moves the right way.
Overflow at 256 bits is left out.

### SeniorDepositToken

`balances` are the inherited ERC-20 balances, queued shares included; `Free(u)` is what the
token's own `balanceOf` returns, and `Held(u)` that it returns at all.  The loan side is
an environment that `Lend`s within what `_validateLiquidity` allows, `Collect`s, `WriteDown`s,
and `Gain`s by plain transfer; it knows only the sum owed.  It allows more than LoanBook does:
a purchase whose first interest comes back in the same transaction is a `Lend` followed by
a `Collect`.  Bounds on cash, debt, supply and the queue's total are constants and appear
in the guards of the actions that raise them.  Neither the `_receiver` argument (the code
ignores it and pays the owner) nor allowances are modelled.

### Diamond and SelectorTable

| State | Code |
|---|---|
| `ds.facetOf`, `ds.position` | `selectorToFacetAndPosition` |
| `ds.selectorsOf`, `ds.facetPosition` | `facetFunctionSelectors` |
| `ds.facetAddresses`, `owner` | the fields of the same names |

A cut goes through its batches and each batch through its selectors, in the code's order, as
a function of how many are done.  The operators take and return the whole storage; `None` in
its place is a transaction that reverted, or a constructor that did.  `Registered`, `Pushed`, `Popped` and `Unlisted` are the four array updates, kept
apart because `ReplaceFunction` interleaves them: the new facet is registered once before the
loop, and the old one may leave the list in it.  `Deploy` computes `DeployCuts` from `facets()`
and sends them (`FacetCuts` for one facet, `RemovedSelectors` for what is not released any more); owner, script and chain are taken to be in step, so nobody cuts between the
script's reading and its transaction.  Uint16 positions do not wrap, as the facets of a
diamond cannot reach 2^16.  What InitDiamond does to the application's storage is in
`Deployment`; here it is only whether the initialiser may run.

`SelectorTable` keeps one function from selectors to facets.  A batch is allowed when its
selectors are distinct and all free, all served elsewhere, or all served; a release leaves
exactly its own functions and the diamond's.  `ImplementsTable` maps the table to what
`facets()` shows, not to `facetOf`, so it covers the arrays too.

### ReserveAdministration

A configuration word is the set of the positions of its one bits, which makes 256-bit masks
and shifts exact.  `Low` and `Width` are read off the mask constants and the getters.  `Valid` is
the setter's check; values from outside are chosen at both edges of each field.  `given` is
a history variable, the value each setter last accepted, so that what a field reads can be
compared with what was put in it.  `InitReserves` is one transaction: all of its setters
accept or nothing happens.  The flags `frozen` and `borrowing enabled` have no setter in use;
the protocol fee, marketplace adapters and GSN addresses are stored as given and left out.

The word's `active` bit is set and cleared here.  No lending handler reads it, so it is
no guard in LoanBook either.

### Networks and Deployment

`Networks` has one operator for each look-up of `helpers/task-helpers/addresses.ts` and
`chain.ts`.  A table of addresses is reduced to whether it has an entry for the chain, which is
all that decides whether a script goes on.

| State | Code |
|---|---|
| `net` | the network, the chain id behind it and `FORK` in the environment |
| `source` | the artifacts compiled from the repository, as version numbers |
| `saved`, `abi` | `deployments/<network>`: the latest instance of each artifact; the functions in `Voyage.json` |
| `diamond`, `paymaster` | what the contracts on chain are configured with |
| `run` | the process that runs scripts or a task: what it has still to do, what it remembers |

A script is a sequence of steps, one for each effect it waits for, and between any two the
process may die (`Crash`).  `Applies` says whether a step has anything to do (hardhat-deploy
skips what is unchanged, `007_facets.ts` skips a cut without changes), `Possible` whether it
succeeds; an impossible step ends the run (`Abort`), as the exception does.  The process
remembers two things: the ABI that `007_facets.ts` read as the base of the merge, and whether
this run deployed the paymaster.  `Release` changes artifacts in the repository, `Pause` and
`Unpause` are an administrator's.  A cut runs `InitDiamond.init`, with all it does to the
configuration, the pause flag included.  The facets' selectors stand for one function each;
`Diamond` has cuts in detail.

### ReserveSetup

`chain` is the mined state the tasks read; `pool` the transactions sent and not yet mined.  A task
is the sequence of steps it has left.  `Send` waits until the transaction is mined and
throws if it reverts; `SendOnly` does not wait (`configuration.ts` and two setters of
`initialize-reserve.ts` are called without `tx.wait()`).  Either one fails when gas estimation on
the mined state does.  With `mining = "auto"` a transaction is mined as it is sent; with
`"interval"` `Mine` does it later, also after the process has died.  A call carries the collection it was
sent for beside the one it names, since `initialize-reserve.ts:144` activates Crab whatever it was asked for, and the
history field `bare` of a reserve marks an activation that was for another one or by hand.  The status of a reserve is
read once (`Status`) and decides the steps that follow.  A numbered script that builds on things
no script creates (an NFT that was bought, another reserve) may pass or fail there (`Needs`).

### VaultRegistry and VaultFunding

`VaultRegistry` keeps the owner-to-vault map: a vault is recorded for an owner who has
none, and never again touched.  `VaultFunding` has the balances of every address, the map,
`weth9` (the currency, which is part of a vault's address), and any number of processes.  A
vault's address is [user, salt, currency], what `computeCounterfactualAddress` hashes.  `Read`
steps keep what depends on the value read, so another process may act between reading and
using it.  `MayCreate` is `createVault`: the record must be empty, the new vault must be
able to pay the gas refund, which is why tasks send it money before it exists, and the protocol
must have a treasury to be paid (`VaultFacet.sol:52`).  A new deployment has none: `deploy:dev` sets
none, so `dev:create-vault` fails there, however often it is repeated, until `dev:initialize-reserve` (in
`dev:bootstrap`), `dev:configure-treasury` or the configurator has sent `updateProtocolFee`.  `treasury` is unset at first;
`UpdateProtocolFee` sets it at any time, and unsets it where the setting has an administrator who changes things
(no task does, but `LibLiquidity.sol:89` accepts the zero address).  The test fixture initializes its reserve
first, so `StartFixture` waits for it.  The variable
`setting` fixes, for one behaviour, which tasks run, in how many processes, how blocks
are mined, and the bounds.  `Poc` ends where Bob's vault is funded (`poc.ts:187`); what `dev:poc` wraps
later goes to the pool, with operations that `LoanBook` and `SeniorDepositToken` model.

In both modules gas is free, so that amounts can be compared exactly.

## 3. Runs

| Run | Question | Bounds |
|---|---|---|
| `default` | Do custody, money, totals and the order of losses survive purchases, repayments, defaults and liquidation of any id, and gifts to the diamond? | 2 vaults, 2 NFTs, gifts up to 1 (`MaxGiven`), 2 loan ids, price 5 in 2 instalments, floor prices 2, 5 and 9 (less than, near and above the debt), 5 days, junior cash less than a whole loan |
| `terms` | Do roundings and changing terms keep an open loan from being repaid, and do they and liquidations leave books that do not cover it, or totals that drift? | 1 vault, 2 loans, prices 2 and 9, interest 0 or 4, 1, 2 or 3 instalments, chosen at any moment |
| `funds` | Is the one combined balance check enough for either currency? | 1 vault, all money movements by 1, gifts up to 1, balances up to 4 |
| `qualified` | Is what `liquidate` accepts an overdue loan? (no) | as default, one vault |
| `queue` | Does the queue keep its totals, its cash and its claims payable? | 2 holders, amounts 1 to 3, cash 5, debt 3, 4 shares, queue 4 |
| `max` | Do `maxWithdraw` and `maxRedeem` always return? (no) | as queue |
| `cuts` | Do the indices survive any cuts, does a cut act as one change, and can the next release always be deployed? | 7 selectors, 3 of them cut by hand in batches of up to 2, 7 facets with one lacking code, 3 releases, every start table reachable by them |
| `reserves` | Is the list of reserves exact, whatever fails? Do setters of the packed word leave other fields alone? | 2 collections, 2 WETH addresses, 2 strategies, batches of up to 2; in one collection each field at its smallest and largest value and ratios with bits 16, 31 and 32 |
| `ratio` | Does a field read back what its setter accepted? (no) | one collection, the same values |
| `deploy` | Does every run of the scripts that completes configure everything, and does repeating a broken one help? | 7 networks, 1 release of 4 kinds, 2 crashes anywhere, 1 run by tag or single task, pauses at any time |
| `setup` | Is a reserve set up, and only then active, whatever is broken off and repeated? | 2 collections, both as targets, 2 runs beside the repeated one, 2 crashes, deposits of 1 and 2, both kinds of mining |
| `vaults` | Does everyone get one vault, with the money sent to it, whichever processes race or die? | 2 users, up to 2 processes, 7 salts, 2 currencies, up to 4 tasks and 2 crashes, in 7 settings; the treasury set at any moment, and unset in two of the settings |

Amounts are chosen so that the roundings disagree: 5 in 2 instalments and 2 in 3 leave a
remainder, while 9 in 3 does not, an interest of 3 at half and half rounds up for the senior tranche, a
liquidation at 2 does not even cover the principal together with the junior tranche's 3,
one at 5 does with its help, and one at 9 leaves a surplus.  Two loan ids of two vaults are
enough for every kind of confusion between loans the code could make: another loan of the
same vault, the same id of another vault, a closed id, an id never used.  Two holders are
enough for one holder's claim to be hidden or paid by another's.

The cuts move a selector that shares its facet with none, one or two others, and the last
of a facet: these are all the cases of a swap-and-pop.  In the configuration word each field
is taken at all zeros and all ones beside its neighbours, so a bit that strays is seen.

`deploy` has every kind of network the configuration can name: the tests' own, a local node,
a fork, a fork whose chain id is not the local one, one of a chain without addresses,
tenderly and a public one.  The releases change a facet only, an implementation behind a
beacon only, the diamond, and the paymaster with an adapter.  Two crashes can fall
between any two steps: the run that repairs what the first left may be broken off itself.
The settings of `vaults` divide what one
state space would not hold: two processes at once while the currency changes; every task one
after the other; `dev:bootstrap-user` over the remains of `dev:poc`; an owner who repeats
`dev:create-vault` next to another process.  `Target` is above what Bob starts with (`BobETH`) and
`PocDeposit` is not 0, so that `dev:bootstrap-user` has something to give after `dev:poc` has wrapped and spent, and
two crashes let it give twice what is not wrapped (`BootstrapGivesOnce`).  Seven salts are as many as the crashes, the
competing task and the retries of two processes can use up, so `OwnerGetsVault` is not
satisfied by running out of salts, nor refuted by it.  That is why the operator of `Retry` repeats the task only
when there is a treasury; what a task run before that does (`StartTask`), namely fail in its
last call, `FundingOrdered` says.

Deadlock checking is off in the lending and queue runs because the bounds on time and
amounts stop the models; in `cuts` because ownership may be given to the zero address, as
`transferOwnership` allows; and in `deploy`, `setup` and `vaults` because the operator may have
finished.  It is on in `reserves`.

Liveness and fairness.  The contracts start nothing by themselves, and no caller is obliged
to call, so for them no fairness would be justified; what progress needs is stated as
safety: before a default an open loan can be paid to its end (`RepaymentsAccepted`), a claim does not revert
(`ClaimNeverReverts`), a capped withdrawal does not either (`CapIsWithdrawable`).  For the
processes it is justified, and `FairSpec` of the three modules assumes no more than:

* `WF(RunStep)`: a process that is not killed executes its next statement;
* `WF(Mine)`: the node mines, at intervals if not at once (`hardhat.config.ts:69`);
* `WF(StartDeploy)`, `WF(Retry)`: the operator runs a task that failed again.  This is the
  only recovery the code has, and what it is worth is what `RetriesComplete` and
  `OwnerGetsVault` say.

A crash is under no fairness, and bounded.  No release is taken to be the last: `StartDeploy` is
enabled again by each.  `RetriesComplete` of `Deployment` excepts the one thing that repeating
does not repair (see below).

Three runs are expected to fail, each on a statement of the repository:

* `qualified`: `LiquidateFacet.sol:67` announces a check that the debt qualifies.  It
  passes for closed and unused ids, whose due date reads 0, and the handler then takes
  whatever the vault owes in total.
* `ratio`: `LibReserveConfiguration.sol:44` and `src/test/reserve_configuration.spec.ts:56` accept
  an optimal liquidity ratio of up to 32 bits.  Its field has 16, the getter truncates it, and
  the rest is added to `maxTwapStaleness`.  `FieldsIndependent` states how far this reaches.
* `max`: `shared/interfaces/IERC4626.sol:185` and `:237` say `maxWithdraw` and `maxRedeem` must not
  revert.  They do for a holder who transferred shares that are queued.

Other things the models show.  None of these contradicts a sentence of the repository, or
none that a run of its own is spent on; each is in a model as the code has it, and the
properties above are stated around it.

* `principalBalance` (`LoanFacet.sol:249`, "total outstanding principal") keeps the remainder of
  dividing each loan by its instalments: it is never billed and never removed.
  `RoundingDustBounded` says how much it is.
* `LibLoan.sol:324`: a loan of one instalment, paid by `buyNow`, stays open, and no repayment ever closes
  it.  It can be repaid all the same: when the vault has other loans, the instalment comes off
  what the books hold for those.  Until the vault's first default the loan's own overpayment
  balances that; once the loan is gone, the books may fall short of the other loans.
  `BooksCoverLoans` and `RepaymentsAccepted` are stated around it.
* A liquidation takes the vault's whole totals off the collection's and leaves them on the vault's
  (`LibLoan.sol:138`).  Later the collection's `totalDebt` may be less than an instalment of any vault that
  is still open, and `repay` then reverts (`LibLoan.sol:366`); an instalment whose principal and interest round
  to zero is refused as well (`InvalidDebt`).  `RepaymentsAccepted` excepts both.
* `voyage/strategy/DefaultReserveInterestRateStrategy.sol:65`: without debt the utilization is zero, whatever the
  loan takes; the first loan of a pool always gets the base rate.
* `008_paymaster.ts:23`: forwarder and hub are set only by the run that deployed the paymaster.  A run that
  dies before leaves a paymaster with which `dev:configure-gsn`, and so every later `deploy:dev`,
  fails (`Stranded`); a run that dies between the two leaves the hub unset for good.
* `initialize-reserve.ts:144` activates the reserve of the mock collection, not of the one it was
  asked to set up, which stays inactive unless it is the mock: asked for another collection, it may
  activate the mock's reserve without terms, and it never finishes the other.  `dev:activate-reserve` looks
  for no terms either.  `TermsBeforeActivation` excepts these two calls, and `FinishedRunSetsUp` speaks of the mock.
* `configurator-initialize-reserve.ts:98` does nothing for a reserve that is initialized, so it
  does not complete one another task has left half done; and every initialization replaces
  the treasury of the whole protocol (`initialize-reserve.ts:148`).
* A deactivation still pending when its process died undoes an activation that a later run
  has read as present.
* `create-vault.ts:19` computes the address of the owner's vault whoever the user is: money for another
  user goes to an address of the owner's, and the creation then fails because the refund
  cannot be paid, unless the user has a vault already (as after `dev:poc`).
  `BootstrapTopsUp`, about `dev:bootstrap-user` that ended, is therefore met only for users who had a vault.
  A repeated task draws a new salt, so what the first sent ahead stays behind.
* `fund-vault.ts:17` sends to the zero address when the owner has no vault.
* `dev:poc` does not wait for its last wrap; on a node that mines at intervals the transfer after it fails.
* `runner.ts:32` runs `00010_fund_vault` first, as `readdirSync` sorts it.

## 4. Proofs

Every theorem is checked by TLAPS for all values of the constants that meet the module's
named assumptions.  Those are as weak as the code allows: amounts are naturals, ratios at most 100%, the
first block is later than a grace period is long (`ConstantsAssumption`), vaults, loan
numbers, configurations, holders and collections are finitely many (`FiniteAssumption`,
`SeniorAssumption`, `CollectionsFinite`), facets of a release have code and share no function
(`ReleaseAssumption`), the bounds on runs and pauses are naturals (`BoundsAssumption`), the owner and Bob are two users, no user has the address
of a vault, and no user or vault the zero address (`FundingAssumption`), what `dev:bootstrap` deposits are naturals (`AmountsAssumption`), Crab and the
collection of the scripts are collections and `None` is none (`SetupAssumption`), and tasks have
the names the code registers them by (`NamesAssumption`).

One theorem about `ReserveSetup` has a hypothesis as well, because its property is false without it; TLC
finds the counterexample when a run is given such calls.
`NoLateDeactivation`, of `EndedIsSetUp`, excludes `dev:deactivate-reserve` on a node that mines at intervals: a
deactivation still pending when its process died undoes what a later run has read as done.  The run `setup`
satisfies it.  `TermsFirst` has none: it holds for every target and for activation by hand, because
its property names the two calls that activate a reserve without its terms.
`TasksDeliver` requires that creating a vault costs something (`Refund > 0`), as it does on every
chain where gas has a price: where it costs nothing, a vault can be created at an address that nobody funded.
`FundingInOrder`, and `TasksSuffice` because of it, is about the order of calls and not about wealth: it requires that the
owner has the ETH of one grant whenever he needs it (`OwnerCanGrant`, true in every state of the run `vaults`), and
that a grant pays the refund.  That there is a treasury is not required: without one the property allows the
creation to fail, and nothing else.  The other two parts of `TasksSuffice` need neither.

| Module | Theorem | Statement |
|---|---|---|
| `LoanBookProofs` | `TypeCorrect` | `Spec => []TypeOK` |
| | `CustodyKept` | `Spec => []CollateralInCustody` |
| | `CollateralNeverSlips` | `Spec => CollateralLeavesOnDefault` |
| | `CombinedCheckKept` | `Spec => []CombinedCheckSuffices` |
| | `StrayMoneyUntouched` | `Spec => []StrayMoneyStays` |
| | `RepaymentsNeverRefused` | `Spec => []RepaymentsAccepted` |
| | `JuniorTakesFirstLoss` | `Spec => JuniorLosesFirst` |
| | `MoneyIsConserved` | `Spec => []MoneyConserved` |
| | `DebtStaysSumOfBooks` | `Spec => []DebtIsSumOfBooks` |
| | `BooksStayMatched` | `Spec => []BooksMatchLoans` |
| | `InterestStaysAttributed` | `Spec => []InterestAttributed` |
| | `RateBounded` | the rate is at least the base; up to an optimum below 100%, at most base + slope + `Ray \div (Ray - optimal)`; otherwise the base itself; there is no division by zero |
| | `RateNeverFallsByLending` | the rate of a loan that takes more, over more debt, is not lower |
| | `InterestDefined` | instalments of 1 to 255 days give at least one period a year, and an interest |
| `SeniorDepositTokenProofs` | `AmountsTyped`, `TotalsExact` | `Spec => []TypeOK`, `Spec => []QueueTotals` |
| | `QueueIsCovered`, `LendingSparesQueue` | `Spec => []PendingCoversClaims`, `Spec => LoansLeaveQueueCash` |
| | `ClaimsSettle`, `CapWithdrawable` | `Spec => []ClaimNeverReverts`, `Spec => []CapIsWithdrawable` |
| | `RoundingFavoursPool` | `Spec => NoDilution` |
| | `OnlyTransferTakesQueued` | `Spec => OnlyTransferUnlocks` |
| `DiamondProofs` | `StorageTyped` | `Spec => []TypeOK` |
| | `IndicesStayInverse` | `Spec => []IndicesInverse` |
| | `ImmutableFunctionsStay` | `Spec => ImmutableStays` |
| | `UpgradesGoThrough` | `Spec => []UpgradeNeverBlocked` |
| | `DiamondImplementsTable` | `Spec => ImplementsTable`: `Diamond` implements `SelectorTable` |
| `ReserveAdministrationProofs` | `AdministrationTyped` | `Spec => []TypeOK` |
| | `ReservesStayListed` | `Spec => []ReservesListedOnce` |
| | `FieldsStayIndependent` | `Spec => []FieldsIndependent` |
| `DeploymentProofs` | `PipelineConsistent` | `Spec => []DeploymentConsistent` |
| | `RunsConfigure` | `Spec => []CompletedRunConfigures` |
| | `PauseStays` | `Spec => PauseOutlivesRuns` |
| `ReserveSetupProofs` | `SetupTypes` | `Spec => []TypeOK` |
| | `TermsFirst` | `Spec => []ReservesConsistent` |
| | `EndedIsSetUp` | `NoLateDeactivation` implies `Spec => []FinishedRunSetsUp` |
| | `WholeRunFinds` | `Spec => []ScriptsInOrder` |
| `VaultFundingProofs` | `FundingConsistent` | `Spec => []VaultsConsistent` |
| | `VaultsStayOwned` | `Spec => []OneVaultPerOwner` |
| | `ImplementsRegistry` | `Spec => RegistrySpec`: `VaultFunding` implements `VaultRegistry` |
| | `TasksDeliver` | `Refund > 0` implies `Spec => []FinishedTasksDeliver` |
| | `TasksLeaveVault`, `CreatedVaultsAreFunded`, `PocNeverLoses` | its three parts; the first whatever a creation costs |
| | `TasksSuffice` | `Refund <= Grant` implies `Spec /\ []OwnerCanGrant => []AccountsSuffice` |
| | `BootstrapReaches`, `BootstrapGives`, `FundingInOrder` | its three parts; the first two are `Spec => []BootstrapTopsUp` and `Spec => []BootstrapGivesOnce` |

### Induction and sums

The library's induction theorems take an operator as parameter, which the provers cannot
instantiate.  `NumberLemmas` states induction about sets instead, from the well-foundedness
of the naturals: `AllNaturals` (a set with 0 and all successors holds every natural),
`RunKeeps` and `RunFollows` (what each step of a run keeps holds at its end) and
`FiniteSubsets` (a set of sets that grows by one element holds every finite set).  A user writes the induction
hypothesis as a set and names it.  With these, recursive functions can be reasoned about:
`SumUnfolds` shows that the fold behind `SumFunction` exists and unfolds over any finite set, and
`SumSplit`, `SumChanged`, `SumCovers`, `SumAtMost`, `SumOfSums` and `SumOfQuotients` are what the
proofs below use.  `AfterCuts`, `DeployCuts` and `SetFields` are written as recursive functions
for that reason.

### The lending core

*TypeCorrect.*  `TypeOK` is inductive by itself.  The work is in `Liquidate` and `Borrow`: a lemma
per ledger operator gives its type, `PercentMulBounded` shows that a share of interest is
at most the interest, `QuotientBounded` that an instalment is at most the loan, and
`SettlementType` that the vault can pay, which rests on the combined balance check.
Every later proof starts from `TypeOK`.

*CustodyKept.*  That collateral is locked and in the vault is not inductive: a repayment
could free an NFT another loan relies on, a purchase could overwrite a loan's slot and
leave its NFT flagged for ever.  `CollateralInCustody` adds that no NFT secures two loans, that
each flag belongs to an open loan, and that loan numbers not handed out yet are unused.
The four parts together are inductive, given `TypeOK`.

*CollateralNeverSlips.*  Only `WithdrawNFT` and `Liquidate` move an NFT out of a vault.  The first
is barred by the flag.  For the second, custody finds the loan, and the auxiliary invariant
`DueDateMatches` turns the stored due date into the number of instalments paid.

*StrayMoneyUntouched.*  What `liquidate` distributes is what it collects (`ProceedsPaidOut`); a purchase in ETH turns the diamond's
WETH into ETH and changes the sum of the two by `msg.value` only.  Every other way in is counted by `given`.

*JuniorTakesFirstLoss.*  By cases on the step: lending moves principal from cash to debt and
adds interest, repayment moves it back, and a liquidation that recovers less than the debt
has taken all the junior cash and paid it no interest (`ShortfallTakesAllJunior`).

*MoneyIsConserved.*  One vault takes part in a step.  `CashIsFive` writes the contracts' cash as five
summands, `MoneyMoved` replaces the sum over the vaults by the change of that vault; a lemma for each
handler then balances what it debits and credits, through wrapping, tranches and treasury.

*DebtStaysSumOfBooks.*  Only a default breaks the equality, because `closeDebt` reads a loan that was deleted.
Before the first one every handler moves both sides alike (`DebtMoved`).

*BooksStayMatched.*  By vault: `Gap(v)` is what the books hold beyond the open loans.  The strengthening
`LoansShaped` says that a loan's instalment is the `nper`-th part of its principal and that one
is left to pay.  A purchase leaves the gap as it is, so does an instalment that is not the
last (`GapMoved`); the last one leaves `principal % nper` (`LastInstalment`), at most `MaxNper - 1`,
and counts the loan as paid.  A liquidation counts a default and deletes a loan that does not
owe less than nothing (`NeverOverpaid`), which is where loans of one instalment have to be excepted.

*RepaymentsNeverRefused.*  Two of its checks are of the vault's books, two of the collection's totals.  For the books,
`DuesBooked` strengthens `BooksCoverLoans` to interest and fee as well: of each, the books hold at least what the
instalments left of all open loans add up to, so they hold the next one of each (`InstalmentCovered`).  For the totals,
`InterestIsSumOfBooks` is `DebtIsSumOfBooks` for interest, so that a total covers the books of each
vault (`VaultCovered`).  All of these hold until a default.

*InterestStaysAttributed.*  The tranches' shares of a loan's interest add up to it when it is
booked; reductions clamp the tranches at zero, and never take more than the total loses.

### The withdrawal queue

`TypeOK` and `QueueTotals` are inductive only together (`Totalled`): an entry may be subtracted from a total
because the total is the sum it is part of (`TotalCovers`).  Each total changes by what the one
entry changes by (`TotalChanged`).

*QueueIsCovered.*  A claim is the minimum of an entry's two values; the sum of minima is at
most each of the two sums, and the sum of quotients at most the quotient of the sum (`SumOfQuotients`).
*LendingSparesQueue* follows with what `_validateLiquidity` leaves.

*ClaimsSettle, CapWithdrawable.*  `BurnRoundsUp` is the least number of shares worth an amount, `WorthRoundsDown` the
largest amount some shares are worth: a partial claim burns no more than is queued
(`ReductionBacked`), and the amount `maxWithdraw` allows no more than is free.

*RoundingFavoursPool.*  Each of the four conversions keeps the ratio of assets to shares from falling,
as an inequality of products (`RatioKept`).

### The diamond

`Sound(X)` is the inductive invariant of a storage in the middle of a cut: routes, positions and selector arrays
are inverse to one another, and the list has the facets that serve a selector together with those in `X`,
each at the position kept for it.  `X` is needed because a facet is registered before it
gets its first selector, and in `replaceFunctions` an old facet may leave in between.  `PushedSound`, `PoppedSound`,
`UnlistedSound` and `RegisteredSound` are the four array updates, `SelectorStep` one selector of a cut,
`SelectorsRun` the loop over them, `CutsRun` the loop over batches.

Along the same runs the routing table is compared with the abstract one.  `AllowedMeans` says that the
conditions met one selector after the other amount to the condition `BatchAllowed` on the
whole batch (repeated selectors included), `CutStep` that a batch reverts exactly when it is not
allowed, and otherwise ends in `AfterBatch`.  So `CutsFollowTable`, and the refinement for cuts.

*ImmutableFunctionsStay.*  An allowed batch does not change where a selector of the diamond itself goes (`BatchKeepsSelf`).

*UpgradesGoThrough.*  `LoupeMeans` shows that the table the script reads through `facets()` is the routing table,
whichever order the list is in, and `ThoseKept` and `FlattenRun` what its filters leave.  `Reaching` is the invariant of
the script's loop over facets: the cuts so far do not revert unless an immutable function is in the
way, and afterwards the selectors of the facets done are theirs, while all the others are as
before but for the removed ones (`ReachingStart` for the removal, `ReachingStep` for one facet).  At the end this is
what `SelectorTable` calls an upgrade (`UpgradeStep`).  `ReleaseAssumption` is used here only.

### Administration

*ReservesStayListed.*  `ReservesListedOnce` is inductive beside the types it speaks of.  Both ways of
initializing extend the list by collections that are not on it, because they were not
initialized: `ConcatDistinct` says that the longer list repeats nothing.

*FieldsStayIndependent.*  `Good` is the set of pairs of a word and the values its setters accepted for which the property
holds.  `Layout` checks the masks against each other, `GetOwn` and `GetOther` say what a getter reads after a setter,
`GetOptimal` the one exception; `SetFieldsRun` follows the setters of one call, and `BatchKeepsWords` those of
`InitReserves`.  The invariant is `Administered`.

### The deployment pipeline

`PipelineInv` is inductive: `Types`, `Progress`, `Chained`, and the property of completed runs itself.

*RunsConfigure.*  A completed run must have left its release configured, whatever earlier runs
left behind, and a run that finds a record skips the step that wrote it.  Steps
therefore get a rank (`Rank`): contracts, grants, roles, the cut, the save.  For each thing a run promises,
`Progress` says that the step is still to do, or that it is settled: the thing is so, and no step of a
lower rank is left.  `EarlierDone` gives what is settled when a
step of some rank is executed, `TailKeeps` that the steps behind the first keep their order.
`Launch` establishes this for every command (`FlattenPhase`: a selection of tags,
flattened, has its phases in the order of the files).  Between the cut and the save, the artifact with the
merged ABI is the one the cut was computed from (`AtCut`), so that the saved ABI is that of the
routes (`AtMerge`).  With no step left, everything is settled (`FinishConfigures`).

*PipelineConsistent.*  The saved ABI is stale only if something it has is routed elsewhere.  A cut routes what the
same run has deployed, and the run, or a later one that completes, saves the ABI afterwards;
until then the file holds no more than the core functions, because `saveCoreABI` comes first (`Settled` for that
step).  `Chained` adds that a diamond that routes something is saved and has the network's WETH.

*PauseStays.*  A paused diamond routes `SecurityFacet` (the last part of `Chained`), because only that facet pauses
and no release drops it.  A new diamond routes nothing, and a cut is made only where a route differs
from the saved facet (`ChangesDetected`): either way a reset pause comes with changed routes (`PauseStep`).

### Rates

`NearestLargest` makes each rounded quotient the
largest integer whose product stays below a bound, so quotients compare as products do; a
chain of monotonicity lemmas follows the steps of the computation.

### Setting up reserves

What a process has left to do, what it has sent, and what is mined are three places where a transaction can be,
and it moves between them also after its process has died.  Each invariant says of the three together what
holds of every prefix.  `StepForms` sorts the steps of `Next` by what they do to the three (send, read and
expand, pass over, leave, end, mine, begin), and each invariant has a lemma for each of these forms.

*SetupTypes.*  `Typed` adds to `TypeOK` what every step left and every pending call is made of.

*TermsFirst.*  `Ordered` says that in front of every activation there are the three terms of its reserve: in
the steps of the process (`Prepares`, counting the pool and the chain), in the pool (`Orders`, counting the
chain), and on chain, where an activation that `bare` marks is left out: `Proper` tells the two apart by the
collection a call was sent for.  A transaction that is mined moves from one list to the next without changing what is in
front of it; terms are never taken back.

*EndedIsSetUp.*  `Working` says of a running `dev:initialize-reserve` or `dev:bootstrap` that each of its goals is done,
pending, or still to be sent, or the status is still to be read.  Passing over what was read as
done keeps this only if nothing undoes it later, which is `Quiet`.  A call that is neither awaited nor estimated
again is nevertheless mined when the run ends, because the last step of each task is awaited and the pool is mined
in order.  `Closed` carries the goals from there to the next run.

*WholeRunFinds.*  `Serial` gives each script's calls a rank (`FlattenPieces`: the steps left are in order of rank).
The reserve of the scripts, the approval and the wrapping are done, awaited, or in front of the calls
that need them.  What an earlier process left pending may still spend WETH, but the runner waits for its own
wrapping, which is mined behind that; from then on the WETH covers the spending calls left (`Enough`).

### Vaults

*VaultsStayOwned, ImplementsRegistry.*  What `createVault` itself checks is not enough: the call
must also be one for a user, with a salt in range, or the vault would belong to nobody.  The
invariant therefore says of everything that may still be sent (steps a process has left,
steps that depend on a value not yet read, transactions in the pool) that it is such a call
(`SafeSteps`, `SafePool`).  There is a lemma for each task and for each continuation of a read,
whatever was read; with them every step of `VaultFunding` records one vault by the rules
of the registry, or leaves it alone (`StepKeeps`).

*FundingConsistent.*  `SafeCall` also says that a call names known accounts and moves a natural amount, and
that a read yields a value of the kind its continuation expects (`ValueTyped`).  Then a
transaction that would overdraw its sender reverts, and every other keeps balances natural
(`ExecuteMoney`).  `WaitInv` adds that a process waits only while its transaction is in the pool: mining
and an automatic answer wake it (`AnswerWaits`), and no other process removes what it waits for (`StepWaits`).

The three parts of *TasksDeliver* need to know whose money goes where.  `RunInv` says that a salt belongs to the one
process that drew it; `TodoInv` and `PoolInv` that everything a process has still to do, or has
sent, pays only vaults that exist, addresses with its salt, or addresses with the salt 0, and that what concerns its own
salt is awaited.  So no other process, dead or alive, touches an address with this salt (`Undisturbed`).

*TasksLeaveVault.*  `MakerInv`: as long as the user has no vault, a task that creates one has still to look for it, to create
it, or to hear of the transaction that does (`Provides`).  `NextMaker` shows it of each form of step.

*CreatedVaultsAreFunded.*  The address is computed once, before anything is sent, and by `createVault` again, after the
currency may have been changed.  `FundsInv` follows `dev:create-vault` through six stages, from `Begun` to `Done`: `v`, the address
computed, is the only one with this salt that has any ETH (`Only`), and what was sent to it is there or
awaited.  A creation at any other address cannot pay the refund, so what is created is `v` (`RunCalls`).
A finished run's vault keeps what it has (`Delivered`).

*PocNeverLoses.*  As long as the currency stays, Bob's one address with the salt 0 is the only one of his that ever gets ETH
(`BobInv`), so his vault, which `TasksLeaveVault` says he has, is at it.

*FundingInOrder.*  A process that is alone (`Alone`) is followed through the steps of `dev:create-vault`
(`Follows`): what the owner lacks of the WETH is wrapped by a transaction in front of the one the process waits for (`WethComing`),
and what else is pending is its own and takes no WETH from him (`AloneInv`, `Background`).  When the awaited ETH has
been mined, so has the wrapping, which the owner could pay; then the transfer succeeds, and the creation has its refund; only a treasury may be missing.

*BootstrapReaches.*  On a node that mines at once, a process that is alone is the only one whose steps count (`SingleSteps`).  `BootAt`
follows `dev:bootstrap-user` through five stages by the steps it has left: what an earlier read found missing is
missing still, so the transfer of it reaches the target, the ETH that is to be wrapped comes on top of the target
(`NeedsWrap`), and nothing after that takes any from the user.  A read leads to the next stage (`BootAsks`), and so does a
call (`BootSends`); with no steps left the stage is the last, funded (`BootEnds`).

*BootstrapGives.*  The bound itself is not inductive: between the second transfer of ETH and its wrapping the user has both targets and
the ETH for the WETH.  `Within` says that he is within the limits (`Held`), or that his next step is to wrap what is above
them (`Due`).  If the process dies then, the ETH stays and the next run cannot know what it was for: that is the one
target more for each crash.  A call that is due cannot fail, so an abort leaves nothing behind
(`KeptWhenLeft`).  `Kind` tells the runs apart: `dev:poc` (`PocAt`) wraps for Bob only when it has just
created his vault, hence once (`Once`); what concerns only the owner's money or creates vaults (`QuietSteps`) gives
nothing; and for `dev:bootstrap-user` `BootAt` says what each call gives (`BootOutcome`).

### Model-checked only

* Liveness (`RetriesComplete` in two modules, `OwnerGetsVault`): it rests on fairness, and the provers
  cannot reason about `ENABLED`.
* The runs that expect a violation, whose traces are the result.

## 5. Not modelled, and the plan

Next, in this order:

1. Roles, capabilities and the callers allowed (`DSRoles`, `DSGuard`, `DSAuth`, `LibSecurity`); the pause
   flag is in `Deployment`, which handlers it stops is not modelled.
2. The junior token: `ERC4626` with immediate withdrawal, first losses, and gains.
3. An abstract lender/pool specification and its refinement: `LoanBook` composed with the
   queue, each loan step mapping to a step or a stutter of the token's environment.
4. `refundGas` and the paymaster: who pays for relayed calls.  The refund that creation
   pays is in `VaultFunding`.

Left out for good: marketplace adapters (decoding of foreign order formats), signature
recovery, views, mocks, the tests themselves, and tasks that print, or make one call of an
operation modelled elsewhere (`claim`, `withdraw`, `repay-loan`, `buy-now`, `mint-nft`,
`withdraw-nft`).
