----------------------------- MODULE VaultFunding -----------------------------
(***************************************************************************)
(* Vaults and the money sent to them: the tasks that create, fund and      *)
(* bootstrap vaults, and the calls of VaultFacet, WETH9 and plain transfers *)
(* they make. A vault's address is known before the vault exists, and the  *)
(* tasks send money there first: creating the vault pays a gas refund out  *)
(* of it. Several processes run tasks at once; a process may die between   *)
(* any two steps, and transactions are mined at once or later.             *)
(***************************************************************************)
EXTENDS Integers, Sequences

CONSTANTS Users, Owner, Bob, Zero, Treasury,
          MaxSalts,           \* salts are numbered: 0 is written in the code, others are random
          Currencies, Weth,   \* values of WETH9, and the first one
          Processes,
          Settings,           \* who runs which tasks, on what kind of node (see Setting)
          OwnerETH, BobETH,   \* what the named accounts start with
          Grant,              \* sent to a vault that is to be created, ETH and WETH
          Amount,             \* dev:fund-vault, and what Bob sends his vault
          PocDeposit,         \* what dev:poc wraps for Bob
          Target,             \* balances that dev:bootstrap-user establishes
          Refund,             \* the gas refund that creation pays
          None

Fixed == 0
VaultAddresses == [user : Users, salt : 0..MaxSalts, weth9 : Currencies]
Addresses == Users \cup {Zero, Treasury} \cup VaultAddresses

TaskNames ==
  {"create-vault", "fund-vault", "fund-vault --sendeth", "deposit-weth", "unwrap-weth",
   "bootstrap-user", "poc", "fixture"}

ASSUME FundingAssumption ==
  /\ {Owner, Bob} \subseteq Users /\ Weth \in Currencies
  /\ Owner # Bob /\ Users \cap VaultAddresses = {}
  /\ Zero \notin Users \cup VaultAddresses /\ Treasury \notin Users \cup VaultAddresses
  /\ None \notin TaskNames
  /\ MaxSalts \in Nat
  /\ {OwnerETH, BobETH, Grant, Amount, PocDeposit, Target, Refund} \subseteq Nat
  /\ \A s \in Settings :
       /\ s.processes \subseteq Processes /\ s.receivers \subseteq Users
       /\ s.tasks \subseteq TaskNames /\ s.salts \in 0..MaxSalts

VARIABLES eth, weth,          \* balances
          vaultMap, vaults,   \* the vault of each user, and all vaults
          weth9, treasury,    \* the protocol's WETH9, and its treasury if it has one
          setting,            \* the setting of this behaviour: mining (at once or at
                              \* intervals), processes, tasks and receivers, whether the
                              \* currency changes, whether the operator tries again, and
                              \* the bounds on salts, runs and crashes
          pool,               \* transactions sent and not mined
          run, finished,      \* per process: the task in progress, the last one to reach its end
          drawn, runs, crashes
chainVars == <<eth, weth, vaultMap, vaults>>
bookkeeping == <<setting, finished, drawn, runs, crashes>>
vaultVars == <<chainVars, weth9, pool, run, bookkeeping>>
vars == <<vaultVars, treasury>>

-----------------------------------------------------------------------------
(* Calls. *)

\* computeCounterfactualAddress: the initialisation code, and so the address,
\* contains the owner and WETH9.
VaultAt(user, salt) == [user |-> user, salt |-> salt, weth9 |-> weth9]

SendETH(from, to, amount) == [fn |-> "sendETH", from |-> from, to |-> to, amount |-> amount]
Wrap(from, amount) == [fn |-> "deposit", from |-> from, amount |-> amount]
Unwrap(from, amount) == [fn |-> "withdraw", from |-> from, amount |-> amount]
TransferFrom(from, to, amount) ==
  [fn |-> "transferFrom", from |-> from, to |-> to, amount |-> amount]
CreateVault(user, salt) == [fn |-> "createVault", user |-> user, salt |-> salt]

\* What createVault requires: CREATE2 at a new address, a treasury, which a new
\* deployment has not, one vault per owner, and a refund the new vault can pay.
MayCreate_Unrecorded(user, salt) ==
  VaultAt(user, salt) \notin vaults /\ treasury # Zero /\ eth[VaultAt(user, salt)] >= Refund
MayCreate_Unpaid(user, salt) ==
  VaultAt(user, salt) \notin vaults /\ treasury # Zero /\ vaultMap[user] = Zero
MayCreate(user, salt) ==
  /\ VaultAt(user, salt) \notin vaults
  /\ treasury # Zero
  /\ vaultMap[user] = Zero
  /\ eth[VaultAt(user, salt)] >= Refund

Succeeds(call) ==
  \/ call.fn \in {"sendETH", "deposit"} /\ eth[call.from] >= call.amount
  \/ call.fn \in {"withdraw", "transferFrom"} /\ weth[call.from] >= call.amount
  \/ call.fn = "createVault" /\ MayCreate(call.user, call.salt)

ExecuteSendETH(call) ==
  /\ call.fn = "sendETH"
  /\ eth' = [eth EXCEPT ![call.from] = @ - call.amount, ![call.to] = @ + call.amount]
  /\ UNCHANGED <<weth, vaultMap, vaults>>
ExecuteWETH9(call) ==
  /\ \/ /\ call.fn = "deposit"
        /\ eth' = [eth EXCEPT ![call.from] = @ - call.amount]
        /\ weth' = [weth EXCEPT ![call.from] = @ + call.amount]
     \/ /\ call.fn = "withdraw"
        /\ eth' = [eth EXCEPT ![call.from] = @ + call.amount]
        /\ weth' = [weth EXCEPT ![call.from] = @ - call.amount]
     \/ /\ call.fn = "transferFrom"
        /\ weth' = [weth EXCEPT ![call.from] = @ - call.amount, ![call.to] = @ + call.amount]
        /\ UNCHANGED eth
  /\ UNCHANGED <<vaultMap, vaults>>
ExecuteCreateVault(call) ==
  /\ call.fn = "createVault"
  /\ LET v == VaultAt(call.user, call.salt)
     IN /\ vaultMap' = [vaultMap EXCEPT ![call.user] = v]
        /\ vaults' = vaults \cup {v}
        /\ eth' = [eth EXCEPT ![v] = @ - Refund, ![Treasury] = @ + Refund]
  /\ UNCHANGED weth

Execute(call) ==
  /\ Succeeds(call)
  /\ ExecuteSendETH(call) \/ ExecuteWETH9(call) \/ ExecuteCreateVault(call)

-----------------------------------------------------------------------------
(* Tasks, as the steps that remain. A read keeps the rest that depends on it. *)

Send(call) == <<[op |-> "send", call |-> call, await |-> TRUE]>>
SendOnly(call) == <<[op |-> "send", call |-> call, await |-> FALSE]>>
When(condition, steps) == IF condition THEN steps ELSE <<>>
Read(what, of, then) == <<[op |-> "read", what |-> what, of |-> of, then |-> then]>>

\* fund of task-helpers/vault.ts: wraps what the sender lacks without waiting
\* for it; with sendETH the transfer that is awaited comes after.
Fund_ETHFirst(vault, amount, sender, sendETH) ==
  When(sendETH, Send(SendETH(sender, vault, amount)))
    \o Read("weth", sender, [then |-> "wrap", amount |-> amount, sender |-> sender])
    \o Send(TransferFrom(sender, vault, amount))
Fund(vault, amount, sender, sendETH) ==
  Read("weth", sender, [then |-> "wrap", amount |-> amount, sender |-> sender])
    \o When(sendETH, Send(SendETH(sender, vault, amount)))
    \o Send(TransferFrom(sender, vault, amount))

\* Creates the vault of a user for whom getVault answered the zero address.
CreateIfNone_WhenFound(v, user, salt) == When(v # Zero, Send(CreateVault(user, salt)))
CreateIfNone_NotAwaited(v, user, salt) == When(v = Zero, SendOnly(CreateVault(user, salt)))
CreateIfNone(v, user, salt) == When(v = Zero, Send(CreateVault(user, salt)))

\* dev:create-vault: funds the address computed for the owner, whoever the user is.
CreateVaultTask(user, salt) ==
  Read("computed", [user |-> Owner, salt |-> salt], [then |-> "grant"])
    \o Read("vault", user, [then |-> "create", user |-> user, salt |-> salt])

FundVaultTask(sender, sendETH) ==
  Read("vault", Owner, [then |-> "fund", sender |-> sender, sendETH |-> sendETH])

DepositWETH(sender, amount) == Send(Wrap(sender, amount))
UnwrapWETH(account) == Read("weth", account, [then |-> "unwrap", sender |-> account])

\* dev:bootstrap-user
BootstrapUser_NoCheck(receiver, salt) ==
  Send(SendETH(Owner, receiver, Target))
    \o Read("weth", receiver, [then |-> "topUpWETH", user |-> receiver])
    \o CreateVaultTask(receiver, salt)
    \o Read("vault", receiver, [then |-> "fund", sender |-> Owner, sendETH |-> TRUE])
BootstrapUser(receiver, salt) ==
  Read("eth", receiver, [then |-> "topUpETH", user |-> receiver])
    \o Read("weth", receiver, [then |-> "topUpWETH", user |-> receiver])
    \o CreateVaultTask(receiver, salt)
    \o Read("vault", receiver, [then |-> "fund", sender |-> Owner, sendETH |-> TRUE])

\* The vault of dev:poc, with a salt that is the same in every run.
Poc_RandomSalt(salt) ==
  Read("computed", [user |-> Bob, salt |-> salt], [then |-> "firstPayment"])
    \o Read("vault", Bob, [then |-> "pocVault", salt |-> salt])
Poc(salt) ==
  Read("computed", [user |-> Bob, salt |-> Fixed], [then |-> "firstPayment"])
    \o Read("vault", Bob, [then |-> "pocVault", salt |-> Fixed])

\* The vault of the test fixture.
FixtureVault(salt) ==
  Read("computed", [user |-> Owner, salt |-> Fixed], [then |-> "empty"])
    \o SendOnly(CreateVault(Owner, Fixed))
    \o Read("vault", Owner, [then |-> "filled"])

\* What follows a read of the value v.
After(then, v) ==
  CASE then.then = "wrap" -> When(v < then.amount, SendOnly(Wrap(then.sender, then.amount - v)))
    [] then.then = "grant" -> Fund(v, Grant, Owner, TRUE)
    [] then.then = "create" -> CreateIfNone(v, then.user, then.salt)
    [] then.then = "fund" -> Fund(v, Amount, then.sender, then.sendETH)
    [] then.then = "unwrap" -> Send(Unwrap(then.sender, v))
    [] then.then = "topUpETH" -> When(v < Target, Send(SendETH(Owner, then.user, Target - v)))
    [] then.then = "topUpWETH" ->
         When(v < Target, Send(SendETH(Owner, then.user, Target - v)) \o DepositWETH(then.user, Target - v))
    [] then.then = "firstPayment" ->
         Send(SendETH(Owner, v, Grant)) \o SendOnly(SendETH(Bob, v, Amount))
    [] then.then = "pocVault" ->
         When(v = Zero, Send(CreateVault(Bob, then.salt))
                          \o Read("vault", Bob, [then |-> "pocFill"]))
    [] then.then = "pocFill" -> SendOnly(Wrap(Bob, PocDeposit)) \o SendOnly(TransferFrom(Bob, v, Amount))
    [] then.then = "empty" -> Send(SendETH(Owner, v, Grant))
    [] then.then = "filled" ->
         SendOnly(Wrap(Owner, Amount)) \o SendOnly(TransferFrom(Owner, v, Amount))
           \o SendOnly(SendETH(Owner, v, Amount))

TaskSteps(task, user, salt) ==
  CASE task = "create-vault" -> CreateVaultTask(user, salt)
    [] task = "fund-vault" -> FundVaultTask(user, FALSE)
    [] task = "fund-vault --sendeth" -> FundVaultTask(user, TRUE)
    [] task = "deposit-weth" -> DepositWETH(user, Amount)
    [] task = "unwrap-weth" -> UnwrapWETH(user)
    [] task = "bootstrap-user" -> BootstrapUser(user, salt)
    [] task = "poc" -> Poc(salt)
    [] task = "fixture" -> FixtureVault(salt)

-----------------------------------------------------------------------------
NoRun == [task |-> None, user |-> None, salt |-> None, todo |-> <<>>, waiting |-> FALSE]
Init ==
  /\ eth = [a \in Addresses |-> IF a = Owner THEN OwnerETH ELSE IF a = Bob THEN BobETH ELSE 0]
  /\ weth = [a \in Addresses |-> 0]
  /\ vaultMap = [u \in Users |-> Zero] /\ vaults = {}
  /\ weth9 = Weth /\ treasury = Zero
  /\ setting \in Settings /\ pool = <<>>
  /\ run = [p \in Processes |-> NoRun] /\ finished = [p \in Processes |-> NoRun]
  /\ drawn = 0 /\ runs = 0 /\ crashes = 0

\* A task draws its random salt, one that was not drawn before.
Start(p, task, user) ==
  /\ run[p] = NoRun /\ p \in setting.processes
  /\ drawn < setting.salts /\ drawn' = drawn + 1
  /\ run' = [run EXCEPT ![p] = [task |-> task, user |-> user, salt |-> drawn', waiting |-> FALSE,
                                todo |-> TaskSteps(task, user, drawn')]]
  /\ finished' = [finished EXCEPT ![p] = NoRun]
  /\ UNCHANGED <<chainVars, weth9, treasury, setting, pool, crashes>>
StartTask(p) ==
  /\ runs < setting.runs /\ runs' = runs + 1
  /\ \E task \in setting.tasks \ {"fixture"}, user \in setting.receivers : Start(p, task, user)
\* Fixtures run on the deployment alone, with its reserve initialized, on a node with automine.
StartFixture(p) ==
  /\ "fixture" \in setting.tasks /\ runs = 0 /\ runs' = 1 /\ setting.mining = "auto"
  /\ treasury # Zero
  /\ Start(p, "fixture", Owner)
\* The operator repeats dev:create-vault until the owner has a vault. He knows
\* that without a treasury it is in vain.
Retry(p) ==
  /\ setting.retries /\ vaultMap[Owner] = Zero /\ treasury # Zero
  /\ Start(p, "create-vault", Owner) /\ UNCHANGED runs

Ready(p) == run[p].todo # <<>> /\ ~run[p].waiting
NextStep(p) == Head(run[p].todo)
Rest(p) == [run[p] EXCEPT !.todo = Tail(@)]

Value(what, of) ==
  CASE what = "eth" -> eth[of] [] what = "weth" -> weth[of]
    [] what = "vault" -> vaultMap[of] [] what = "computed" -> VaultAt(of.user, of.salt)
ReadStep(p) ==
  /\ Ready(p) /\ NextStep(p).op = "read"
  /\ LET step == NextStep(p)
         then == After(step.then, Value(step.what, step.of))
     IN run' = [run EXCEPT ![p] = [Rest(p) EXCEPT !.todo = then \o @]]
  /\ UNCHANGED <<chainVars, weth9, treasury, pool, bookkeeping>>

\* A transaction is sent when it succeeds on the mined state.
SendNow(p) ==
  /\ Ready(p) /\ NextStep(p).op = "send" /\ setting.mining = "auto"
  /\ Execute(NextStep(p).call)
  /\ run' = [run EXCEPT ![p] = Rest(p)]
  /\ UNCHANGED <<weth9, treasury, pool, bookkeeping>>
SendLater(p) ==
  /\ Ready(p) /\ NextStep(p).op = "send" /\ setting.mining = "interval"
  /\ Succeeds(NextStep(p).call)
  /\ pool' = Append(pool, [by |-> p, call |-> NextStep(p).call])
  /\ run' = [run EXCEPT ![p] = [Rest(p) EXCEPT !.waiting = NextStep(p).await]]
  /\ UNCHANGED <<chainVars, weth9, treasury, bookkeeping>>

Fails(p) == Ready(p) /\ NextStep(p).op = "send" /\ ~Succeeds(NextStep(p).call)
Abort(p) ==
  /\ Fails(p)
  /\ run' = [run EXCEPT ![p] = NoRun]
  /\ UNCHANGED <<chainVars, weth9, treasury, pool, bookkeeping>>
Finish(p) ==
  /\ run[p].task # None /\ run[p].todo = <<>> /\ ~run[p].waiting
  /\ finished' = [finished EXCEPT ![p] = run[p]]
  /\ run' = [run EXCEPT ![p] = NoRun]
  /\ UNCHANGED <<chainVars, weth9, treasury, pool, setting, drawn, runs, crashes>>
Crash(p) ==
  /\ run[p].task # None /\ crashes < setting.crashes /\ crashes' = crashes + 1
  /\ run' = [run EXCEPT ![p] = NoRun]
  /\ UNCHANGED <<chainVars, weth9, treasury, pool, setting, finished, drawn, runs>>

\* The process that waits for its last transaction goes on, or throws when
\* the transaction reverts.
Answer(p, succeeds) ==
  IF run[p].waiting /\ ~\E i \in 2..Len(pool) : pool[i].by = p
    THEN run' = [run EXCEPT ![p] = IF succeeds THEN [@ EXCEPT !.waiting = FALSE] ELSE NoRun]
    ELSE UNCHANGED run
Mine ==
  /\ pool # <<>> /\ pool' = Tail(pool)
  /\ Execute(Head(pool).call)
  /\ Answer(Head(pool).by, TRUE)
  /\ UNCHANGED <<weth9, treasury, bookkeeping>>
MineReverted ==
  /\ pool # <<>> /\ pool' = Tail(pool)
  /\ ~Succeeds(Head(pool).call)
  /\ Answer(Head(pool).by, FALSE)
  /\ UNCHANGED <<chainVars, weth9, treasury, bookkeeping>>

\* The administrator changes the currency.
UpdateWETH9 ==
  /\ setting.changes
  /\ \E w \in Currencies \ {Weth} : weth9 = Weth /\ weth9' = w
  /\ UNCHANGED <<chainVars, treasury, pool, run, bookkeeping>>
\* He sets the treasury, in dev:initialize-reserve or dev:configure-treasury.
\* Nothing refuses the zero address: where he changes things he may unset it.
UpdateProtocolFee ==
  /\ \E t \in {Treasury, Zero} \ {treasury} : treasury' = t /\ (t = Zero => setting.changes)
  /\ UNCHANGED vaultVars

RunStep(p) == ReadStep(p) \/ SendNow(p) \/ SendLater(p) \/ Abort(p) \/ Finish(p)
Next ==
  \/ \E p \in Processes : StartTask(p) \/ StartFixture(p) \/ Retry(p) \/ RunStep(p) \/ Crash(p)
  \/ Mine \/ MineReverted \/ UpdateWETH9 \/ UpdateProtocolFee

Spec == Init /\ [][Next]_vars
\* Processes go on, blocks are mined, and the operator tries again.
FairSpec ==
  Spec /\ WF_vars(Mine \/ MineReverted)
       /\ \A p \in Processes : WF_vars(RunStep(p)) /\ WF_vars(Retry(p))

-----------------------------------------------------------------------------
(* Properties. *)

\* Types, and nobody spends what he has not.
TypeOK ==
  /\ DOMAIN eth = Addresses /\ DOMAIN weth = Addresses
  /\ \A a \in Addresses : eth[a] >= 0 /\ weth[a] >= 0
  /\ vaultMap \in [Users -> VaultAddresses \cup {Zero}] /\ vaults \subseteq VaultAddresses
  /\ setting.mining = "auto" => pool = <<>>
  /\ \A p \in Processes : run[p].waiting => \E i \in DOMAIN pool : pool[i].by = p

\* "one vault per owner": processes that found no vault at the same time, and
\* created one each, leave every vault recorded for the user it belongs to.
OneVaultPerOwner ==
  /\ \A v \in vaults : vaultMap[v.user] = v
  /\ \A u \in Users : vaultMap[u] # Zero => vaultMap[u] \in vaults /\ vaultMap[u].user = u

\* Types, money and the registry, which stay consistent together.
VaultsConsistent == TypeOK /\ OneVaultPerOwner

\* A user's vault is never replaced, as the abstract registry promises.
Registry == INSTANCE VaultRegistry WITH Vaults <- VaultAddresses
RegistrySpec == Registry!Spec

\* Tasks that create vaults do not end without one, also when another process
\* created it, and the currency was changed, in between.
TaskLeavesVault ==
  \A p \in Processes :
    /\ finished[p].task = "create-vault" => vaultMap[finished[p].user] # Zero
    /\ finished[p].task = "poc" => vaultMap[Bob] # Zero
    /\ finished[p].task = "bootstrap-user" => vaultMap[finished[p].user] # Zero

\* The vault that a run created is the one it funded. The address is computed
\* before the funding and again by createVault, after the currency may have
\* been changed; only the refund keeps it from being another one.
CreatedVaultWasFunded ==
  \A p \in Processes :
    LET f == finished[p] IN
    f.task = "create-vault" /\ vaultMap[f.user] # Zero /\ vaultMap[f.user].salt = f.salt =>
      eth[vaultMap[f.user]] >= Grant - Refund /\ weth[vaultMap[f.user]] >= Grant

\* What dev:poc sent ahead is never lost, wherever its runs were broken off: its
\* salt is fixed, so the next run finds or creates the vault at the same address
\* (as long as the currency, which the address depends on, stays).
PocRecovers ==
  ~setting.changes => \A p \in Processes : finished[p].task = "poc" =>
    \A a \in VaultAddresses \ vaults : a.user = Bob => eth[a] = 0

\* A finished dev:bootstrap-user leaves a user other than the owner with the
\* target balances and the vault funded, if transactions are mined at once and
\* no other process spends them in between: each transfer makes up for what an
\* earlier read found missing. It finishes for users who have a vault already:
\* for the others it pays the grant to an address computed for the owner, and
\* createVault finds nothing for the refund at theirs.
Single(p) == setting.mining = "auto" /\ setting.processes = {p}
BootstrapTopsUp ==
  \A p \in Processes :
    LET u == finished[p].user IN
    Single(p) /\ finished[p].task = "bootstrap-user" /\ u # Owner =>
      /\ eth[u] >= Target /\ weth[u] >= Target
      /\ eth[vaultMap[u]] >= Amount /\ weth[vaultMap[u]] >= Amount

\* However often it is broken off and repeated, it gives a user no more than
\* the targets, and one of them again for each crash; of more than that he has
\* only what he had, and what dev:poc wraps of it for his vault, once.
Had(u) == IF u = Bob /\ BobETH > Target THEN BobETH ELSE Target
Wrapped(u) == IF u = Bob THEN PocDeposit ELSE 0
BootstrapGivesOnce ==
  \A p \in Processes, u \in Users \ {Owner} :
    Single(p) /\ setting.tasks \subseteq {"create-vault", "poc", "bootstrap-user"} =>
      eth[u] + weth[u] <= Had(u) + (1 + crashes) * Target + Wrapped(u)

\* dev:create-vault sends the ETH after wrapping and waits for it, so that
\* the WETH it lacked is there when it is transferred, on any node: run for an
\* owner who has no vault, the task does not fail, unless another process spends
\* the same account's WETH, one that died left a transaction behind, or the
\* currency changes, and the address with it. On a deployment without treasury,
\* as it is until a reserve is initialized, its last call fails, and no other.
FundingOrdered ==
  crashes = 0 /\ weth9 = Weth =>
    \A p \in Processes :
      setting.processes = {p} /\ run[p].task = "create-vault" /\ run[p].user = Owner /\ Fails(p) =>
        treasury = Zero /\ NextStep(p).call.fn = "createVault"

\* What the tasks promise of vaults, whoever else runs, dies or changes things.
FinishedTasksDeliver == TaskLeavesVault /\ CreatedVaultWasFunded /\ PocRecovers

\* What they promise of accounts when one is run after the other.
AccountsSuffice == BootstrapTopsUp /\ BootstrapGivesOnce /\ FundingOrdered

\* Repeated after crashes, dev:create-vault gives the owner a vault, once a
\* treasury is set. On a new deployment each repetition fails until then.
OwnerGetsVault ==
  setting.retries /\ <>[](treasury # Zero) => <>[](vaultMap[Owner] # Zero)
=============================================================================
