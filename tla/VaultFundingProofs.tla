-------------------------- MODULE VaultFundingProofs --------------------------
(***************************************************************************)
(* VaultFunding implements VaultRegistry: however processes race, die and  *)
(* repeat tasks, a user gets at most one vault, once, and keeps it.        *)
(* Everything a process has still to do was put together from the tasks,   *)
(* so a vault is only ever created for a user, with a salt that was drawn; *)
(* createVault's own checks do the rest.  Nor does anyone spend what he    *)
(* has not, or wait for a transaction that is not on its way.              *)
(* Further: a task that creates a vault does not end without one, and the  *)
(* vault it created is the one it funded, because only the process that    *)
(* drew a salt pays the addresses with this salt.  And on accounts: the    *)
(* owner's task does not fail while he can pay the grant, and a user whom  *)
(* dev:bootstrap-user tops up ends with the targets and with no more.      *)
(***************************************************************************)
EXTENDS VaultFunding, TLAPS

Salts == 0..MaxSalts

(***************************************************************************)
(* Sequences of steps.                                                     *)
(***************************************************************************)
IsSeq(s) == \E S : s \in Seq(S)

ThenNames ==
  {"wrap", "grant", "create", "fund", "unwrap", "topUpETH", "topUpWETH", "firstPayment",
   "pocVault", "pocFill", "empty", "filled"}

\* The continuations that are given a number; the others are given an address.
OfNumber == {"wrap", "unwrap", "topUpETH", "topUpWETH"}
Answers(then) == IF then \in OfNumber THEN Nat ELSE Addresses

SafeCall(c) ==
  /\ c.fn = "createVault" => c.user \in Users /\ c.salt \in Salts
  /\ c.fn \in {"sendETH", "deposit", "withdraw", "transferFrom"}
       => c.from \in Users /\ c.amount \in Nat
  /\ c.fn \in {"sendETH", "transferFrom"} => c.to \in Addresses
SafeThen(t) ==
  /\ t.then \in ThenNames
  /\ t.then = "wrap" => t.sender \in Users /\ t.amount \in Nat
  /\ t.then \in {"fund", "unwrap"} => t.sender \in Users
  /\ t.then \in {"topUpETH", "topUpWETH"} => t.user \in Users
  /\ t.then = "create" => t.user \in Users /\ t.salt \in Salts
  /\ t.then = "pocVault" => t.salt \in Salts
SafeRead(what, of, then) ==
  IF then \in OfNumber THEN what \in {"eth", "weth"} /\ of \in Users
  ELSE \/ what = "vault" /\ of \in Users
       \/ what = "computed" /\ of.user \in Users /\ of.salt \in Salts
SafeStep(x) ==
  /\ x.op = "send" => SafeCall(x.call) /\ x.await \in BOOLEAN
  /\ x.op = "read" => SafeThen(x.then) /\ SafeRead(x.what, x.of, x.then.then)
SafeSteps(s) == IsSeq(s) /\ \A i \in 1..Len(s) : SafeStep(s[i])

LEMMA EmptySafe == SafeSteps(<<>>)
<1>1. <<>> \in Seq({})
  OBVIOUS
<1>2. QED
  BY <1>1 DEF SafeSteps, IsSeq

LEMMA OneSafe ==
  ASSUME NEW x, SafeStep(x)
  PROVE  SafeSteps(<<x>>)
<1>1. <<x>> \in Seq({x}) /\ Len(<<x>>) = 1 /\ <<x>>[1] = x
  OBVIOUS
<1>2. IsSeq(<<x>>)
  BY <1>1 DEF IsSeq
<1>3. ASSUME NEW i \in 1..Len(<<x>>)
      PROVE  SafeStep(<<x>>[i])
  <2>1. i = 1
    BY <1>1
  <2>2. QED
    BY <1>1, <2>1
<1>4. QED
  BY <1>2, <1>3 DEF SafeSteps

LEMMA ConcatSafe ==
  ASSUME NEW s, NEW t, SafeSteps(s), SafeSteps(t)
  PROVE  SafeSteps(s \o t)
<1>1. PICK S : s \in Seq(S)
  BY DEF SafeSteps, IsSeq
<1>2. PICK T : t \in Seq(T)
  BY DEF SafeSteps, IsSeq
<1>3. s \in Seq(S \cup T) /\ t \in Seq(S \cup T)
  BY <1>1, <1>2
<1>4. s \o t \in Seq(S \cup T) /\ Len(s \o t) = Len(s) + Len(t) /\ Len(s) \in Nat /\ Len(t) \in Nat
  BY <1>3
<1>5. IsSeq(s \o t)
  BY <1>4 DEF IsSeq
<1>6. ASSUME NEW i \in 1..Len(s \o t)
      PROVE  SafeStep((s \o t)[i])
  <2>1. CASE i <= Len(s)
    <3>1. (s \o t)[i] = s[i] /\ i \in 1..Len(s)
      BY <1>3, <1>4, <2>1
    <3>2. QED
      BY <3>1 DEF SafeSteps
  <2>2. CASE i > Len(s)
    <3>1. (s \o t)[i] = t[i - Len(s)] /\ i - Len(s) \in 1..Len(t)
      BY <1>3, <1>4, <2>2
    <3>2. QED
      BY <3>1 DEF SafeSteps
  <2>3. QED
    BY <1>4, <2>1, <2>2
<1>7. QED
  BY <1>5, <1>6 DEF SafeSteps

LEMMA TailSafe ==
  ASSUME NEW s, SafeSteps(s), s # <<>>
  PROVE  SafeSteps(Tail(s)) /\ SafeStep(Head(s))
<1>1. PICK S : s \in Seq(S)
  BY DEF SafeSteps, IsSeq
<1>2. /\ Tail(s) \in Seq(S) /\ Len(s) \in Nat /\ Len(s) > 0 /\ Len(Tail(s)) = Len(s) - 1
      /\ Head(s) = s[1] /\ \A i \in 1..Len(Tail(s)) : Tail(s)[i] = s[i + 1]
  BY <1>1
<1>3. IsSeq(Tail(s))
  BY <1>2 DEF IsSeq
<1>4. \A i \in 1..Len(Tail(s)) : i + 1 \in 1..Len(s)
  BY <1>2
<1>5. 1 \in 1..Len(s)
  BY <1>2
<1>6. QED
  BY <1>2, <1>3, <1>4, <1>5 DEF SafeSteps

(***************************************************************************)
(* Tasks.                                                                  *)
(***************************************************************************)
LEMMA PlainCallSafe ==
  ASSUME NEW from \in Users, NEW to \in Addresses, NEW amount \in Nat
  PROVE  /\ SafeCall(SendETH(from, to, amount)) /\ SafeCall(TransferFrom(from, to, amount))
         /\ SafeCall(Wrap(from, amount)) /\ SafeCall(Unwrap(from, amount))
BY DEF SafeCall, SendETH, TransferFrom, Wrap, Unwrap

LEMMA CreateSafe ==
  ASSUME NEW user \in Users, NEW salt \in Salts
  PROVE  SafeCall(CreateVault(user, salt))
BY DEF SafeCall, CreateVault

LEMMA SendSafe ==
  ASSUME NEW call, SafeCall(call)
  PROVE  SafeSteps(Send(call)) /\ SafeSteps(SendOnly(call))
<1>1. /\ SafeStep([op |-> "send", call |-> call, await |-> TRUE])
      /\ SafeStep([op |-> "send", call |-> call, await |-> FALSE])
  BY DEF SafeStep
<1>2. QED
  BY <1>1, OneSafe DEF Send, SendOnly

LEMMA ReadSafe ==
  ASSUME NEW what, NEW of, NEW then, SafeThen(then), SafeRead(what, of, then.then)
  PROVE  SafeSteps(Read(what, of, then))
<1>1. SafeStep([op |-> "read", what |-> what, of |-> of, then |-> then])
  BY DEF SafeStep
<1>2. QED
  BY <1>1, OneSafe DEF Read

LEMMA WhenSafe ==
  ASSUME NEW condition, NEW s, SafeSteps(s)
  PROVE  SafeSteps(When(condition, s))
BY EmptySafe DEF When

\* Users are addresses, and so is what a read of an address may answer.
LEMMA AddressTypes ==
  /\ Users \subseteq Addresses /\ Owner \in Users /\ Bob \in Users /\ Zero \in Addresses
  /\ Fixed \in Salts /\ Grant \in Nat /\ Amount \in Nat /\ PocDeposit \in Nat /\ Target \in Nat
BY FundingAssumption DEF Addresses, Salts, Fixed

LEMMA FundSafe ==
  ASSUME NEW vault \in Addresses, NEW amount \in Nat, NEW sender \in Users, NEW sendETH
  PROVE  SafeSteps(Fund(vault, amount, sender, sendETH))
<1>0. sender \in Addresses
  BY AddressTypes
<1>1. /\ SafeThen([then |-> "wrap", amount |-> amount, sender |-> sender])
      /\ SafeRead("weth", sender, "wrap")
  BY DEF SafeThen, ThenNames, SafeRead, OfNumber
<1>2. SafeSteps(Read("weth", sender, [then |-> "wrap", amount |-> amount, sender |-> sender]))
  BY <1>1, ReadSafe
<1>3. SafeSteps(When(sendETH, Send(SendETH(sender, vault, amount))))
  BY <1>0, PlainCallSafe, SendSafe, WhenSafe
<1>4. SafeSteps(Send(TransferFrom(sender, vault, amount)))
  BY <1>0, PlainCallSafe, SendSafe
<1>5. QED
  BY <1>2, <1>3, <1>4, ConcatSafe DEF Fund

LEMMA CreateIfNoneSafe ==
  ASSUME NEW v, NEW user \in Users, NEW salt \in Salts
  PROVE  SafeSteps(CreateIfNone(v, user, salt))
BY CreateSafe, SendSafe, WhenSafe DEF CreateIfNone

LEMMA CreateVaultTaskSafe ==
  ASSUME NEW user \in Users, NEW salt \in Salts
  PROVE  SafeSteps(CreateVaultTask(user, salt))
<1>1. /\ SafeThen([then |-> "grant"]) /\ SafeThen([then |-> "create", user |-> user, salt |-> salt])
      /\ SafeRead("computed", [user |-> Owner, salt |-> salt], "grant")
      /\ SafeRead("vault", user, "create")
  BY AddressTypes DEF SafeThen, ThenNames, SafeRead, OfNumber
<1>2. /\ SafeSteps(Read("computed", [user |-> Owner, salt |-> salt], [then |-> "grant"]))
      /\ SafeSteps(Read("vault", user, [then |-> "create", user |-> user, salt |-> salt]))
  BY <1>1, ReadSafe
<1>3. QED
  BY <1>2, ConcatSafe DEF CreateVaultTask

LEMMA TaskStepsSafe ==
  ASSUME NEW task \in TaskNames, NEW user \in Users, NEW salt \in Salts
  PROVE  SafeSteps(TaskSteps(task, user, salt))
<1>0. /\ Owner \in Users /\ Bob \in Users /\ Fixed \in Salts
      /\ user \in Addresses /\ Amount \in Nat
  BY AddressTypes
<1>1. CASE task = "create-vault"
  BY <1>1, CreateVaultTaskSafe DEF TaskSteps
<1>2. ASSUME NEW sendETH
      PROVE  SafeSteps(FundVaultTask(user, sendETH))
  <2>1. /\ SafeThen([then |-> "fund", sender |-> user, sendETH |-> sendETH])
        /\ SafeRead("vault", Owner, "fund")
    BY <1>0 DEF SafeThen, ThenNames, SafeRead, OfNumber
  <2>2. QED
    BY <2>1, ReadSafe DEF FundVaultTask
<1>3. CASE task = "fund-vault"
  BY <1>2, <1>3 DEF TaskSteps
<1>4. CASE task = "fund-vault --sendeth"
  BY <1>2, <1>4 DEF TaskSteps
<1>5. CASE task = "deposit-weth"
  BY <1>0, <1>5, PlainCallSafe, SendSafe DEF TaskSteps, DepositWETH
<1>6. CASE task = "unwrap-weth"
  <2>1. SafeThen([then |-> "unwrap", sender |-> user]) /\ SafeRead("weth", user, "unwrap")
    BY DEF SafeThen, ThenNames, SafeRead, OfNumber
  <2>2. SafeSteps(UnwrapWETH(user))
    BY <2>1, ReadSafe DEF UnwrapWETH
  <2>3. QED
    BY <1>6, <2>2 DEF TaskSteps
<1>7. CASE task = "bootstrap-user"
  <2>1. /\ SafeThen([then |-> "topUpETH", user |-> user])
        /\ SafeThen([then |-> "topUpWETH", user |-> user])
        /\ SafeThen([then |-> "fund", sender |-> Owner, sendETH |-> TRUE])
        /\ SafeRead("eth", user, "topUpETH") /\ SafeRead("weth", user, "topUpWETH")
        /\ SafeRead("vault", user, "fund")
    BY <1>0 DEF SafeThen, ThenNames, SafeRead, OfNumber
  <2>2. /\ SafeSteps(Read("eth", user, [then |-> "topUpETH", user |-> user]))
        /\ SafeSteps(Read("weth", user, [then |-> "topUpWETH", user |-> user]))
        /\ SafeSteps(Read("vault", user, [then |-> "fund", sender |-> Owner, sendETH |-> TRUE]))
    BY <2>1, ReadSafe
  <2>3. SafeSteps(BootstrapUser(user, salt))
    BY <2>2, CreateVaultTaskSafe, ConcatSafe DEF BootstrapUser
  <2>4. QED
    BY <1>7, <2>3 DEF TaskSteps
<1>8. CASE task = "poc"
  <2>1. /\ SafeThen([then |-> "firstPayment"]) /\ SafeThen([then |-> "pocVault", salt |-> Fixed])
        /\ SafeRead("computed", [user |-> Bob, salt |-> Fixed], "firstPayment")
        /\ SafeRead("vault", Bob, "pocVault")
    BY <1>0 DEF SafeThen, ThenNames, SafeRead, OfNumber
  <2>2. /\ SafeSteps(Read("computed", [user |-> Bob, salt |-> Fixed], [then |-> "firstPayment"]))
        /\ SafeSteps(Read("vault", Bob, [then |-> "pocVault", salt |-> Fixed]))
    BY <2>1, ReadSafe
  <2>3. SafeSteps(Poc(salt))
    BY <2>2, ConcatSafe DEF Poc
  <2>4. QED
    BY <1>8, <2>3 DEF TaskSteps
<1>9. CASE task = "fixture"
  <2>1. /\ SafeThen([then |-> "empty"]) /\ SafeThen([then |-> "filled"])
        /\ SafeRead("computed", [user |-> Owner, salt |-> Fixed], "empty")
        /\ SafeRead("vault", Owner, "filled")
    BY <1>0 DEF SafeThen, ThenNames, SafeRead, OfNumber
  <2>2. /\ SafeSteps(Read("computed", [user |-> Owner, salt |-> Fixed], [then |-> "empty"]))
        /\ SafeSteps(Read("vault", Owner, [then |-> "filled"]))
    BY <2>1, ReadSafe
  <2>3. SafeSteps(SendOnly(CreateVault(Owner, Fixed)))
    BY <1>0, CreateSafe, SendSafe
  <2>4. SafeSteps(FixtureVault(salt))
    BY <2>2, <2>3, ConcatSafe DEF FixtureVault
  <2>5. QED
    BY <1>9, <2>4 DEF TaskSteps
<1>10. QED
  BY <1>1, <1>3, <1>4, <1>5, <1>6, <1>7, <1>8, <1>9 DEF TaskNames

\* What follows a read is safe, whatever was read.
LEMMA AfterSafe ==
  ASSUME NEW then, SafeThen(then), NEW v \in Answers(then.then)
  PROVE  SafeSteps(After(then, v))
<1>0. /\ Owner \in Users /\ Bob \in Users /\ Owner \in Addresses /\ Bob \in Addresses
      /\ Grant \in Nat /\ Amount \in Nat /\ PocDeposit \in Nat /\ Target \in Nat
      /\ then.then \in OfNumber => v \in Nat
      /\ then.then \notin OfNumber => v \in Addresses
  BY AddressTypes DEF Answers
<1>1. CASE then.then = "wrap"
  <2>1. then.sender \in Users /\ then.amount \in Nat /\ v \in Nat /\ Zero \in Addresses
    BY <1>0, <1>1, AddressTypes DEF SafeThen, OfNumber
  <2>2. CASE v < then.amount
    <3>1. then.amount - v \in Nat
      BY <2>1, <2>2
    <3>2. SafeSteps(SendOnly(Wrap(then.sender, then.amount - v)))
      BY <2>1, <3>1, PlainCallSafe, SendSafe
    <3>3. QED
      BY <1>1, <3>2, WhenSafe DEF After
  <2>3. CASE ~(v < then.amount)
    BY <1>1, <2>3, EmptySafe DEF After, When
  <2>4. QED
    BY <2>2, <2>3
<1>2. CASE then.then = "grant"
  BY <1>0, <1>2, FundSafe DEF After, OfNumber
<1>3. CASE then.then = "create"
  BY <1>3, CreateIfNoneSafe DEF After, SafeThen
<1>4. CASE then.then = "fund"
  BY <1>0, <1>4, FundSafe DEF After, OfNumber, SafeThen
<1>5. CASE then.then = "unwrap"
  <2>1. then.sender \in Users /\ v \in Nat /\ Zero \in Addresses
    BY <1>0, <1>5, AddressTypes DEF SafeThen, OfNumber
  <2>2. QED
    BY <1>5, <2>1, PlainCallSafe, SendSafe DEF After
<1>a. ASSUME then.then \in {"topUpETH", "topUpWETH"}, v < Target
      PROVE  SafeSteps(Send(SendETH(Owner, then.user, Target - v)))
               /\ SafeSteps(DepositWETH(then.user, Target - v))
  <2>1. then.user \in Users /\ then.user \in Addresses /\ v \in Nat
    BY <1>0, <1>a, AddressTypes DEF SafeThen, OfNumber
  <2>2. Target - v \in Nat
    BY <1>0, <1>a, <2>1
  <2>3. QED
    BY <1>0, <2>1, <2>2, PlainCallSafe, SendSafe DEF DepositWETH
<1>6. CASE then.then = "topUpETH"
  <2>1. CASE v < Target
    BY <1>6, <1>a, <2>1, WhenSafe DEF After
  <2>2. CASE ~(v < Target)
    BY <1>6, <2>2, EmptySafe DEF After, When
  <2>3. QED
    BY <2>1, <2>2
<1>7. CASE then.then = "topUpWETH"
  <2>1. CASE v < Target
    <3>1. SafeSteps(Send(SendETH(Owner, then.user, Target - v)) \o DepositWETH(then.user, Target - v))
      BY <1>7, <1>a, <2>1, ConcatSafe
    <3>2. QED
      BY <1>7, <3>1, WhenSafe DEF After
  <2>2. CASE ~(v < Target)
    BY <1>7, <2>2, EmptySafe DEF After, When
  <2>3. QED
    BY <2>1, <2>2
<1>8. CASE then.then = "firstPayment"
  <2>0. v \in Addresses
    BY <1>0, <1>8 DEF OfNumber
  <2>1. SafeSteps(Send(SendETH(Owner, v, Grant)) \o SendOnly(SendETH(Bob, v, Amount)))
    BY <1>0, <2>0, PlainCallSafe, SendSafe, ConcatSafe
  <2>2. QED
    BY <1>8, <2>1 DEF After
<1>9. CASE then.then = "pocVault"
  <2>1. SafeThen([then |-> "pocFill"]) /\ SafeRead("vault", Bob, "pocFill")
    BY <1>0 DEF SafeThen, ThenNames, SafeRead, OfNumber
  <2>2. SafeSteps(Read("vault", Bob, [then |-> "pocFill"]))
    BY <2>1, ReadSafe
  <2>3. SafeSteps(Send(CreateVault(Bob, then.salt)))
    BY <1>0, <1>9, CreateSafe, SendSafe DEF SafeThen
  <2>4. SafeSteps(Send(CreateVault(Bob, then.salt)) \o Read("vault", Bob, [then |-> "pocFill"]))
    BY <2>2, <2>3, ConcatSafe
  <2>5. QED
    BY <1>9, <2>4, WhenSafe DEF After
<1>10. CASE then.then = "pocFill"
  <2>0. v \in Addresses
    BY <1>0, <1>10 DEF OfNumber
  <2>1. SafeSteps(SendOnly(Wrap(Bob, PocDeposit)) \o SendOnly(TransferFrom(Bob, v, Amount)))
    BY <1>0, <2>0, PlainCallSafe, SendSafe, ConcatSafe
  <2>2. QED
    BY <1>10, <2>1 DEF After
<1>11. CASE then.then = "empty"
  BY <1>0, <1>11, PlainCallSafe, SendSafe DEF After, OfNumber
<1>12. CASE then.then = "filled"
  <2>0. v \in Addresses
    BY <1>0, <1>12 DEF OfNumber
  <2>1. /\ SafeSteps(SendOnly(Wrap(Owner, Amount)))
        /\ SafeSteps(SendOnly(TransferFrom(Owner, v, Amount)))
        /\ SafeSteps(SendOnly(SendETH(Owner, v, Amount)))
    BY <1>0, <2>0, PlainCallSafe, SendSafe
  <2>2. SafeSteps(SendOnly(Wrap(Owner, Amount)) \o SendOnly(TransferFrom(Owner, v, Amount))
                    \o SendOnly(SendETH(Owner, v, Amount)))
    BY <2>1, ConcatSafe
  <2>3. QED
    BY <1>12, <2>2 DEF After
<1>13. QED
  BY <1>1, <1>2, <1>3, <1>4, <1>5, <1>6, <1>7, <1>8, <1>9, <1>10, <1>11, <1>12
     DEF SafeThen, ThenNames

(***************************************************************************)
(* The inductive invariant: the registry and the currency have their       *)
(* types, and every transaction that is, or may be, sent is safe.          *)
(***************************************************************************)
RegistryInv ==
  /\ weth9 \in Currencies
  /\ vaultMap \in [Users -> VaultAddresses \cup {Zero}] /\ vaults \subseteq VaultAddresses
  /\ OneVaultPerOwner

SafePool(s) == IsSeq(s) /\ \A i \in 1..Len(s) : SafeCall(s[i].call)
SafeRun(r) ==
  {"todo", "waiting"} \subseteq DOMAIN r /\ SafeSteps(r.todo) /\ r.waiting \in BOOLEAN
WorkInv ==
  /\ setting \in Settings /\ drawn \in 0..setting.salts
  /\ SafePool(pool)
  /\ DOMAIN run = Processes /\ \A p \in Processes : SafeRun(run[p])

\* Nobody has less than nothing.
MoneyInv == eth \in [Addresses -> Nat] /\ weth \in [Addresses -> Nat]

Recorded == \E u \in Users, v \in VaultAddresses : Registry!Record(u, v) /\ v.user = u

LEMMA VaultAtAddress ==
  ASSUME weth9 \in Currencies, NEW user \in Users, NEW salt \in Salts
  PROVE  VaultAt(user, salt) \in VaultAddresses /\ VaultAt(user, salt).user = user
BY DEF VaultAt, VaultAddresses, Salts

\* A transaction records a new vault, by the rules of the registry, or leaves
\* the registry alone.
LEMMA ExecuteRecords ==
  ASSUME RegistryInv, NEW call, SafeCall(call), Execute(call)
  PROVE  UNCHANGED <<vaultMap, vaults>> \/ Recorded
<1>1. CASE ExecuteSendETH(call) \/ ExecuteWETH9(call)
  BY <1>1 DEF ExecuteSendETH, ExecuteWETH9
<1>2. CASE ExecuteCreateVault(call)
  <2>1. call.fn = "createVault" /\ call.user \in Users /\ call.salt \in Salts
    BY <1>2 DEF ExecuteCreateVault, SafeCall
  <2>2. MayCreate(call.user, call.salt)
    BY <2>1 DEF Execute, Succeeds
  <2>3. /\ VaultAt(call.user, call.salt) \in VaultAddresses
        /\ VaultAt(call.user, call.salt).user = call.user
    BY <2>1, VaultAtAddress DEF RegistryInv
  <2>4. Registry!Record(call.user, VaultAt(call.user, call.salt))
    BY <1>2, <2>2 DEF ExecuteCreateVault, MayCreate, Registry!Record
  <2>5. QED
    BY <2>1, <2>3, <2>4 DEF Recorded
<1>3. QED
  BY <1>1, <1>2 DEF Execute

\* Recording a vault keeps one vault per owner.
LEMMA RecordedKeeps ==
  ASSUME RegistryInv, Recorded, UNCHANGED weth9
  PROVE  RegistryInv'
<1>1. PICK u \in Users, v \in VaultAddresses : Registry!Record(u, v) /\ v.user = u
  BY DEF Recorded
<1>2. /\ vaultMap[u] = Zero /\ v \notin vaults
      /\ vaultMap' = [vaultMap EXCEPT ![u] = v] /\ vaults' = vaults \cup {v}
  BY <1>1 DEF Registry!Record
<1>3. vaultMap' \in [Users -> VaultAddresses \cup {Zero}] /\ vaults' \subseteq VaultAddresses
  BY <1>2 DEF RegistryInv
<1>4. vaultMap'[u] = v /\ \A w \in Users \ {u} : vaultMap'[w] = vaultMap[w]
  BY <1>2 DEF RegistryInv
<1>5. v # Zero
  BY FundingAssumption
<1>6. ASSUME NEW x \in vaults'
      PROVE  vaultMap'[x.user] = x
  <2>1. CASE x = v
    BY <1>1, <1>4, <2>1
  <2>2. CASE x \in vaults
    <3>1. vaultMap[x.user] = x /\ x # Zero /\ x.user \in Users
      BY <2>2, FundingAssumption DEF RegistryInv, OneVaultPerOwner, VaultAddresses
    <3>2. x.user # u
      BY <1>2, <3>1
    <3>3. QED
      BY <1>4, <3>1, <3>2
  <2>3. QED
    BY <1>2, <2>1, <2>2
<1>7. ASSUME NEW w \in Users, vaultMap'[w] # Zero
      PROVE  vaultMap'[w] \in vaults' /\ vaultMap'[w].user = w
  <2>1. CASE w = u
    BY <1>1, <1>2, <1>4, <2>1
  <2>2. CASE w # u
    BY <1>2, <1>4, <1>7, <2>2 DEF RegistryInv, OneVaultPerOwner
  <2>3. QED
    BY <2>1, <2>2
<1>8. OneVaultPerOwner'
  BY <1>6, <1>7 DEF OneVaultPerOwner
<1>9. QED
  BY <1>3, <1>8 DEF RegistryInv

LEMMA ExecuteKeeps ==
  ASSUME RegistryInv, NEW call, SafeCall(call), Execute(call), UNCHANGED weth9
  PROVE  RegistryInv' /\ (UNCHANGED <<vaultMap, vaults>> \/ Recorded)
<1>1. CASE UNCHANGED <<vaultMap, vaults>>
  BY <1>1 DEF RegistryInv, OneVaultPerOwner
<1>2. CASE Recorded
  BY <1>2, RecordedKeeps
<1>3. QED
  BY <1>1, <1>2, ExecuteRecords

\* A payment out of one balance, and into another or the same.
LEMMA PaymentKeeps ==
  ASSUME NEW b \in [Addresses -> Nat], NEW from \in Addresses, NEW to \in Addresses,
         NEW amount \in Nat, b[from] >= amount
  PROVE  /\ [b EXCEPT ![from] = @ - amount] \in [Addresses -> Nat]
         /\ [b EXCEPT ![from] = @ + amount] \in [Addresses -> Nat]
         /\ [b EXCEPT ![from] = @ - amount, ![to] = @ + amount] \in [Addresses -> Nat]
<1>1. b[from] - amount \in Nat /\ b[from] + amount \in Nat
  OBVIOUS
<1>2. PICK c : c = [b EXCEPT ![from] = @ - amount]
  OBVIOUS
<1>3. c \in [Addresses -> Nat]
  BY <1>1, <1>2
<1>4. c[to] + amount \in Nat
  BY <1>3
<1>5. [c EXCEPT ![to] = @ + amount] \in [Addresses -> Nat]
  BY <1>3, <1>4
<1>6. QED
  BY <1>1, <1>2, <1>3, <1>5

\* Every call is paid for by who has the money.
LEMMA ExecuteMoney ==
  ASSUME RegistryInv, MoneyInv, NEW call, SafeCall(call), Execute(call)
  PROVE  MoneyInv'
<1>0. eth \in [Addresses -> Nat] /\ weth \in [Addresses -> Nat] /\ Refund \in Nat
  BY FundingAssumption DEF MoneyInv
<1>1. CASE ExecuteSendETH(call)
  <2>1. /\ call.from \in Addresses /\ call.to \in Addresses /\ call.amount \in Nat
        /\ eth[call.from] >= call.amount
    BY <1>1, AddressTypes DEF ExecuteSendETH, SafeCall, Execute, Succeeds
  <2>2. QED
    BY <1>0, <1>1, <2>1, PaymentKeeps DEF ExecuteSendETH, MoneyInv
<1>2. CASE ExecuteWETH9(call)
  <2>1. call.fn \in {"deposit", "withdraw", "transferFrom"}
    BY <1>2 DEF ExecuteWETH9
  <2>2. call.from \in Addresses /\ call.amount \in Nat
    BY <2>1, AddressTypes DEF SafeCall
  <2>3. CASE call.fn = "deposit"
    <3>1. eth[call.from] >= call.amount
      BY <2>3 DEF Execute, Succeeds
    <3>2. /\ eth' = [eth EXCEPT ![call.from] = @ - call.amount]
          /\ weth' = [weth EXCEPT ![call.from] = @ + call.amount]
      BY <1>2, <2>3 DEF ExecuteWETH9
    <3>3. eth' \in [Addresses -> Nat]
      BY <1>0, <2>2, <3>1, <3>2, PaymentKeeps
    <3>4. weth[call.from] + call.amount \in Nat
      BY <1>0, <2>2
    <3>5. QED
      BY <1>0, <2>2, <3>2, <3>3, <3>4 DEF MoneyInv
  <2>4. CASE call.fn = "withdraw"
    <3>1. weth[call.from] >= call.amount
      BY <2>4 DEF Execute, Succeeds
    <3>2. /\ weth' = [weth EXCEPT ![call.from] = @ - call.amount]
          /\ eth' = [eth EXCEPT ![call.from] = @ + call.amount]
      BY <1>2, <2>4 DEF ExecuteWETH9
    <3>3. weth' \in [Addresses -> Nat]
      BY <1>0, <2>2, <3>1, <3>2, PaymentKeeps
    <3>4. eth[call.from] + call.amount \in Nat
      BY <1>0, <2>2
    <3>5. QED
      BY <1>0, <2>2, <3>2, <3>3, <3>4 DEF MoneyInv
  <2>5. CASE call.fn = "transferFrom"
    <3>1. weth[call.from] >= call.amount /\ call.to \in Addresses
      BY <2>5 DEF Execute, Succeeds, SafeCall
    <3>2. /\ weth' = [weth EXCEPT ![call.from] = @ - call.amount, ![call.to] = @ + call.amount]
          /\ UNCHANGED eth
      BY <1>2, <2>5 DEF ExecuteWETH9
    <3>3. QED
      BY <1>0, <2>2, <3>1, <3>2, PaymentKeeps DEF MoneyInv
  <2>6. QED
    BY <2>1, <2>3, <2>4, <2>5
<1>3. CASE ExecuteCreateVault(call)
  <2>1. call.fn = "createVault" /\ call.user \in Users /\ call.salt \in Salts
    BY <1>3 DEF ExecuteCreateVault, SafeCall
  <2>2. PICK v \in VaultAddresses : v = VaultAt(call.user, call.salt)
    BY <2>1, VaultAtAddress DEF RegistryInv
  <2>3. eth[v] >= Refund
    BY <2>1, <2>2 DEF Execute, Succeeds, MayCreate
  <2>4. v \in Addresses /\ Treasury \in Addresses
    BY <2>2 DEF Addresses
  <2>5. /\ eth' = [eth EXCEPT ![v] = @ - Refund, ![Treasury] = @ + Refund]
        /\ UNCHANGED weth
    BY <1>3, <2>2 DEF ExecuteCreateVault
  <2>6. QED
    BY <1>0, <2>3, <2>4, <2>5, PaymentKeeps DEF MoneyInv
<1>4. QED
  BY <1>1, <1>2, <1>3 DEF Execute

\* What is read is what the continuation expects.
LEMMA ValueTyped ==
  ASSUME RegistryInv, MoneyInv, NEW what, NEW of, NEW then, SafeRead(what, of, then)
  PROVE  Value(what, of) \in Answers(then)
<1>1. CASE then \in OfNumber
  BY <1>1, AddressTypes DEF SafeRead, Value, MoneyInv, Answers
<1>2. CASE then \notin OfNumber
  <2>1. VaultAddresses \cup {Zero} \subseteq Addresses
    BY DEF Addresses
  <2>2. CASE what = "vault" /\ of \in Users
    BY <1>2, <2>1, <2>2 DEF Value, Answers, RegistryInv
  <2>3. CASE what = "computed" /\ of.user \in Users /\ of.salt \in Salts
    BY <1>2, <2>1, <2>3, VaultAtAddress DEF Value, Answers, RegistryInv
  <2>4. QED
    BY <1>2, <2>2, <2>3 DEF SafeRead
<1>3. QED
  BY <1>1, <1>2

(***************************************************************************)
(* Steps.                                                                  *)
(***************************************************************************)
LEMMA NoRunSafe == SafeRun(NoRun)
BY EmptySafe DEF SafeRun, NoRun

LEMMA RunReplaced ==
  ASSUME WorkInv, NEW p \in Processes, NEW r, SafeRun(r), run' = [run EXCEPT ![p] = r]
  PROVE  DOMAIN run' = Processes /\ \A q \in Processes : SafeRun(run'[q])
BY DEF WorkInv

LEMMA PoolTail ==
  ASSUME SafePool(pool), pool # <<>>
  PROVE  SafePool(Tail(pool)) /\ SafeCall(Head(pool).call)
<1>1. PICK S : pool \in Seq(S)
  BY DEF SafePool, IsSeq
<1>2. /\ Tail(pool) \in Seq(S) /\ Len(pool) \in Nat /\ Len(pool) > 0
      /\ Len(Tail(pool)) = Len(pool) - 1 /\ Head(pool) = pool[1]
      /\ \A i \in 1..Len(Tail(pool)) : Tail(pool)[i] = pool[i + 1]
  BY <1>1
<1>3. IsSeq(Tail(pool))
  BY <1>2 DEF IsSeq
<1>4. \A i \in 1..Len(Tail(pool)) : i + 1 \in 1..Len(pool)
  BY <1>2
<1>5. 1 \in 1..Len(pool)
  BY <1>2
<1>6. QED
  BY <1>2, <1>3, <1>4, <1>5 DEF SafePool

LEMMA PoolAppend ==
  ASSUME SafePool(pool), NEW x, SafeCall(x.call)
  PROVE  SafePool(Append(pool, x))
<1>1. PICK S : pool \in Seq(S)
  BY DEF SafePool, IsSeq
<1>2. pool \in Seq(S \cup {x}) /\ x \in S \cup {x}
  BY <1>1
<1>3. /\ Append(pool, x) \in Seq(S \cup {x}) /\ Len(Append(pool, x)) = Len(pool) + 1
      /\ Len(pool) \in Nat
  BY <1>2
<1>4. IsSeq(Append(pool, x))
  BY <1>3 DEF IsSeq
<1>5. ASSUME NEW i \in 1..Len(Append(pool, x))
      PROVE  SafeCall(Append(pool, x)[i].call)
  <2>1. CASE i = Len(pool) + 1
    BY <1>2, <2>1
  <2>2. CASE i # Len(pool) + 1
    <3>1. i \in 1..Len(pool) /\ Append(pool, x)[i] = pool[i]
      BY <1>2, <1>3, <2>2
    <3>2. QED
      BY <3>1 DEF SafePool
  <2>3. QED
    BY <2>1, <2>2
<1>6. QED
  BY <1>4, <1>5 DEF SafePool

\* What a process does next is safe, and so is what it has left afterwards.
LEMMA RestSafe ==
  ASSUME WorkInv, NEW p \in Processes, Ready(p)
  PROVE  SafeRun(Rest(p)) /\ SafeStep(NextStep(p)) /\ SafeSteps(Tail(run[p].todo))
<1>1. /\ {"todo", "waiting"} \subseteq DOMAIN run[p] /\ SafeSteps(run[p].todo)
      /\ run[p].waiting \in BOOLEAN /\ run[p].todo # <<>>
  BY DEF WorkInv, SafeRun, Ready
<1>2. SafeSteps(Tail(run[p].todo)) /\ SafeStep(Head(run[p].todo))
  BY <1>1, TailSafe
<1>3. /\ {"todo", "waiting"} \subseteq DOMAIN Rest(p) /\ Rest(p).todo = Tail(run[p].todo)
      /\ Rest(p).waiting = run[p].waiting
  BY <1>1 DEF Rest
<1>4. QED
  BY <1>1, <1>2, <1>3 DEF SafeRun, NextStep

LEMMA StartKeeps ==
  ASSUME WorkInv, NEW p \in Processes, NEW task \in TaskNames, NEW user \in Users,
         Start(p, task, user)
  PROVE  WorkInv' /\ UNCHANGED <<eth, weth, vaultMap, vaults, weth9>>
<1>1. /\ setting \in Settings /\ setting.salts \in 0..MaxSalts /\ MaxSalts \in Nat
      /\ drawn \in 0..setting.salts /\ drawn < setting.salts /\ drawn' = drawn + 1
      /\ UNCHANGED <<setting, pool>>
  BY FundingAssumption DEF WorkInv, Start
<1>2. drawn' \in 0..setting.salts /\ drawn' \in Salts
  BY <1>1 DEF Salts
<1>3. DEFINE r == [task |-> task, user |-> user, salt |-> drawn', waiting |-> FALSE,
                   todo |-> TaskSteps(task, user, drawn')]
<1>4. SafeRun(r)
  BY <1>2, TaskStepsSafe DEF SafeRun
<1>5. run' = [run EXCEPT ![p] = r]
  BY DEF Start
<1> HIDE DEF r
<1>6. DOMAIN run' = Processes /\ \A q \in Processes : SafeRun(run'[q])
  BY <1>4, <1>5, RunReplaced
<1>7. QED
  BY <1>1, <1>2, <1>6 DEF WorkInv, Start, chainVars

\* The process whose transaction was mined goes on, or is given up.
LEMMA AnswerKeeps ==
  ASSUME WorkInv, NEW p, NEW succeeds \in BOOLEAN, Answer(p, succeeds)
  PROVE  DOMAIN run' = Processes /\ \A q \in Processes : SafeRun(run'[q])
<1>1. CASE UNCHANGED run
  BY <1>1 DEF WorkInv
<1>2. CASE run' = [run EXCEPT ![p] = IF succeeds THEN [@ EXCEPT !.waiting = FALSE] ELSE NoRun]
  <2>1. CASE p \in Processes
    <3>1. SafeRun(run[p])
      BY <2>1 DEF WorkInv
    <3>2. SafeRun([run[p] EXCEPT !.waiting = FALSE])
      BY <3>1 DEF SafeRun
    <3>3. SafeRun(IF succeeds THEN [run[p] EXCEPT !.waiting = FALSE] ELSE NoRun)
      BY <3>2, NoRunSafe
    <3>4. run' = [run EXCEPT ![p] = IF succeeds THEN [run[p] EXCEPT !.waiting = FALSE] ELSE NoRun]
      BY <1>2
    <3>5. QED
      BY <2>1, <3>3, <3>4, RunReplaced
  <2>2. CASE p \notin Processes
    BY <1>2, <2>2 DEF WorkInv
  <2>3. QED
    BY <2>1, <2>2
<1>3. QED
  BY <1>1, <1>2 DEF Answer

LEMMA InitInv == Init => RegistryInv /\ MoneyInv /\ WorkInv
<1>1. SUFFICES ASSUME Init
               PROVE  RegistryInv /\ MoneyInv /\ WorkInv
  OBVIOUS
<1>2. /\ vaultMap = [u \in Users |-> Zero] /\ vaults = {} /\ weth9 = Weth
      /\ setting \in Settings /\ pool = <<>> /\ drawn = 0
      /\ run = [p \in Processes |-> NoRun]
  BY <1>1 DEF Init
<1>3. RegistryInv
  BY <1>2, FundingAssumption DEF RegistryInv, OneVaultPerOwner
<1>a. MoneyInv
  BY <1>1, FundingAssumption DEF Init, MoneyInv
<1>4. drawn \in 0..setting.salts
  BY <1>2, FundingAssumption
<1>5. pool \in Seq({}) /\ Len(pool) = 0
  BY <1>2
<1>6. SafePool(pool)
  BY <1>5 DEF SafePool, IsSeq
<1>7. DOMAIN run = Processes /\ \A p \in Processes : SafeRun(run[p])
  BY <1>2, NoRunSafe
<1>8. QED
  BY <1>2, <1>3, <1>a, <1>4, <1>6, <1>7 DEF WorkInv

\* No step of a process changes the registry but by recording a vault.
LEMMA RunStepKeeps ==
  ASSUME RegistryInv, MoneyInv, WorkInv, NEW p \in Processes, RunStep(p)
  PROVE  RegistryInv' /\ MoneyInv' /\ WorkInv' /\ (UNCHANGED <<vaultMap, vaults>> \/ Recorded)
<1>1. CASE ReadStep(p)
  <2>1. Ready(p) /\ NextStep(p).op = "read"
    BY <1>1 DEF ReadStep
  <2>2. /\ SafeThen(NextStep(p).then) /\ SafeSteps(Tail(run[p].todo))
        /\ SafeRead(NextStep(p).what, NextStep(p).of, NextStep(p).then.then)
    BY <2>1, RestSafe DEF SafeStep
  <2>3. DEFINE v == Value(NextStep(p).what, NextStep(p).of)
               todo == After(NextStep(p).then, v) \o Tail(run[p].todo)
  <2>4. SafeSteps(todo)
    <3>1. v \in Answers(NextStep(p).then.then)
      BY <2>2, ValueTyped
    <3>2. SafeSteps(After(NextStep(p).then, v))
      BY <2>2, <3>1, AfterSafe
    <3>3. QED
      BY <2>2, <3>2, ConcatSafe
  <2>5. run' = [run EXCEPT ![p] = [run[p] EXCEPT !.todo = todo]]
    <3>1. Rest(p).todo = Tail(run[p].todo)
      BY DEF Rest, WorkInv, SafeRun
    <3>2. [Rest(p) EXCEPT !.todo = todo] = [run[p] EXCEPT !.todo = todo]
      BY DEF Rest
    <3>3. run' = [run EXCEPT ![p] = [Rest(p) EXCEPT !.todo = todo]]
      BY <1>1, <3>1 DEF ReadStep
    <3>4. QED
      BY <3>2, <3>3
  <2>6. {"todo", "waiting"} \subseteq DOMAIN run[p] /\ run[p].waiting \in BOOLEAN
    BY DEF WorkInv, SafeRun
  <2> HIDE DEF todo
  <2>7. SafeRun([run[p] EXCEPT !.todo = todo])
    BY <2>4, <2>6 DEF SafeRun
  <2>8. DOMAIN run' = Processes /\ \A q \in Processes : SafeRun(run'[q])
    BY <2>5, <2>7, RunReplaced
  <2>9. UNCHANGED <<eth, weth, vaultMap, vaults, weth9, pool, setting, drawn>>
    BY <1>1 DEF ReadStep, chainVars, bookkeeping
  <2>10. QED
    BY <2>8, <2>9 DEF RegistryInv, MoneyInv, WorkInv, OneVaultPerOwner
<1>2. CASE SendNow(p)
  <2>1. Ready(p) /\ NextStep(p).op = "send" /\ Execute(NextStep(p).call)
    BY <1>2 DEF SendNow
  <2>2. SafeRun(Rest(p)) /\ SafeCall(NextStep(p).call)
    BY <2>1, RestSafe DEF SafeStep
  <2>3. run' = [run EXCEPT ![p] = Rest(p)] /\ UNCHANGED <<weth9, pool, setting, drawn>>
    BY <1>2 DEF SendNow, bookkeeping
  <2>4. DOMAIN run' = Processes /\ \A q \in Processes : SafeRun(run'[q])
    BY <2>2, <2>3, RunReplaced
  <2>5. RegistryInv' /\ (UNCHANGED <<vaultMap, vaults>> \/ Recorded)
    BY <2>1, <2>2, <2>3, ExecuteKeeps
  <2>a. MoneyInv'
    BY <2>1, <2>2, ExecuteMoney
  <2>6. QED
    BY <2>3, <2>4, <2>5, <2>a DEF WorkInv
<1>3. CASE SendLater(p)
  <2>1. Ready(p) /\ NextStep(p).op = "send"
    BY <1>3 DEF SendLater
  <2>2. SafeRun(Rest(p)) /\ SafeCall(NextStep(p).call) /\ NextStep(p).await \in BOOLEAN
    BY <2>1, RestSafe DEF SafeStep
  <2>3. DEFINE r == [Rest(p) EXCEPT !.waiting = NextStep(p).await]
               tx == [by |-> p, call |-> NextStep(p).call]
  <2>4. SafeRun(r)
    BY <2>2 DEF SafeRun
  <2>5. SafeCall(tx.call)
    BY <2>2
  <2>6. run' = [run EXCEPT ![p] = r] /\ pool' = Append(pool, tx)
    BY <1>3 DEF SendLater
  <2>7. UNCHANGED <<eth, weth, vaultMap, vaults, weth9, setting, drawn>>
    BY <1>3 DEF SendLater, chainVars, bookkeeping
  <2> HIDE DEF r, tx
  <2>8. DOMAIN run' = Processes /\ \A q \in Processes : SafeRun(run'[q])
    BY <2>4, <2>6, RunReplaced
  <2>9. SafePool(pool')
    BY <2>5, <2>6, PoolAppend DEF WorkInv
  <2>10. QED
    BY <2>7, <2>8, <2>9 DEF RegistryInv, MoneyInv, WorkInv, OneVaultPerOwner
<1>4. CASE Abort(p) \/ Finish(p)
  <2>1. run' = [run EXCEPT ![p] = NoRun] /\ UNCHANGED <<chainVars, weth9, pool, setting, drawn>>
    BY <1>4 DEF Abort, Finish, bookkeeping
  <2>2. DOMAIN run' = Processes /\ \A q \in Processes : SafeRun(run'[q])
    BY <2>1, NoRunSafe, RunReplaced
  <2>3. QED
    BY <2>1, <2>2 DEF RegistryInv, MoneyInv, WorkInv, OneVaultPerOwner, chainVars
<1>5. QED
  BY <1>1, <1>2, <1>3, <1>4 DEF RunStep

LEMMA StepKeeps ==
  ASSUME RegistryInv, MoneyInv, WorkInv, [Next]_vars
  PROVE  RegistryInv' /\ MoneyInv' /\ WorkInv' /\ (UNCHANGED <<vaultMap, vaults>> \/ Recorded)
<1>1. CASE UNCHANGED vars \/ UpdateProtocolFee
  BY <1>1 DEF vars, UpdateProtocolFee, vaultVars, chainVars, bookkeeping, RegistryInv, MoneyInv, WorkInv, OneVaultPerOwner
<1>2. ASSUME NEW p \in Processes, NEW task \in TaskNames, NEW user \in Users, Start(p, task, user)
      PROVE  RegistryInv' /\ MoneyInv' /\ WorkInv' /\ UNCHANGED <<vaultMap, vaults>>
  <2>1. WorkInv' /\ UNCHANGED <<eth, weth, vaultMap, vaults, weth9>>
    BY <1>2, StartKeeps
  <2>2. QED
    BY <2>1 DEF RegistryInv, MoneyInv, OneVaultPerOwner
<1>3. ASSUME NEW p \in Processes, StartTask(p) \/ StartFixture(p) \/ Retry(p)
      PROVE  RegistryInv' /\ MoneyInv' /\ WorkInv' /\ UNCHANGED <<vaultMap, vaults>>
  <2>1. setting.tasks \subseteq TaskNames /\ setting.receivers \subseteq Users /\ Owner \in Users
    BY FundingAssumption DEF WorkInv
  <2>2. \E task \in TaskNames, user \in Users : Start(p, task, user)
    <3>1. "fixture" \in TaskNames /\ "create-vault" \in TaskNames
      BY DEF TaskNames
    <3>2. QED
      BY <1>3, <2>1, <3>1 DEF StartTask, StartFixture, Retry
  <2>3. QED
    BY <1>2, <2>2
<1>4. ASSUME NEW p \in Processes, Crash(p)
      PROVE  RegistryInv' /\ MoneyInv' /\ WorkInv' /\ UNCHANGED <<vaultMap, vaults>>
  <2>1. run' = [run EXCEPT ![p] = NoRun] /\ UNCHANGED <<eth, weth, vaultMap, vaults, weth9, pool, setting, drawn>>
    BY <1>4 DEF Crash, chainVars
  <2>2. DOMAIN run' = Processes /\ \A q \in Processes : SafeRun(run'[q])
    BY <2>1, NoRunSafe, RunReplaced
  <2>3. QED
    BY <2>1, <2>2 DEF RegistryInv, MoneyInv, WorkInv, OneVaultPerOwner
<1>5. CASE Mine
  <2>1. /\ pool # <<>> /\ pool' = Tail(pool) /\ Execute(Head(pool).call)
        /\ Answer(Head(pool).by, TRUE) /\ UNCHANGED <<weth9, setting, drawn>>
    BY <1>5 DEF Mine, bookkeeping
  <2>2. SafePool(pool') /\ SafeCall(Head(pool).call)
    BY <2>1, PoolTail DEF WorkInv
  <2>3. DOMAIN run' = Processes /\ \A q \in Processes : SafeRun(run'[q])
    BY <2>1, AnswerKeeps
  <2>4. RegistryInv' /\ (UNCHANGED <<vaultMap, vaults>> \/ Recorded)
    BY <2>1, <2>2, ExecuteKeeps
  <2>a. MoneyInv'
    BY <2>1, <2>2, ExecuteMoney
  <2>5. QED
    BY <2>1, <2>2, <2>3, <2>4, <2>a DEF WorkInv
<1>6. CASE MineReverted
  <2>1. /\ pool # <<>> /\ pool' = Tail(pool) /\ Answer(Head(pool).by, FALSE)
        /\ UNCHANGED <<eth, weth, vaultMap, vaults, weth9, setting, drawn>>
    BY <1>6 DEF MineReverted, chainVars, bookkeeping
  <2>2. SafePool(pool')
    BY <2>1, PoolTail DEF WorkInv
  <2>3. DOMAIN run' = Processes /\ \A q \in Processes : SafeRun(run'[q])
    BY <2>1, AnswerKeeps
  <2>4. QED
    BY <2>1, <2>2, <2>3 DEF RegistryInv, MoneyInv, WorkInv, OneVaultPerOwner
<1>7. CASE UpdateWETH9
  <2>1. weth9' \in Currencies /\ UNCHANGED <<eth, weth, vaultMap, vaults, pool, run, setting, drawn>>
    BY <1>7 DEF UpdateWETH9, chainVars, bookkeeping
  <2>2. QED
    BY <2>1 DEF RegistryInv, MoneyInv, WorkInv, OneVaultPerOwner
<1>8. QED
  BY <1>1, <1>3, <1>4, <1>5, <1>6, <1>7, RunStepKeeps DEF Next

(***************************************************************************)
(* Waiting.                                                                *)
(***************************************************************************)
\* Nothing is pending on a node that mines at once, and a process that waits
\* has a transaction pending.
Pending(q) == \E i \in 1..Len(pool) : pool[i].by = q
WaitInv ==
  /\ setting.mining = "auto" => pool = <<>>
  /\ \A p \in Processes : run[p].waiting => Pending(p)

\* Steps that leave the pool alone and nobody waiting who was not.
LEMMA NobodyWaits ==
  ASSUME WorkInv, WaitInv, UNCHANGED <<pool, setting>>, NEW p \in Processes, NEW r,
         r.waiting = FALSE \/ r.waiting = run[p].waiting, run' = [run EXCEPT ![p] = r]
  PROVE  WaitInv'
BY DEF WorkInv, WaitInv, Pending

LEMMA RunStepWaits ==
  ASSUME WorkInv, WaitInv, NEW p \in Processes, RunStep(p)
  PROVE  WaitInv'
<1>0. {"todo", "waiting"} \subseteq DOMAIN run[p]
  BY DEF WorkInv, SafeRun
<1>1. CASE ReadStep(p)
  <2>1. PICK todo : run' = [run EXCEPT ![p] = [Rest(p) EXCEPT !.todo = todo]]
    BY <1>1 DEF ReadStep
  <2>2. [Rest(p) EXCEPT !.todo = todo].waiting = run[p].waiting
    BY <1>0 DEF Rest
  <2>3. UNCHANGED <<pool, setting>>
    BY <1>1 DEF ReadStep, bookkeeping
  <2>4. QED
    BY <2>1, <2>2, <2>3, NobodyWaits
<1>2. CASE SendNow(p)
  <2>1. Rest(p).waiting = run[p].waiting
    BY <1>0 DEF Rest
  <2>2. run' = [run EXCEPT ![p] = Rest(p)] /\ UNCHANGED <<pool, setting>>
    BY <1>2 DEF SendNow, bookkeeping
  <2>3. QED
    BY <2>1, <2>2, NobodyWaits
<1>3. CASE SendLater(p)
  <2>1. PICK x : x = [by |-> p, call |-> NextStep(p).call]
    OBVIOUS
  <2>2. /\ pool' = Append(pool, x) /\ x.by = p /\ UNCHANGED setting
        /\ setting.mining = "interval"
        /\ \A q \in Processes \ {p} : run'[q] = run[q]
    BY <1>3, <2>1 DEF SendLater, bookkeeping, WorkInv
  <2>3. PICK S : pool \in Seq(S)
    BY DEF WorkInv, SafePool, IsSeq
  <2>4. pool \in Seq(S \cup {x}) /\ x \in S \cup {x} /\ Len(pool) \in Nat
    BY <2>3
  <2>5. /\ Len(pool') = Len(pool) + 1 /\ pool'[Len(pool) + 1] = x
        /\ \A i \in 1..Len(pool) : pool'[i] = pool[i]
    BY <2>2, <2>4
  <2>6. /\ Len(pool) + 1 \in 1..Len(pool')
        /\ \A i \in 1..Len(pool) : i \in 1..Len(pool')
    BY <2>4, <2>5
  <2>7. Pending(p)'
    BY <2>2, <2>5, <2>6 DEF Pending
  <2>8. ASSUME NEW q \in Processes, Pending(q)
        PROVE  Pending(q)'
    BY <2>5, <2>6, <2>8 DEF Pending
  <2>9. QED
    BY <2>2, <2>7, <2>8 DEF WaitInv
<1>4. CASE Abort(p) \/ Finish(p)
  <2>1. run' = [run EXCEPT ![p] = NoRun] /\ UNCHANGED <<pool, setting>>
    BY <1>4 DEF Abort, Finish, bookkeeping
  <2>2. NoRun.waiting = FALSE
    BY DEF NoRun
  <2>3. QED
    BY <2>1, <2>2, NobodyWaits
<1>5. QED
  BY <1>1, <1>2, <1>3, <1>4 DEF RunStep

\* The first transaction leaves the pool; its sender goes on unless another one
\* of his is there.
LEMMA AnswerWaits ==
  ASSUME WorkInv, WaitInv, pool # <<>>, pool' = Tail(pool), UNCHANGED setting,
         NEW succeeds \in BOOLEAN, Answer(Head(pool).by, succeeds)
  PROVE  WaitInv'
<1>1. PICK S : pool \in Seq(S)
  BY DEF WorkInv, SafePool, IsSeq
<1>2. /\ Len(pool) \in Nat /\ Len(pool) > 0 /\ Len(pool') = Len(pool) - 1
      /\ Head(pool) = pool[1]
      /\ \A i \in 2..Len(pool) : i - 1 \in 1..Len(pool') /\ pool'[i - 1] = pool[i]
  BY <1>1
<1>3. PICK p : p = Head(pool).by /\ p = pool[1].by
  BY <1>2
<1>4. ASSUME NEW q \in Processes, \E i \in 2..Len(pool) : pool[i].by = q
      PROVE  Pending(q)'
  BY <1>2, <1>4 DEF Pending
<1>5. ASSUME NEW q \in Processes, q # p, Pending(q)
      PROVE  Pending(q)'
  <2>1. PICK i \in 1..Len(pool) : pool[i].by = q
    BY <1>5 DEF Pending
  <2>2. i \in 2..Len(pool)
    BY <1>2, <1>3, <1>5, <2>1
  <2>3. QED
    BY <1>4, <2>1, <2>2
<1>6. setting'.mining = "auto" => pool' = <<>>
  BY DEF WaitInv
<1>7. ASSUME NEW q \in Processes, run'[q].waiting
      PROVE  Pending(q)'
  <2>0. DOMAIN run = Processes /\ "waiting" \in DOMAIN run[q] /\ NoRun.waiting = FALSE
    BY DEF WorkInv, SafeRun, NoRun
  <2>1. CASE q # p
    <3>1. run'[q] = run[q]
      BY <1>3, <2>0, <2>1 DEF Answer
    <3>2. QED
      BY <1>5, <1>7, <2>1, <3>1 DEF WaitInv
  <2>2. CASE q = p
    <3>1. CASE run[p].waiting /\ ~\E i \in 2..Len(pool) : pool[i].by = p
      <4>1. run'[p] = IF succeeds THEN [run[p] EXCEPT !.waiting = FALSE] ELSE NoRun
        BY <1>3, <2>0, <2>2, <3>1 DEF Answer
      <4>2. run'[p].waiting = FALSE
        BY <2>0, <2>2, <4>1
      <4>3. QED
        BY <1>7, <2>2, <4>2
    <3>2. CASE ~(run[p].waiting /\ ~\E i \in 2..Len(pool) : pool[i].by = p)
      <4>1. UNCHANGED run
        BY <1>3, <3>2 DEF Answer
      <4>2. QED
        BY <1>4, <1>7, <2>2, <3>2, <4>1
    <3>3. QED
      BY <3>1, <3>2
  <2>3. QED
    BY <2>1, <2>2
<1>8. QED
  BY <1>6, <1>7 DEF WaitInv

LEMMA StepWaits ==
  ASSUME WorkInv, WaitInv, [Next]_vars
  PROVE  WaitInv'
<1>1. CASE UNCHANGED vars \/ UpdateProtocolFee
  BY <1>1 DEF vars, UpdateProtocolFee, vaultVars, bookkeeping, WaitInv, Pending
<1>2. ASSUME NEW p \in Processes, NEW task, NEW user, Start(p, task, user)
      PROVE  WaitInv'
  <2>1. PICK r : r.waiting = FALSE /\ run' = [run EXCEPT ![p] = r]
    BY <1>2 DEF Start
  <2>2. QED
    BY <1>2, <2>1, NobodyWaits DEF Start
<1>3. ASSUME NEW p \in Processes, StartTask(p) \/ StartFixture(p) \/ Retry(p)
      PROVE  WaitInv'
  BY <1>2, <1>3 DEF StartTask, StartFixture, Retry
<1>4. ASSUME NEW p \in Processes, Crash(p)
      PROVE  WaitInv'
  <2>1. run' = [run EXCEPT ![p] = NoRun] /\ NoRun.waiting = FALSE /\ UNCHANGED <<pool, setting>>
    BY <1>4 DEF Crash, NoRun
  <2>2. QED
    BY <2>1, NobodyWaits
<1>5. CASE Mine
  BY <1>5, AnswerWaits DEF Mine, bookkeeping
<1>6. CASE MineReverted
  BY <1>6, AnswerWaits DEF MineReverted, bookkeeping
<1>7. CASE UpdateWETH9
  BY <1>7 DEF UpdateWETH9, bookkeeping, WaitInv, Pending
<1>8. QED
  BY <1>1, <1>3, <1>4, <1>5, <1>6, <1>7, RunStepWaits DEF Next

LEMMA InitWaits == Init => WaitInv
BY DEF Init, WaitInv, NoRun

(***************************************************************************)
(* Theorems.                                                               *)
(***************************************************************************)

\* Balances, the registry and the pool have their types: nobody spends what he
\* has not, whatever was read before (fund in task-helpers/vault.ts computes
\* amounts from a balance that may have changed), a process waits only for a
\* transaction that is on its way, and there is one vault per owner.
THEOREM FundingConsistent == Spec => []VaultsConsistent
<1>1. RegistryInv /\ MoneyInv /\ WorkInv /\ WaitInv /\ [Next]_vars
        => (RegistryInv /\ MoneyInv /\ WorkInv /\ WaitInv)'
  BY StepKeeps, StepWaits
<1>2. RegistryInv /\ MoneyInv /\ WorkInv /\ WaitInv => VaultsConsistent
  <2>1. SUFFICES ASSUME RegistryInv, MoneyInv, WorkInv, WaitInv
                 PROVE  VaultsConsistent
    OBVIOUS
  <2>2. /\ DOMAIN eth = Addresses /\ DOMAIN weth = Addresses
        /\ \A a \in Addresses : eth[a] >= 0 /\ weth[a] >= 0
    BY <2>1 DEF MoneyInv
  <2>3. PICK S : pool \in Seq(S)
    BY <2>1 DEF WorkInv, SafePool, IsSeq
  <2>4. DOMAIN pool = 1..Len(pool)
    BY <2>3
  <2>5. QED
    BY <2>1, <2>2, <2>4 DEF VaultsConsistent, TypeOK, RegistryInv, WaitInv, Pending
<1>3. QED
  BY InitInv, InitWaits, <1>1, <1>2, PTL DEF Spec

\* However many processes race, die and repeat tasks, every vault stays the
\* vault of the user it was made for (getVault, LibVault.recordVault).
THEOREM VaultsStayOwned == Spec => []OneVaultPerOwner
<1>1. RegistryInv /\ MoneyInv /\ WorkInv /\ [Next]_vars => (RegistryInv /\ MoneyInv /\ WorkInv)'
  BY StepKeeps
<1>2. RegistryInv => OneVaultPerOwner
  BY DEF RegistryInv
<1>3. QED
  BY InitInv, <1>1, <1>2, PTL DEF Spec

\* The tasks implement the registry the protocol promises: a vault is recorded
\* once for a user who has none, and never replaced or shared.
THEOREM ImplementsRegistry == Spec => RegistrySpec
<1>1. Init => Registry!Init
  BY DEF Init, Registry!Init
<1>2. RegistryInv /\ MoneyInv /\ WorkInv /\ [Next]_vars => (RegistryInv /\ MoneyInv /\ WorkInv)'
  BY StepKeeps
<1>3. RegistryInv /\ MoneyInv /\ WorkInv /\ [Next]_vars => [Registry!Next]_<<vaultMap, vaults>>
  <2>1. Recorded => Registry!Next
    BY DEF Recorded, Registry!Next
  <2>2. QED
    BY <2>1, StepKeeps
<1>4. QED
  BY InitInv, <1>1, <1>2, <1>3, PTL DEF Spec, RegistrySpec, Registry!Spec

(***************************************************************************)
(* Steps as sets.                                                          *)
(***************************************************************************)
Items(s) == {s[i] : i \in 1..Len(s)}

LEMMA ItemsNone == Items(<<>>) = {}
BY DEF Items

LEMMA ItemsOne ==
  ASSUME NEW x
  PROVE  IsSeq(<<x>>) /\ Items(<<x>>) = {x}
<1>1. PICK s : s = <<x>>
  OBVIOUS
<1>2. s \in Seq({x}) /\ Len(s) = 1 /\ s[1] = x
  BY <1>1
<1>3. Items(s) = {s[1]}
  BY <1>2 DEF Items
<1>4. IsSeq(s)
  BY <1>2 DEF IsSeq
<1>5. QED
  BY <1>1, <1>2, <1>3, <1>4

LEMMA ItemsJoined ==
  ASSUME NEW s, NEW t, IsSeq(s), IsSeq(t)
  PROVE  IsSeq(s \o t) /\ Items(s \o t) = Items(s) \cup Items(t)
<1>1. PICK S : s \in Seq(S)
  BY DEF IsSeq
<1>2. PICK T : t \in Seq(T)
  BY DEF IsSeq
<1>3. s \in Seq(S \cup T) /\ t \in Seq(S \cup T)
  BY <1>1, <1>2
<1>4. s \o t \in Seq(S \cup T) /\ Len(s \o t) = Len(s) + Len(t) /\ Len(s) \in Nat /\ Len(t) \in Nat
  BY <1>3
<1>5. IsSeq(s \o t)
  BY <1>4 DEF IsSeq
<1>6. ASSUME NEW i \in 1..Len(s \o t)
      PROVE  (s \o t)[i] \in Items(s) \cup Items(t)
  <2>1. CASE i <= Len(s)
    <3>1. (s \o t)[i] = s[i] /\ i \in 1..Len(s)
      BY <1>3, <1>4, <2>1
    <3>2. QED
      BY <3>1 DEF Items
  <2>2. CASE i > Len(s)
    <3>1. (s \o t)[i] = t[i - Len(s)] /\ i - Len(s) \in 1..Len(t)
      BY <1>3, <1>4, <2>2
    <3>2. QED
      BY <3>1 DEF Items
  <2>3. QED
    BY <1>4, <2>1, <2>2
<1>7. ASSUME NEW i \in 1..Len(s)
      PROVE  s[i] \in Items(s \o t)
  <2>1. (s \o t)[i] = s[i] /\ i \in 1..Len(s \o t)
    BY <1>3, <1>4
  <2>2. QED
    BY <2>1 DEF Items
<1>8. ASSUME NEW i \in 1..Len(t)
      PROVE  t[i] \in Items(s \o t)
  <2>1. (s \o t)[i + Len(s)] = t[i] /\ i + Len(s) \in 1..Len(s \o t)
    BY <1>3, <1>4
  <2>2. QED
    BY <2>1 DEF Items
<1>9. Items(s \o t) \subseteq Items(s) \cup Items(t)
  BY <1>6 DEF Items
<1>10. Items(s) \cup Items(t) \subseteq Items(s \o t)
  BY <1>7, <1>8 DEF Items
<1>11. QED
  BY <1>5, <1>9, <1>10

LEMMA ItemsTail ==
  ASSUME NEW s, IsSeq(s), s # <<>>
  PROVE  IsSeq(Tail(s)) /\ Items(s) = {Head(s)} \cup Items(Tail(s))
<1>1. PICK S : s \in Seq(S)
  BY DEF IsSeq
<1>2. /\ Tail(s) \in Seq(S) /\ Len(s) \in Nat /\ Len(s) > 0 /\ Len(Tail(s)) = Len(s) - 1
      /\ Head(s) = s[1] /\ \A i \in 1..Len(Tail(s)) : Tail(s)[i] = s[i + 1]
  BY <1>1
<1>3. IsSeq(Tail(s))
  BY <1>2 DEF IsSeq
<1>4. ASSUME NEW i \in 1..Len(s)
      PROVE  s[i] \in {Head(s)} \cup Items(Tail(s))
  <2>1. CASE i = 1
    BY <1>2, <2>1
  <2>2. CASE i # 1
    <3>1. i - 1 \in 1..Len(Tail(s)) /\ Tail(s)[i - 1] = s[i]
      BY <1>2, <2>2
    <3>2. QED
      BY <3>1 DEF Items
  <2>3. QED
    BY <2>1, <2>2
<1>5. ASSUME NEW i \in 1..Len(Tail(s))
      PROVE  Tail(s)[i] \in Items(s)
  <2>1. i + 1 \in 1..Len(s) /\ Tail(s)[i] = s[i + 1]
    BY <1>2
  <2>2. QED
    BY <2>1 DEF Items
<1>6. Head(s) \in Items(s)
  <2>1. 1 \in 1..Len(s)
    BY <1>2
  <2>2. QED
    BY <1>2, <2>1 DEF Items
<1>7. Items(s) \subseteq {Head(s)} \cup Items(Tail(s))
  BY <1>4 DEF Items
<1>8. Items(Tail(s)) \subseteq Items(s)
  BY <1>5 DEF Items
<1>9. QED
  BY <1>3, <1>6, <1>7, <1>8

(***************************************************************************)
(* Where the tasks send money, by the salt of the run.                     *)
(***************************************************************************)
Pays(k) == k.fn \in {"sendETH", "transferFrom"} /\ k.to \in VaultAddresses \ vaults
Payable(v, salt) ==
  \/ v.user = Owner /\ v.salt \in {salt, Fixed}
  \/ v.user = Bob /\ v.salt = Fixed /\ (~setting.changes => v.weth9 = Weth)
\* What is sent to an address without a vault goes to one the run computed.
OwnCall(k, salt) ==
  /\ Pays(k) => Payable(k.to, salt)
  /\ k.fn = "createVault" => k.salt \in {salt, Fixed}
About(k, salt) == (Pays(k) /\ k.to.salt = salt) \/ (k.fn = "createVault" /\ k.salt = salt)

\* Calls that a task sends without waiting for them, on a node that mines at
\* intervals: they do not take the owner's WETH, and of his ETH only to wrap it.
Background(k) == k.fn = "deposit" \/ (k.fn \in {"sendETH", "transferFrom"} /\ k.from # Owner)
Automines == setting.mining = "auto"

Creates(x, user) == x.op = "send" /\ x.await = TRUE /\ x.call.fn = "createVault" /\ x.call.user = user
OwnRead(x, salt) ==
  /\ x.then.then = "grant" => x.what = "computed" /\ x.of = [user |-> Owner, salt |-> salt]
  /\ x.then.then = "firstPayment" => x.what = "computed" /\ x.of = [user |-> Bob, salt |-> Fixed]
  /\ x.then.then = "empty" => x.what = "computed" /\ x.of = [user |-> Owner, salt |-> Fixed]
  /\ x.then.then = "create" => x.what = "vault" /\ x.of = x.then.user /\ x.then.salt = salt
  /\ x.then.then = "pocVault" => x.what = "vault" /\ x.of = Bob /\ x.then.salt = Fixed
  /\ x.then.then \in {"fund", "pocFill", "filled"} => x.what = "vault"
  /\ x.then.then = "filled" => Automines
OwnStep(x, salt) ==
  /\ x.op \in {"send", "read"}
  /\ x.op = "send" => /\ OwnCall(x.call, salt) /\ (About(x.call, salt) => x.await = TRUE)
                      /\ x.await = TRUE \/ Background(x.call) \/ Automines
  /\ x.op = "read" => OwnRead(x, salt)
OwnSteps(s, salt) == IsSeq(s) /\ \A x \in Items(s) : OwnStep(x, salt)

LEMMA OwnNone ==
  ASSUME NEW salt
  PROVE  OwnSteps(<<>>, salt)
<1>1. <<>> \in Seq({})
  OBVIOUS
<1>2. QED
  BY <1>1, ItemsNone DEF OwnSteps, IsSeq

LEMMA OwnJoined ==
  ASSUME NEW salt, NEW s, NEW t, OwnSteps(s, salt), OwnSteps(t, salt)
  PROVE  OwnSteps(s \o t, salt)
BY ItemsJoined DEF OwnSteps

LEMMA OwnWhen ==
  ASSUME NEW salt, NEW condition, NEW s, OwnSteps(s, salt)
  PROVE  OwnSteps(When(condition, s), salt)
BY OwnNone DEF When

LEMMA OwnSend ==
  ASSUME NEW salt, NEW k, OwnCall(k, salt)
  PROVE  /\ OwnSteps(Send(k), salt)
         /\ ~About(k, salt) /\ (Background(k) \/ Automines) => OwnSteps(SendOnly(k), salt)
<1>1. /\ OwnStep([op |-> "send", call |-> k, await |-> TRUE], salt)
      /\ ~About(k, salt) /\ (Background(k) \/ Automines) =>
           OwnStep([op |-> "send", call |-> k, await |-> FALSE], salt)
  BY DEF OwnStep
<1>2. ASSUME NEW x, OwnStep(x, salt)
      PROVE  OwnSteps(<<x>>, salt)
  BY <1>2, ItemsOne DEF OwnSteps
<1>3. QED
  BY <1>1, <1>2 DEF Send, SendOnly

LEMMA OwnReads ==
  ASSUME NEW salt, NEW what, NEW of, NEW then,
         OwnRead([op |-> "read", what |-> what, of |-> of, then |-> then], salt)
  PROVE  OwnSteps(Read(what, of, then), salt)
<1>1. OwnStep([op |-> "read", what |-> what, of |-> of, then |-> then], salt)
  BY DEF OwnStep
<1>2. QED
  BY <1>1, ItemsOne DEF Read, OwnSteps

\* Calls that pay no vault that is still to be created.
LEMMA PlainOwn ==
  ASSUME NEW salt \in 1..MaxSalts, NEW from, NEW amount, NEW user \in Users,
         NEW to \in vaults \cup {Zero} \cup Users
  PROVE  \A k \in {Wrap(from, amount), Unwrap(from, amount), SendETH(from, to, amount),
                   TransferFrom(from, to, amount), CreateVault(user, Fixed)} :
           OwnCall(k, salt) /\ ~About(k, salt)
<1>1. to \notin VaultAddresses \ vaults /\ Fixed # salt
  BY FundingAssumption DEF Fixed
<1>2. QED
  BY <1>1 DEF Wrap, Unwrap, SendETH, TransferFrom, CreateVault, OwnCall, About, Pays

LEMMA WrapOwn ==
  ASSUME NEW salt \in 1..MaxSalts, NEW from, NEW amount
  PROVE  OwnSteps(SendOnly(Wrap(from, amount)), salt)
<1>1. OwnCall(Wrap(from, amount), salt) /\ ~About(Wrap(from, amount), salt) /\ Background(Wrap(from, amount))
  BY DEF Wrap, OwnCall, About, Pays, Background
<1>2. QED
  BY <1>1, OwnSend

LEMMA FundOwn ==
  ASSUME NEW salt, NEW vault, NEW amount, NEW sender, NEW sendETH,
         OwnCall(SendETH(sender, vault, amount), salt),
         OwnCall(TransferFrom(sender, vault, amount), salt)
  PROVE  OwnSteps(Fund(vault, amount, sender, sendETH), salt)
<1>1. OwnRead([op |-> "read", what |-> "weth", of |-> sender,
               then |-> [then |-> "wrap", amount |-> amount, sender |-> sender]], salt)
  BY DEF OwnRead
<1>2. /\ OwnSteps(Read("weth", sender, [then |-> "wrap", amount |-> amount, sender |-> sender]), salt)
      /\ OwnSteps(When(sendETH, Send(SendETH(sender, vault, amount))), salt)
      /\ OwnSteps(Send(TransferFrom(sender, vault, amount)), salt)
  BY <1>1, OwnReads, OwnSend, OwnWhen
<1>3. QED
  BY <1>2, OwnJoined DEF Fund

LEMMA TasksOwn ==
  ASSUME NEW task \in TaskNames, NEW user \in Users, NEW salt \in 1..MaxSalts,
         task = "fixture" => Automines
  PROVE  OwnSteps(TaskSteps(task, user, salt), salt)
<1>0. Zero \in vaults \cup {Zero} \cup Users /\ Owner \in Users
  BY AddressTypes
<1>1. /\ OwnSteps(Read("computed", [user |-> Owner, salt |-> salt], [then |-> "grant"]), salt)
      /\ OwnSteps(Read("vault", user, [then |-> "create", user |-> user, salt |-> salt]), salt)
  BY OwnReads DEF OwnRead
<1>2. OwnSteps(CreateVaultTask(user, salt), salt)
  BY <1>1, OwnJoined DEF CreateVaultTask
<1>3. CASE task = "create-vault"
  BY <1>2, <1>3 DEF TaskSteps
<1>4. ASSUME NEW of, NEW sender, NEW sendETH
      PROVE  OwnSteps(Read("vault", of, [then |-> "fund", sender |-> sender, sendETH |-> sendETH]), salt)
  BY OwnReads DEF OwnRead
<1>5. CASE task \in {"fund-vault", "fund-vault --sendeth"}
  BY <1>4, <1>5 DEF TaskSteps, FundVaultTask
<1>6. CASE task = "deposit-weth"
  BY <1>0, <1>6, PlainOwn, OwnSend DEF TaskSteps, DepositWETH
<1>7. CASE task = "unwrap-weth"
  <2>1. OwnSteps(Read("weth", user, [then |-> "unwrap", sender |-> user]), salt)
    BY OwnReads DEF OwnRead
  <2>2. QED
    BY <1>7, <2>1 DEF TaskSteps, UnwrapWETH
<1>8. CASE task = "bootstrap-user"
  <2>1. /\ OwnSteps(Read("eth", user, [then |-> "topUpETH", user |-> user]), salt)
        /\ OwnSteps(Read("weth", user, [then |-> "topUpWETH", user |-> user]), salt)
    BY OwnReads DEF OwnRead
  <2>2. OwnSteps(BootstrapUser(user, salt), salt)
    BY <1>2, <1>4, <2>1, OwnJoined DEF BootstrapUser
  <2>3. QED
    BY <1>8, <2>2 DEF TaskSteps
<1>9. CASE task = "poc"
  <2>1. /\ OwnSteps(Read("computed", [user |-> Bob, salt |-> Fixed], [then |-> "firstPayment"]), salt)
        /\ OwnSteps(Read("vault", Bob, [then |-> "pocVault", salt |-> Fixed]), salt)
    BY OwnReads DEF OwnRead
  <2>2. OwnSteps(Poc(salt), salt)
    BY <2>1, OwnJoined DEF Poc
  <2>3. QED
    BY <1>9, <2>2 DEF TaskSteps
<1>10. CASE task = "fixture"
  <2>1. /\ OwnSteps(Read("computed", [user |-> Owner, salt |-> Fixed], [then |-> "empty"]), salt)
        /\ OwnSteps(Read("vault", Owner, [then |-> "filled"]), salt)
    BY <1>10, OwnReads DEF OwnRead
  <2>2. OwnSteps(SendOnly(CreateVault(Owner, Fixed)), salt)
    BY <1>0, <1>10, PlainOwn, OwnSend
  <2>3. OwnSteps(FixtureVault(salt), salt)
    BY <2>1, <2>2, OwnJoined DEF FixtureVault
  <2>4. QED
    BY <1>10, <2>3 DEF TaskSteps
<1>11. QED
  BY <1>3, <1>5, <1>6, <1>7, <1>8, <1>9, <1>10 DEF TaskNames

\* The currency changes only where the setting says so.
CurrencyInv == weth9 \in Currencies /\ (~setting.changes => weth9 = Weth)

LEMMA AfterOwn ==
  ASSUME RegistryInv, CurrencyInv, NEW salt \in 1..MaxSalts, NEW x, x.op = "read", SafeStep(x),
         OwnStep(x, salt), NEW v, v = Value(x.what, x.of)
  PROVE  OwnSteps(After(x.then, v), salt)
<1> DEFINE name == x.then.then
<1>0. /\ SafeThen(x.then) /\ SafeRead(x.what, x.of, name) /\ OwnRead(x, salt)
      /\ Owner \in Users /\ Bob \in Users /\ Zero \in vaults \cup {Zero} \cup Users
      /\ Users \subseteq vaults \cup {Zero} \cup Users
  BY AddressTypes DEF SafeStep, OwnStep
<1>1. ASSUME name \in {"create", "pocVault", "fund", "pocFill", "filled"}
      PROVE  v \in vaults \cup {Zero} \cup Users
  <2>1. x.what = "vault" /\ x.of \in Users
    BY <1>0, <1>1 DEF OwnRead, SafeRead, OfNumber
  <2>2. v = vaultMap[x.of]
    BY <2>1 DEF Value
  <2>3. QED
    BY <2>1, <2>2 DEF RegistryInv, OneVaultPerOwner
<1>2. ASSUME name \in {"grant", "firstPayment", "empty"}
      PROVE  /\ v = VaultAt(x.of.user, x.of.salt) /\ Payable(v, salt)
             /\ \A from, amount : /\ OwnCall(SendETH(from, v, amount), salt)
                                  /\ OwnCall(TransferFrom(from, v, amount), salt)
             /\ name # "grant" => \A from, amount : ~About(SendETH(from, v, amount), salt)
  <2>1. v = VaultAt(x.of.user, x.of.salt)
    BY <1>0, <1>2 DEF OwnRead, Value
  <2>2. Payable(v, salt) /\ (name # "grant" => v.salt = Fixed)
    BY <1>0, <1>2, <2>1 DEF OwnRead, VaultAt, Payable, CurrencyInv
  <2>3. salt # Fixed
    BY FundingAssumption DEF Fixed
  <2>4. QED
    BY <2>1, <2>2, <2>3 DEF OwnCall, Pays, About, SendETH, TransferFrom
<1>3. CASE name = "wrap"
  <2>1. OwnSteps(SendOnly(Wrap(x.then.sender, x.then.amount - v)), salt)
    BY <1>0, WrapOwn
  <2>2. QED
    BY <1>3, <2>1, OwnWhen DEF After
<1>4. CASE name = "grant"
  BY <1>2, <1>4, FundOwn DEF After
<1>5. CASE name = "create"
  <2>1. OwnCall(CreateVault(x.then.user, x.then.salt), salt)
    BY <1>0, <1>5 DEF OwnRead, OwnCall, Pays, CreateVault
  <2>2. QED
    BY <1>5, <2>1, OwnSend, OwnWhen DEF After, CreateIfNone
<1>6. CASE name = "fund"
  BY <1>0, <1>1, <1>6, PlainOwn, FundOwn DEF After
<1>7. CASE name = "unwrap"
  BY <1>0, <1>7, PlainOwn, OwnSend DEF After
<1>8. CASE name \in {"topUpETH", "topUpWETH"}
  <2>1. x.then.user \in vaults \cup {Zero} \cup Users
    BY <1>0, <1>8 DEF SafeThen
  <2>2. /\ OwnSteps(Send(SendETH(Owner, x.then.user, Target - v)), salt)
        /\ OwnSteps(DepositWETH(x.then.user, Target - v), salt)
    BY <1>0, <2>1, PlainOwn, OwnSend DEF DepositWETH
  <2>3. OwnSteps(Send(SendETH(Owner, x.then.user, Target - v)) \o DepositWETH(x.then.user, Target - v), salt)
    BY <2>2, OwnJoined
  <2>4. QED
    BY <1>8, <2>2, <2>3, OwnWhen DEF After
<1>9. CASE name = "firstPayment"
  <2>1. Background(SendETH(Bob, v, Amount))
    BY FundingAssumption DEF Background, SendETH
  <2>2. OwnSteps(Send(SendETH(Owner, v, Grant)), salt) /\ OwnSteps(SendOnly(SendETH(Bob, v, Amount)), salt)
    BY <1>2, <1>9, <2>1, OwnSend
  <2>3. QED
    BY <1>9, <2>2, OwnJoined DEF After
<1>10. CASE name = "pocVault"
  <2>1. OwnSteps(Read("vault", Bob, [then |-> "pocFill"]), salt)
    BY OwnReads DEF OwnRead
  <2>2. OwnSteps(Send(CreateVault(Bob, x.then.salt)), salt)
    <3>1. x.then.salt = Fixed
      BY <1>0, <1>10 DEF OwnRead
    <3>2. QED
      BY <1>0, <3>1, PlainOwn, OwnSend
  <2>3. OwnSteps(Send(CreateVault(Bob, x.then.salt)) \o Read("vault", Bob, [then |-> "pocFill"]), salt)
    BY <2>1, <2>2, OwnJoined
  <2>4. QED
    BY <1>10, <2>3, OwnWhen DEF After
<1>11. CASE name = "pocFill"
  <2>1. /\ OwnSteps(SendOnly(Wrap(Bob, PocDeposit)), salt)
        /\ OwnSteps(SendOnly(TransferFrom(Bob, v, Amount)), salt)
    <3>1. Background(TransferFrom(Bob, v, Amount))
      BY FundingAssumption DEF Background, TransferFrom
    <3>2. QED
      BY <1>0, <1>1, <1>11, <3>1, PlainOwn, OwnSend, WrapOwn
  <2>2. QED
    BY <1>11, <2>1, OwnJoined DEF After
<1>12. CASE name = "empty"
  BY <1>2, <1>12, OwnSend DEF After
<1>13. CASE name = "filled"
  <2>1. /\ OwnSteps(SendOnly(Wrap(Owner, Amount)), salt)
        /\ OwnSteps(SendOnly(TransferFrom(Owner, v, Amount)), salt)
        /\ OwnSteps(SendOnly(SendETH(Owner, v, Amount)), salt)
    <3>1. Automines
      BY <1>0, <1>13 DEF OwnRead
    <3>2. QED
      BY <1>0, <1>1, <1>13, <3>1, PlainOwn, OwnSend
  <2>2. OwnSteps(SendOnly(Wrap(Owner, Amount)) \o SendOnly(TransferFrom(Owner, v, Amount))
                   \o SendOnly(SendETH(Owner, v, Amount)), salt)
    BY <2>1, OwnJoined
  <2>3. QED
    BY <1>13, <2>2 DEF After
<1>14. name \in ThenNames
  BY <1>0 DEF SafeThen
<1>15. QED
  BY <1>3, <1>4, <1>5, <1>6, <1>7, <1>8, <1>9, <1>10, <1>11, <1>12, <1>13, <1>14
     DEF ThenNames

(***************************************************************************)
(* Processes: who runs what, and what a step does to it.                   *)
(***************************************************************************)
RunFields == {"task", "user", "salt", "todo", "waiting"}
Named(r) ==
  /\ DOMAIN r = RunFields
  /\ r # NoRun => r.task \in TaskNames /\ r.user \in Users /\ r.salt \in 1..drawn
\* The process whose run, in progress or ended, has drawn this salt.
Has(q, salt) ==
  \/ run[q] # NoRun /\ run[q].salt = salt
  \/ finished[q] # NoRun /\ finished[q].salt = salt
RunInv ==
  /\ DOMAIN finished = Processes
  /\ \A p \in Processes : Named(run[p]) /\ Named(finished[p])
  /\ \A p \in Processes : run[p] # NoRun => /\ finished[p] = NoRun
                                             /\ run[p].task \in setting.tasks \cup {"create-vault"}
                                             /\ p \in setting.processes
  /\ \A p, q \in Processes, salt \in 1..drawn : Has(p, salt) /\ Has(q, salt) => p = q
  /\ CurrencyInv

Begins(p, task, user) ==
  /\ run[p] = NoRun /\ p \in setting.processes
  /\ task \in TaskNames /\ user \in Users /\ task \in setting.tasks \cup {"create-vault"}
  /\ task = "fixture" => Automines
  /\ drawn' = drawn + 1 /\ drawn' \in 1..MaxSalts
  /\ run' = [run EXCEPT ![p] = [task |-> task, user |-> user, salt |-> drawn', waiting |-> FALSE,
                                todo |-> TaskSteps(task, user, drawn')]]
  /\ finished' = [finished EXCEPT ![p] = NoRun]
  /\ UNCHANGED <<chainVars, weth9, setting, pool, crashes>>
Answered(p) == After(NextStep(p).then, Value(NextStep(p).what, NextStep(p).of))
Asks(p) ==
  /\ Ready(p) /\ NextStep(p).op = "read"
  /\ run' = [run EXCEPT ![p] = [run[p] EXCEPT !.todo = Answered(p) \o Tail(run[p].todo)]]
  /\ UNCHANGED <<chainVars, weth9, pool, bookkeeping>>
Sends(p) ==
  /\ Ready(p) /\ NextStep(p).op = "send" /\ setting.mining = "auto" /\ Execute(NextStep(p).call)
  /\ run' = [run EXCEPT ![p] = [run[p] EXCEPT !.todo = Tail(run[p].todo)]]
  /\ UNCHANGED <<weth9, pool, bookkeeping>>
Tx(p) == [by |-> p, call |-> NextStep(p).call]
Emits(p) ==
  /\ Ready(p) /\ NextStep(p).op = "send" /\ setting.mining = "interval" /\ Succeeds(NextStep(p).call)
  /\ pool' = Append(pool, Tx(p))
  /\ run' = [run EXCEPT ![p] = [run[p] EXCEPT !.todo = Tail(run[p].todo), !.waiting = NextStep(p).await]]
  /\ UNCHANGED <<chainVars, weth9, bookkeeping>>
Leaves(p) ==
  /\ run[p] # NoRun /\ (Crash(p) \/ (Fails(p) /\ UNCHANGED crashes))
  /\ run' = [run EXCEPT ![p] = NoRun]
  /\ UNCHANGED <<chainVars, weth9, pool, setting, finished, drawn>>
Ends(p) ==
  /\ run[p] # NoRun /\ run[p].todo = <<>> /\ ~run[p].waiting
  /\ run' = [run EXCEPT ![p] = NoRun] /\ finished' = [finished EXCEPT ![p] = run[p]]
  /\ UNCHANGED <<chainVars, weth9, pool, setting, drawn, crashes>>
Mines(p, succeeds) ==
  /\ pool # <<>> /\ pool' = Tail(pool) /\ p = Head(pool).by
  /\ IF succeeds THEN Execute(Head(pool).call)
     ELSE ~Succeeds(Head(pool).call) /\ UNCHANGED chainVars
  /\ Answer(p, succeeds)
  /\ UNCHANGED <<weth9, bookkeeping>>
Changes ==
  /\ setting.changes /\ weth9' \in Currencies /\ weth9' # Weth
  /\ UNCHANGED <<chainVars, pool, run, bookkeeping>>

LEMMA TaskNotNone ==
  ASSUME NEW r, r.task \in TaskNames
  PROVE  r # NoRun
BY FundingAssumption DEF NoRun

LEMMA ReadyLive ==
  ASSUME NEW p, Ready(p) \/ run[p].task # None \/ run[p].waiting
  PROVE  run[p] # NoRun
BY DEF Ready, NoRun

LEMMA StepForms ==
  ASSUME WorkInv, RunInv, [Next]_vars
  PROVE  \/ UNCHANGED vaultVars
         \/ \E p \in Processes, task \in TaskNames, user \in Users : Begins(p, task, user)
         \/ \E p \in Processes : Asks(p) \/ Sends(p) \/ Emits(p) \/ Leaves(p) \/ Ends(p)
         \/ \E p : \E succeeds \in BOOLEAN : Mines(p, succeeds)
         \/ Changes
<1>1. \A p \in Processes : DOMAIN run[p] = RunFields
  BY DEF RunInv, Named
<1>2. ASSUME NEW p \in Processes, NEW task \in TaskNames, NEW user \in Users,
             task \in setting.tasks \cup {"create-vault"}, task = "fixture" => Automines,
             Start(p, task, user)
      PROVE  Begins(p, task, user)
  <2>1. /\ setting.salts \in 0..MaxSalts /\ drawn \in 0..setting.salts /\ MaxSalts \in Nat
        /\ drawn < setting.salts /\ drawn' = drawn + 1
    BY <1>2, FundingAssumption DEF WorkInv, Start
  <2>2. drawn' \in 1..MaxSalts
    BY <2>1
  <2>3. QED
    BY <1>2, <2>2 DEF Start, Begins
<1>3. ASSUME NEW p \in Processes, StartTask(p) \/ StartFixture(p) \/ Retry(p)
      PROVE  \E task \in TaskNames, user \in Users : Begins(p, task, user)
  <2>1. /\ setting.tasks \subseteq TaskNames /\ setting.receivers \subseteq Users /\ Owner \in Users
        /\ "fixture" \in TaskNames /\ "create-vault" \in TaskNames
    BY FundingAssumption DEF WorkInv, TaskNames
  <2>2. \E task \in TaskNames, user \in Users :
          /\ task \in setting.tasks \cup {"create-vault"} /\ Start(p, task, user)
          /\ task = "fixture" => Automines
    BY <1>3, <2>1 DEF StartTask, StartFixture, Retry, Automines
  <2>3. QED
    BY <1>2, <2>2
<1>4. ASSUME NEW p \in Processes, RunStep(p) \/ Crash(p)
      PROVE  Asks(p) \/ Sends(p) \/ Emits(p) \/ Leaves(p) \/ Ends(p)
  <2>1. Rest(p) = [run[p] EXCEPT !.todo = Tail(run[p].todo)] /\ Rest(p).todo = Tail(run[p].todo)
    BY <1>1 DEF Rest, RunFields
  <2>2. CASE ReadStep(p)
    <3>1. run' = [run EXCEPT ![p] = [Rest(p) EXCEPT !.todo = Answered(p) \o @]]
      BY <2>2 DEF ReadStep, Answered
    <3>2. run' = [run EXCEPT ![p] = [Rest(p) EXCEPT !.todo = Answered(p) \o Tail(run[p].todo)]]
      BY <2>1, <3>1
    <3>3. PICK todo : todo = Answered(p) \o Tail(run[p].todo)
      OBVIOUS
    <3>4. [Rest(p) EXCEPT !.todo = todo] = [run[p] EXCEPT !.todo = todo]
      BY <2>1
    <3>5. run' = [run EXCEPT ![p] = [run[p] EXCEPT !.todo = todo]]
      BY <3>2, <3>3, <3>4
    <3>6. QED
      BY <2>2, <3>3, <3>5 DEF ReadStep, Asks
  <2>3. CASE SendNow(p)
    BY <2>1, <2>3 DEF SendNow, Sends
  <2>4. CASE SendLater(p)
    <3>1. PICK w : w = NextStep(p).await
      OBVIOUS
    <3>2. run' = [run EXCEPT ![p] = [Rest(p) EXCEPT !.waiting = w]]
      BY <2>4, <3>1 DEF SendLater
    <3>3. PICK t : t = Tail(run[p].todo)
      OBVIOUS
    <3>4. [Rest(p) EXCEPT !.waiting = w] = [run[p] EXCEPT !.todo = t, !.waiting = w]
      BY <2>1, <3>3
    <3>5. run' = [run EXCEPT ![p] = [run[p] EXCEPT !.todo = t, !.waiting = w]]
      BY <3>2, <3>4
    <3>6. QED
      BY <2>4, <3>1, <3>3, <3>5 DEF SendLater, Emits, Tx
  <2>5. CASE Abort(p)
    BY <2>5, ReadyLive DEF Abort, Leaves, Fails, bookkeeping
  <2>6. CASE Crash(p)
    BY <2>6, ReadyLive DEF Crash, Leaves
  <2>7. CASE Finish(p)
    BY <2>7, ReadyLive DEF Finish, Ends
  <2>8. QED
    BY <1>4, <2>2, <2>3, <2>4, <2>5, <2>6, <2>7 DEF RunStep
<1>5. CASE Mine
  <2>1. PICK p : p = Head(pool).by
    OBVIOUS
  <2>2. Mines(p, TRUE) /\ TRUE \in BOOLEAN
    BY <1>5, <2>1 DEF Mine, Mines
  <2>3. QED
    BY <2>2
<1>6. CASE MineReverted
  <2>1. PICK p : p = Head(pool).by
    OBVIOUS
  <2>2. Mines(p, FALSE) /\ FALSE \in BOOLEAN
    BY <1>6, <2>1 DEF MineReverted, Mines
  <2>3. QED
    BY <2>2
<1>7. CASE UpdateWETH9
  BY <1>7 DEF UpdateWETH9, Changes
<1>8. CASE UNCHANGED vars \/ UpdateProtocolFee
  BY <1>8 DEF vars, UpdateProtocolFee
<1>9. QED
  BY <1>3, <1>4, <1>5, <1>6, <1>7, <1>8 DEF Next

SameRun(r, q) == DOMAIN r = RunFields /\ r.task = q.task /\ r.user = q.user /\ r.salt = q.salt

\* A process that goes on, or is gone.
LEMMA Continues ==
  ASSUME WorkInv, RunInv, NEW p \in Processes, NEW r,
         r = NoRun \/ (run[p] # NoRun /\ SameRun(r, run[p])),
         run' = [run EXCEPT ![p] = r], UNCHANGED <<finished, drawn, setting, weth9>>
  PROVE  RunInv' /\ (r # NoRun => run[p] # NoRun)
<1>1. run'[p] = r /\ \A q \in Processes \ {p} : run'[q] = run[q]
  BY DEF WorkInv
<1>2. DOMAIN NoRun = RunFields
  BY DEF NoRun, RunFields
<1>3. Named(r) /\ (r # NoRun => run[p] # NoRun /\ r.salt = run[p].salt /\ r.task = run[p].task)
  BY <1>2 DEF RunInv, Named, SameRun
<1>4. \A q \in Processes : Named(run'[q])
  BY <1>1, <1>3 DEF RunInv
<1>5. \A q \in Processes, salt \in 1..drawn : Has(q, salt)' => Has(q, salt)
  BY <1>1, <1>3 DEF Has
<1>6. \A q \in Processes : run'[q] # NoRun => run[q] # NoRun /\ run'[q].task = run[q].task
  BY <1>1, <1>3
<1>7. QED
  BY <1>3, <1>4, <1>5, <1>6 DEF RunInv, Named, CurrencyInv

LEMMA ChangedFields ==
  ASSUME NEW r, DOMAIN r = RunFields, NEW todo, NEW waiting
  PROVE  /\ SameRun([r EXCEPT !.todo = todo], r) /\ SameRun([r EXCEPT !.waiting = waiting], r)
         /\ SameRun([r EXCEPT !.todo = todo, !.waiting = waiting], r)
         /\ [r EXCEPT !.todo = todo].todo = todo /\ [r EXCEPT !.todo = todo].waiting = r.waiting
         /\ [r EXCEPT !.waiting = waiting].waiting = waiting /\ [r EXCEPT !.waiting = waiting].todo = r.todo
         /\ [r EXCEPT !.todo = todo, !.waiting = waiting].todo = todo
         /\ [r EXCEPT !.todo = todo, !.waiting = waiting].waiting = waiting
BY DEF SameRun, RunFields

LEMMA NextRuns ==
  ASSUME WorkInv, RunInv, [Next]_vars
  PROVE  RunInv'
<1>0. \A p \in Processes : DOMAIN run[p] = RunFields
  BY DEF RunInv, Named
<1>1. CASE UNCHANGED vaultVars
  BY <1>1 DEF vaultVars, bookkeeping, RunInv, Named, Has, CurrencyInv
<1>2. ASSUME NEW p \in Processes, NEW task \in TaskNames, NEW user \in Users, Begins(p, task, user)
      PROVE  RunInv'
  <2>1. PICK r : r = [task |-> task, user |-> user, salt |-> drawn', waiting |-> FALSE,
                      todo |-> TaskSteps(task, user, drawn')]
    OBVIOUS
  <2>2. run'[p] = r /\ \A q \in Processes \ {p} : run'[q] = run[q]
    BY <1>2, <2>1 DEF Begins, WorkInv
  <2>3. /\ DOMAIN finished' = Processes /\ finished'[p] = NoRun
        /\ \A q \in Processes \ {p} : finished'[q] = finished[q]
    BY <1>2 DEF Begins, RunInv
  <2>4. /\ drawn \in Nat /\ drawn' = drawn + 1 /\ DOMAIN r = RunFields
        /\ r.task = task /\ r.user = user /\ r.salt = drawn'
    BY <1>2, <2>1, FundingAssumption DEF Begins, WorkInv, RunFields
  <2>5. DOMAIN NoRun = RunFields
    BY DEF NoRun, RunFields
  <2>6. (\A q \in Processes : Named(run[q]) /\ Named(finished[q]))'
    BY <2>2, <2>3, <2>4, <2>5 DEF RunInv, Named
  <2>7. \A q \in Processes, salt \in 1..drawn' :
          Has(q, salt)' => IF q = p THEN salt = drawn' ELSE salt \in 1..drawn /\ Has(q, salt)
    BY <2>2, <2>3, <2>4 DEF Has, RunInv, Named
  <2>8. \A q, s \in Processes, salt \in 1..drawn' : Has(q, salt)' /\ Has(s, salt)' => q = s
    BY <2>4, <2>7 DEF RunInv
  <2>9. UNCHANGED <<setting, weth9>>
    BY <1>2 DEF Begins
  <2>10. \A q \in Processes : run'[q] # NoRun => /\ finished'[q] = NoRun
                                                 /\ run'[q].task \in setting.tasks \cup {"create-vault"}
                                                 /\ q \in setting.processes
    BY <1>2, <2>2, <2>3, <2>4 DEF Begins, RunInv
  <2>11. QED
    BY <2>3, <2>6, <2>8, <2>9, <2>10 DEF RunInv, CurrencyInv
<1>3. ASSUME NEW p \in Processes, Asks(p) \/ Sends(p) \/ Emits(p)
      PROVE  RunInv'
  <2>1. run[p] # NoRun /\ UNCHANGED <<finished, drawn, setting, weth9>>
    BY <1>3, ReadyLive DEF Asks, Sends, Emits, bookkeeping
  <2>2. \E r : SameRun(r, run[p]) /\ run' = [run EXCEPT ![p] = r]
    BY <1>0, <1>3, ChangedFields DEF Asks, Sends, Emits
  <2>3. QED
    BY <2>1, <2>2, Continues
<1>4. ASSUME NEW p \in Processes, Leaves(p)
      PROVE  RunInv'
  BY <1>4, Continues DEF Leaves, CurrencyInv
<1>5. ASSUME NEW p \in Processes, Ends(p)
      PROVE  RunInv'
  <2>1. run'[p] = NoRun /\ \A q \in Processes \ {p} : run'[q] = run[q]
    BY <1>5 DEF Ends, WorkInv
  <2>2. /\ DOMAIN finished' = Processes /\ finished'[p] = run[p]
        /\ \A q \in Processes \ {p} : finished'[q] = finished[q]
    BY <1>5 DEF Ends, RunInv
  <2>3. UNCHANGED <<drawn, setting, weth9>>
    BY <1>5 DEF Ends
  <2>4. DOMAIN NoRun = RunFields
    BY DEF NoRun, RunFields
  <2>5. \A q \in Processes : Named(run'[q]) /\ Named(finished'[q])
    BY <2>1, <2>2, <2>4 DEF RunInv, Named
  <2>6. \A q \in Processes, salt \in 1..drawn : Has(q, salt)' => Has(q, salt)
    BY <2>1, <2>2 DEF Has
  <2>7. \A q \in Processes : run'[q] # NoRun => /\ finished'[q] = NoRun
                                                 /\ run'[q].task \in setting.tasks \cup {"create-vault"}
                                                 /\ q \in setting.processes
    BY <2>1, <2>2 DEF RunInv
  <2>8. QED
    BY <2>2, <2>3, <2>5, <2>6, <2>7 DEF RunInv, Named, CurrencyInv
<1>6. ASSUME NEW p, NEW succeeds \in BOOLEAN, Mines(p, succeeds)
      PROVE  RunInv'
  <2>1. UNCHANGED <<finished, drawn, setting, weth9>>
    BY <1>6 DEF Mines, bookkeeping
  <2>2. CASE UNCHANGED run \/ p \notin Processes
    <3>1. \A q \in Processes : run'[q] = run[q]
      BY <1>6, <2>2 DEF Mines, Answer, WorkInv
    <3>2. QED
      BY <2>1, <3>1 DEF RunInv, Named, Has, CurrencyInv
  <2>3. CASE ~UNCHANGED run /\ p \in Processes
    <3>1. run[p] # NoRun
      BY <1>6, <2>3, ReadyLive DEF Mines, Answer
    <3>2. \E r : /\ r = NoRun \/ SameRun(r, run[p])
                 /\ run' = [run EXCEPT ![p] = r]
      BY <1>0, <1>6, <2>3, ChangedFields DEF Mines, Answer
    <3>3. QED
      BY <2>1, <2>3, <3>1, <3>2, Continues
  <2>4. QED
    BY <2>2, <2>3
<1>7. CASE Changes
  <2>1. UNCHANGED <<run, finished, drawn, setting>> /\ setting.changes /\ weth9' \in Currencies
    BY <1>7 DEF Changes, bookkeeping
  <2>2. QED
    BY <2>1 DEF RunInv, Named, Has, CurrencyInv
<1>8. QED
  BY <1>1, <1>2, <1>3, <1>4, <1>5, <1>6, <1>7, StepForms

(***************************************************************************)
(* Every call that is, or will be, sent for a salt belongs to its run.     *)
(***************************************************************************)
\* The process waits for the i-th transaction of the pool.
AwaitsAt(q, i) == run[q].waiting /\ pool[i].by = q /\ \A j \in i + 1..Len(pool) : pool[j].by # q
TodoInv == \A p \in Processes : OwnSteps(run[p].todo, run[p].salt)
PoolInv ==
  /\ \A i \in 1..Len(pool) : \E salt \in 1..drawn : OwnCall(pool[i].call, salt)
  /\ \A i \in 1..Len(pool), q \in Processes, salt \in 1..drawn :
       About(pool[i].call, salt) /\ Has(q, salt) => AwaitsAt(q, i)

LEMMA Grows ==
  ASSUME vaults \subseteq vaults', UNCHANGED setting
  PROVE  /\ \A k, salt : OwnCall(k, salt) => OwnCall(k, salt)'
         /\ \A k, salt : About(k, salt)' => About(k, salt)
         /\ \A s, salt : OwnSteps(s, salt) => OwnSteps(s, salt)'
<1>1. \A k : Pays(k)' => Pays(k)
  BY DEF Pays
<1>2. \A v, salt : Payable(v, salt) => Payable(v, salt)'
  BY DEF Payable
<1>3. \A k, salt : OwnCall(k, salt) => OwnCall(k, salt)'
  BY <1>1, <1>2 DEF OwnCall
<1>4. \A k, salt : About(k, salt)' => About(k, salt)
  BY <1>1 DEF About
<1>5. \A x, salt : OwnStep(x, salt) => OwnStep(x, salt)'
  BY <1>3, <1>4 DEF OwnStep, OwnRead, Background, Automines
<1>6. QED
  BY <1>3, <1>4, <1>5 DEF OwnSteps, Items

LEMMA VaultsGrow ==
  ASSUME RegistryInv, MoneyInv, WorkInv, [Next]_vars
  PROVE  /\ vaults \subseteq vaults'
         /\ \A u \in Users : vaultMap[u] # Zero => vaultMap'[u] = vaultMap[u]
<1>1. UNCHANGED <<vaultMap, vaults>> \/ Recorded
  BY StepKeeps
<1>2. CASE Recorded
  <2>1. PICK u \in Users, v \in VaultAddresses : Registry!Record(u, v)
    BY <1>2 DEF Recorded
  <2>2. /\ vaultMap[u] = Zero /\ vaultMap' = [vaultMap EXCEPT ![u] = v] /\ vaults' = vaults \cup {v}
        /\ vaultMap \in [Users -> VaultAddresses \cup {Zero}]
    BY <2>1 DEF Registry!Record, RegistryInv
  <2>3. QED
    BY <2>2
<1>3. QED
  BY <1>1, <1>2

LEMMA LiveSteps ==
  ASSUME WorkInv, RunInv, TodoInv, NEW p \in Processes, Ready(p)
  PROVE  /\ run[p] # NoRun /\ DOMAIN run[p] = RunFields /\ run[p].salt \in 1..drawn
         /\ drawn \in Nat /\ 1..drawn \subseteq 1..MaxSalts
         /\ SafeStep(NextStep(p)) /\ OwnStep(NextStep(p), run[p].salt)
         /\ OwnSteps(Tail(run[p].todo), run[p].salt)
         /\ Items(run[p].todo) = {NextStep(p)} \cup Items(Tail(run[p].todo))
         /\ IsSeq(Tail(run[p].todo))
<1>1. run[p] # NoRun
  BY ReadyLive
<1>2. DOMAIN run[p] = RunFields /\ run[p].salt \in 1..drawn
  BY <1>1 DEF RunInv, Named
<1>3. drawn \in Nat /\ 1..drawn \subseteq 1..MaxSalts
  <2>1. setting.salts \in 0..MaxSalts /\ MaxSalts \in Nat /\ drawn \in 0..setting.salts
    BY FundingAssumption DEF WorkInv
  <2>2. QED
    BY <2>1
<1>4. SafeStep(NextStep(p))
  BY RestSafe
<1>5. run[p].todo # <<>> /\ OwnSteps(run[p].todo, run[p].salt)
  BY DEF Ready, TodoInv
<1>6. /\ IsSeq(Tail(run[p].todo)) /\ Items(run[p].todo) = {Head(run[p].todo)} \cup Items(Tail(run[p].todo))
  BY <1>5, ItemsTail DEF OwnSteps
<1>7. QED
  BY <1>1, <1>2, <1>3, <1>4, <1>5, <1>6 DEF OwnSteps, NextStep

LEMMA NextTodo ==
  ASSUME RegistryInv, MoneyInv, WorkInv, RunInv, TodoInv, [Next]_vars
  PROVE  TodoInv'
<1>0. DOMAIN run = Processes /\ \A p \in Processes : DOMAIN run[p] = RunFields
  BY DEF WorkInv, RunInv, Named
<1>1. vaults \subseteq vaults'
  BY VaultsGrow
<1>2. ASSUME UNCHANGED setting, NEW p \in Processes, NEW r, run' = [run EXCEPT ![p] = r],
             OwnSteps(r.todo, r.salt)
      PROVE  TodoInv'
  <2>1. run'[p] = r /\ \A q \in Processes \ {p} : run'[q] = run[q]
    BY <1>0, <1>2
  <2>2. \A q \in Processes : OwnSteps(run'[q].todo, run'[q].salt)
    BY <1>2, <2>1 DEF TodoInv
  <2>3. \A q \in Processes : OwnSteps(run[q].todo, run[q].salt)'
    <3>1. SUFFICES ASSUME NEW q \in Processes
                   PROVE  OwnSteps(run[q].todo, run[q].salt)'
      OBVIOUS
    <3>2. PICK s, t : s = run'[q].todo /\ t = run'[q].salt
      OBVIOUS
    <3>3. OwnSteps(s, t)'
      BY <1>1, <1>2, <2>2, <3>2, Grows
    <3>4. QED
      BY <3>2, <3>3
  <2>4. QED
    BY <2>3 DEF TodoInv
<1>3. ASSUME UNCHANGED setting, \A q \in Processes : run'[q] = run[q]
      PROVE  TodoInv'
  <2>1. SUFFICES ASSUME NEW q \in Processes
                 PROVE  OwnSteps(run[q].todo, run[q].salt)'
    BY DEF TodoInv
  <2>2. PICK s, t : s = run'[q].todo /\ t = run'[q].salt
    OBVIOUS
  <2>3. OwnSteps(s, t)'
    BY <1>1, <1>3, <2>2, Grows DEF TodoInv
  <2>4. QED
    BY <2>2, <2>3
<1>4. OwnSteps(NoRun.todo, NoRun.salt)
  BY OwnNone DEF NoRun
<1>5. CASE UNCHANGED vaultVars
  BY <1>3, <1>5 DEF vaultVars, bookkeeping
<1>6. ASSUME NEW p \in Processes, NEW task \in TaskNames, NEW user \in Users, Begins(p, task, user)
      PROVE  TodoInv'
  <2>1. OwnSteps(TaskSteps(task, user, drawn'), drawn')
    BY <1>6, TasksOwn DEF Begins
  <2>2. QED
    BY <1>2, <1>6, <2>1 DEF Begins
<1>7. ASSUME NEW p \in Processes, Asks(p)
      PROVE  TodoInv'
  <2>1. Ready(p) /\ NextStep(p).op = "read" /\ UNCHANGED setting
    BY <1>7 DEF Asks, bookkeeping
  <2>2. OwnSteps(Answered(p), run[p].salt)
    BY <2>1, LiveSteps, AfterOwn DEF Answered, RunInv
  <2>3. PICK todo : todo = Answered(p) \o Tail(run[p].todo)
    OBVIOUS
  <2>4. OwnSteps(todo, run[p].salt)
    BY <2>1, <2>2, <2>3, LiveSteps, OwnJoined
  <2>5. /\ run' = [run EXCEPT ![p] = [run[p] EXCEPT !.todo = todo]]
        /\ [run[p] EXCEPT !.todo = todo].todo = todo /\ [run[p] EXCEPT !.todo = todo].salt = run[p].salt
    BY <1>0, <1>7, <2>3 DEF Asks, RunFields
  <2>6. QED
    BY <1>2, <2>1, <2>4, <2>5
<1>8. ASSUME NEW p \in Processes, Sends(p) \/ Emits(p)
      PROVE  TodoInv'
  <2>1. Ready(p) /\ UNCHANGED setting
    BY <1>8 DEF Sends, Emits, bookkeeping
  <2>2. OwnSteps(Tail(run[p].todo), run[p].salt)
    BY <2>1, LiveSteps
  <2>3. \E r : /\ run' = [run EXCEPT ![p] = r] /\ r.todo = Tail(run[p].todo) /\ r.salt = run[p].salt
    <3>1. PICK t, w : t = Tail(run[p].todo) /\ w = NextStep(p).await
      OBVIOUS
    <3>2. /\ [run[p] EXCEPT !.todo = t].todo = t /\ [run[p] EXCEPT !.todo = t].salt = run[p].salt
          /\ [run[p] EXCEPT !.todo = t, !.waiting = w].todo = t
          /\ [run[p] EXCEPT !.todo = t, !.waiting = w].salt = run[p].salt
      BY <1>0 DEF RunFields
    <3>3. CASE Sends(p)
      <4>1. run' = [run EXCEPT ![p] = [run[p] EXCEPT !.todo = t]]
        BY <3>1, <3>3 DEF Sends
      <4>2. QED
        BY <3>1, <3>2, <4>1
    <3>4. CASE Emits(p)
      <4>1. run' = [run EXCEPT ![p] = [run[p] EXCEPT !.todo = t, !.waiting = w]]
        BY <3>1, <3>4 DEF Emits
      <4>2. QED
        BY <3>1, <3>2, <4>1
    <3>5. QED
      BY <1>8, <3>3, <3>4
  <2>4. QED
    BY <1>2, <2>1, <2>2, <2>3
<1>9. ASSUME NEW p \in Processes, Leaves(p) \/ Ends(p)
      PROVE  TodoInv'
  BY <1>2, <1>4, <1>9 DEF Leaves, Ends
<1>10. ASSUME NEW p, NEW succeeds \in BOOLEAN, Mines(p, succeeds)
       PROVE  TodoInv'
  <2>1. UNCHANGED setting /\ Answer(p, succeeds)
    BY <1>10 DEF Mines, bookkeeping
  <2>2. CASE UNCHANGED run \/ p \notin Processes
    <3>1. \A q \in Processes : run'[q] = run[q]
      BY <1>0, <2>1, <2>2 DEF Answer
    <3>2. QED
      BY <1>3, <2>1, <3>1
  <2>3. CASE ~UNCHANGED run /\ p \in Processes
    <3>1. \E r : /\ r = NoRun \/ (r.todo = run[p].todo /\ r.salt = run[p].salt)
                 /\ run' = [run EXCEPT ![p] = r]
      BY <1>0, <2>1, <2>3 DEF Answer, RunFields
    <3>2. QED
      BY <1>2, <1>4, <2>1, <2>3, <3>1 DEF TodoInv
  <2>4. QED
    BY <2>2, <2>3
<1>11. CASE Changes
  BY <1>3, <1>11 DEF Changes, bookkeeping
<1>12. QED
  BY <1>5, <1>6, <1>7, <1>8, <1>9, <1>10, <1>11, StepForms

\* The pool without its first transaction, and with one more.
LEMMA PoolShorter ==
  ASSUME SafePool(pool), pool # <<>>, pool' = Tail(pool)
  PROVE  /\ Len(pool) \in Nat /\ Len(pool) >= 1 /\ Len(pool') = Len(pool) - 1 /\ Head(pool) = pool[1]
         /\ \A i \in 1..Len(pool') : i + 1 \in 2..Len(pool) /\ pool'[i] = pool[i + 1]
         /\ \A i \in 2..Len(pool) : i - 1 \in 1..Len(pool') /\ pool'[i - 1] = pool[i]
<1>1. PICK S : pool \in Seq(S)
  BY DEF SafePool, IsSeq
<1>2. /\ Len(pool) \in Nat /\ Len(pool) >= 1 /\ Len(pool') = Len(pool) - 1 /\ Head(pool) = pool[1]
      /\ \A i \in 1..Len(pool') : pool'[i] = pool[i + 1]
  BY <1>1
<1>3. QED
  BY <1>2

LEMMA PoolLonger ==
  ASSUME SafePool(pool), NEW x, pool' = Append(pool, x)
  PROVE  /\ Len(pool) \in Nat /\ Len(pool') = Len(pool) + 1 /\ pool'[Len(pool')] = x
         /\ \A i \in 1..Len(pool) : pool'[i] = pool[i]
         /\ 1..Len(pool') = 1..Len(pool) \cup {Len(pool')}
<1>1. PICK S : pool \in Seq(S)
  BY DEF SafePool, IsSeq
<1>2. pool \in Seq(S \cup {x}) /\ x \in S \cup {x} /\ Len(pool) \in Nat
  BY <1>1
<1>3. /\ Len(pool') = Len(pool) + 1 /\ pool'[Len(pool) + 1] = x
      /\ \A i \in 1..Len(pool) : pool'[i] = pool[i]
  BY <1>2
<1>4. QED
  BY <1>2, <1>3

\* Who waited for a transaction behind the first one still does.
LEMMA AwaitsShorter ==
  ASSUME SafePool(pool), NEW p, NEW succeeds, Mines(p, succeeds), DOMAIN run = Processes,
         NEW q \in Processes, NEW i \in 2..Len(pool), AwaitsAt(q, i)
  PROVE  run'[q] = run[q] /\ i - 1 \in 1..Len(pool') /\ pool'[i - 1] = pool[i] /\ AwaitsAt(q, i - 1)'
<1>1. pool # <<>> /\ pool' = Tail(pool) /\ p = Head(pool).by /\ Answer(p, succeeds)
  BY DEF Mines
<1>2. run'[q] = run[q]
  BY <1>1 DEF Answer, AwaitsAt
<1>3. i - 1 \in 1..Len(pool') /\ pool'[i - 1] = pool[i]
  BY <1>1, PoolShorter
<1>4. ASSUME NEW j \in (i - 1) + 1..Len(pool')
      PROVE  pool'[j].by # q
  <2>1. j \in 1..Len(pool') /\ j + 1 \in i + 1..Len(pool)
    BY <1>1, <1>3, PoolShorter
  <2>2. QED
    BY <1>1, <2>1, PoolShorter DEF AwaitsAt
<1>5. QED
  BY <1>2, <1>3, <1>4 DEF AwaitsAt

LEMMA NextPool ==
  ASSUME RegistryInv, MoneyInv, WorkInv, RunInv, TodoInv, PoolInv, [Next]_vars
  PROVE  PoolInv'
<1>0. /\ DOMAIN run = Processes /\ SafePool(pool)
      /\ \A p \in Processes : run[p] # NoRun => finished[p] = NoRun
      /\ NoRun.waiting = FALSE
  BY DEF WorkInv, RunInv, NoRun
<1>1. vaults \subseteq vaults'
  BY VaultsGrow
<1>2. \A i \in 1..Len(pool) : \A salt : About(pool[i].call, salt) => salt = Fixed \/ salt \in 1..drawn
  BY DEF PoolInv, OwnCall, About, Payable
\* Steps of a process that waits for nothing, or leaves, and of the currency.
<1>3. ASSUME UNCHANGED <<pool, setting, drawn>>,
             \A q \in Processes, salt \in 1..drawn : Has(q, salt)' => Has(q, salt),
             \A q \in Processes : \/ run'[q] = run[q] \/ ~run[q].waiting
                                  \/ \A salt \in 1..drawn : ~Has(q, salt)'
      PROVE  PoolInv'
  <2>1. \A i \in 1..Len(pool') : \E salt \in 1..drawn' : OwnCall(pool[i].call, salt)'
    <3>1. SUFFICES ASSUME NEW i \in 1..Len(pool)
                   PROVE  \E salt \in 1..drawn : OwnCall(pool[i].call, salt)'
      BY <1>3
    <3>2. PICK salt, k : salt \in 1..drawn /\ k = pool[i].call /\ OwnCall(k, salt)
      BY DEF PoolInv
    <3>3. OwnCall(k, salt)' /\ k = pool'[i].call
      BY <1>1, <1>3, <3>2, Grows
    <3>4. QED
      BY <3>2, <3>3
  <2>2. ASSUME NEW i \in 1..Len(pool'), NEW q \in Processes, NEW salt \in 1..drawn',
               About(pool[i].call, salt)', Has(q, salt)'
        PROVE  AwaitsAt(q, i)'
    <3>1. PICK k : k = pool[i].call
      OBVIOUS
    <3>2. About(k, salt)'
      BY <1>3, <2>2, <3>1
    <3>3. About(k, salt)
      BY <1>1, <1>3, <3>2, Grows
    <3>4. AwaitsAt(q, i)
      BY <1>3, <2>2, <3>1, <3>3 DEF PoolInv
    <3>5. QED
      BY <1>3, <2>2, <3>4 DEF AwaitsAt
  <2>3. QED
    BY <2>1, <2>2 DEF PoolInv
<1>4. CASE UNCHANGED vaultVars
  BY <1>3, <1>4 DEF vaultVars, bookkeeping, Has
<1>5. ASSUME NEW p \in Processes, NEW task \in TaskNames, NEW user \in Users, Begins(p, task, user)
      PROVE  PoolInv'
  <2>1. /\ UNCHANGED <<pool, setting>> /\ drawn' = drawn + 1 /\ drawn \in Nat
        /\ run'[p].salt = drawn' /\ \A q \in Processes \ {p} : run'[q] = run[q]
        /\ finished'[p] = NoRun /\ \A q \in Processes \ {p} : finished'[q] = finished[q]
    BY <1>5, FundingAssumption DEF Begins, WorkInv, RunInv
  <2>2. \A i \in 1..Len(pool') : \E salt \in 1..drawn' : OwnCall(pool[i].call, salt)'
    <3>1. SUFFICES ASSUME NEW i \in 1..Len(pool)
                   PROVE  \E salt \in 1..drawn' : OwnCall(pool[i].call, salt)'
      BY <2>1
    <3>2. PICK salt, k : salt \in 1..drawn /\ k = pool[i].call /\ OwnCall(k, salt)
      BY DEF PoolInv
    <3>3. OwnCall(k, salt)' /\ k = pool'[i].call /\ salt \in 1..drawn'
      BY <1>1, <2>1, <3>2, Grows
    <3>4. QED
      BY <3>3
  <2>3. ASSUME NEW i \in 1..Len(pool'), NEW q \in Processes, NEW salt \in 1..drawn',
               About(pool[i].call, salt)', Has(q, salt)'
        PROVE  AwaitsAt(q, i)'
    <3>1. PICK k : k = pool[i].call
      OBVIOUS
    <3>2. About(k, salt)'
      BY <2>1, <2>3, <3>1
    <3>3. About(k, salt)
      BY <1>1, <2>1, <3>2, Grows
    <3>4. salt \in 1..drawn
      <4>1. salt = Fixed \/ salt \in 1..drawn
        BY <1>2, <2>1, <3>1, <3>3
      <4>2. salt # Fixed
        BY <2>1 DEF Fixed
      <4>3. QED
        BY <4>1, <4>2
    <3>5. q # p /\ Has(q, salt)
      BY <2>1, <2>3, <3>4 DEF Has
    <3>6. AwaitsAt(q, i)
      BY <2>1, <3>1, <3>3, <3>4, <3>5 DEF PoolInv
    <3>7. QED
      BY <2>1, <3>5, <3>6 DEF AwaitsAt
  <2>4. QED
    BY <2>2, <2>3 DEF PoolInv
<1>6. ASSUME NEW p \in Processes, Asks(p) \/ Sends(p) \/ Leaves(p) \/ Ends(p)
      PROVE  PoolInv'
  <2>1. UNCHANGED <<pool, setting, drawn>> /\ run[p] # NoRun
    BY <1>6, ReadyLive DEF Asks, Sends, Leaves, Ends, bookkeeping
  <2>2. \A q \in Processes \ {p} : run'[q] = run[q] /\ finished'[q] = finished[q]
    BY <1>0, <1>6 DEF Asks, Sends, Leaves, Ends, bookkeeping, RunInv
  <2>3. CASE Asks(p) \/ Sends(p)
    <3>1. ~run[p].waiting /\ UNCHANGED finished
      BY <2>3 DEF Asks, Sends, Ready, bookkeeping
    <3>2. run'[p].salt = run[p].salt
      BY <1>0, <2>3 DEF Asks, Sends, RunInv, Named, RunFields
    <3>3. QED
      BY <1>3, <2>1, <2>2, <3>1, <3>2 DEF Has
  <2>4. CASE Leaves(p)
    <3>1. run'[p] = NoRun /\ finished'[p] = NoRun
      BY <1>0, <2>1, <2>4 DEF Leaves
    <3>2. QED
      BY <1>3, <2>1, <2>2, <3>1 DEF Has
  <2>5. CASE Ends(p)
    <3>1. run'[p] = NoRun /\ finished'[p] = run[p] /\ ~run[p].waiting
      BY <1>0, <2>5 DEF Ends, RunInv
    <3>2. QED
      BY <1>3, <2>1, <2>2, <3>1 DEF Has
  <2>6. QED
    BY <1>6, <2>3, <2>4, <2>5
<1>7. ASSUME NEW p \in Processes, Emits(p)
      PROVE  PoolInv'
  <2>1. /\ Ready(p) /\ NextStep(p).op = "send" /\ pool' = Append(pool, Tx(p))
        /\ UNCHANGED <<vaults, setting, drawn, finished>>
    BY <1>7 DEF Emits, bookkeeping, chainVars
  <2>2. /\ \A q \in Processes \ {p} : run'[q] = run[q]
        /\ run'[p].salt = run[p].salt /\ run'[p].waiting = NextStep(p).await /\ ~run[p].waiting
    BY <1>0, <1>7, <2>1 DEF Emits, RunInv, Named, RunFields, Ready
  <2>3. PICK n, k : n = Len(pool') /\ k = NextStep(p).call /\ Tx(p).call = k /\ Tx(p).by = p
    BY DEF Tx
  <2>4. /\ n = Len(pool) + 1 /\ Len(pool) \in Nat /\ pool'[n].call = k /\ pool'[n].by = p
        /\ 1..Len(pool') = 1..Len(pool) \cup {n} /\ \A i \in 1..Len(pool) : pool'[i] = pool[i]
    BY <1>0, <2>1, <2>3, PoolLonger
  <2>5. /\ run[p] # NoRun /\ run[p].salt \in 1..drawn /\ OwnCall(k, run[p].salt)
        /\ \A salt \in 1..drawn : About(k, salt) => salt = run[p].salt /\ NextStep(p).await = TRUE
    <3>1. /\ run[p] # NoRun /\ run[p].salt \in 1..drawn /\ drawn \in Nat
          /\ OwnStep(NextStep(p), run[p].salt)
      BY <2>1, LiveSteps
    <3>2. OwnCall(k, run[p].salt) /\ (About(k, run[p].salt) => NextStep(p).await = TRUE)
      BY <2>1, <2>3, <3>1 DEF OwnStep
    <3>3. \A salt \in 1..drawn : About(k, salt) => salt \in {run[p].salt, Fixed}
      BY <3>2 DEF OwnCall, About, Payable
    <3>4. \A salt \in 1..drawn : salt # Fixed
      BY <3>1 DEF Fixed
    <3>5. QED
      BY <3>1, <3>2, <3>3, <3>4
  <2>6. \A i \in 1..Len(pool') : \E salt \in 1..drawn' : OwnCall(pool[i].call, salt)'
    <3>1. SUFFICES ASSUME NEW i \in 1..Len(pool')
                   PROVE  \E salt \in 1..drawn : OwnCall(pool[i].call, salt)'
      BY <2>1
    <3>2. PICK salt, c : salt \in 1..drawn /\ c = pool'[i].call /\ OwnCall(c, salt)
      BY <2>4, <2>5 DEF PoolInv
    <3>3. OwnCall(c, salt)'
      BY <1>1, <2>1, <3>2, Grows
    <3>4. QED
      BY <3>2, <3>3
  <2>7. \A q \in Processes, salt \in 1..drawn : Has(q, salt)' => Has(q, salt)
    BY <2>1, <2>2, <2>5 DEF Has
  <2>8. ASSUME NEW i \in 1..Len(pool'), NEW q \in Processes, NEW salt \in 1..drawn',
               About(pool[i].call, salt)', Has(q, salt)'
        PROVE  AwaitsAt(q, i)'
    <3>1. PICK c : c = pool'[i].call
      OBVIOUS
    <3>2. About(c, salt)'
      BY <2>8, <3>1
    <3>3. About(c, salt) /\ Has(q, salt)
      BY <1>1, <2>1, <2>7, <2>8, <3>2, Grows
    <3>4. CASE i = n
      <4>1. salt = run[p].salt /\ NextStep(p).await = TRUE
        BY <2>1, <2>4, <2>5, <2>8, <3>1, <3>3, <3>4
      <4>2. Has(p, salt)
        BY <2>5, <4>1 DEF Has
      <4>3. q = p
        BY <2>1, <2>8, <3>3, <4>2 DEF RunInv
      <4>4. n + 1..Len(pool') = {}
        BY <2>3, <2>4
      <4>5. QED
        BY <2>2, <2>4, <3>4, <4>1, <4>3, <4>4 DEF AwaitsAt
    <3>5. CASE i \in 1..Len(pool)
      <4>1. AwaitsAt(q, i)
        BY <2>1, <2>4, <2>8, <3>1, <3>3, <3>5 DEF PoolInv
      <4>2. q # p
        BY <2>2, <4>1 DEF AwaitsAt
      <4>3. i + 1..Len(pool') = (i + 1..Len(pool)) \cup {n}
        BY <2>3, <2>4, <3>5
      <4>4. QED
        BY <2>2, <2>4, <3>5, <4>1, <4>2, <4>3 DEF AwaitsAt
    <3>6. QED
      BY <2>4, <3>4, <3>5
  <2>9. QED
    BY <2>6, <2>8 DEF PoolInv
<1>8. ASSUME NEW p, NEW succeeds \in BOOLEAN, Mines(p, succeeds)
      PROVE  PoolInv'
  <2>1. /\ pool # <<>> /\ pool' = Tail(pool) /\ Answer(p, succeeds)
        /\ UNCHANGED <<setting, drawn, finished>>
    BY <1>8 DEF Mines, bookkeeping
  <2>2. \A q \in Processes : run'[q] # NoRun => run[q] # NoRun /\ run'[q].salt = run[q].salt
    BY <1>0, <2>1, ReadyLive DEF Answer, RunInv, Named, RunFields
  <2>3. \A q \in Processes, salt \in 1..drawn : Has(q, salt)' => Has(q, salt)
    BY <2>1, <2>2 DEF Has
  <2>4. \A i \in 1..Len(pool') : \E salt \in 1..drawn' : OwnCall(pool[i].call, salt)'
    <3>1. SUFFICES ASSUME NEW i \in 1..Len(pool')
                   PROVE  \E salt \in 1..drawn : OwnCall(pool[i].call, salt)'
      BY <2>1
    <3>2. i + 1 \in 1..Len(pool) /\ pool'[i] = pool[i + 1]
      BY <1>0, <2>1, PoolShorter
    <3>3. PICK salt, c : salt \in 1..drawn /\ c = pool'[i].call /\ OwnCall(c, salt)
      BY <3>2 DEF PoolInv
    <3>4. OwnCall(c, salt)'
      BY <1>1, <2>1, <3>3, Grows
    <3>5. QED
      BY <3>3, <3>4
  <2>5. ASSUME NEW i \in 1..Len(pool'), NEW q \in Processes, NEW salt \in 1..drawn',
               About(pool[i].call, salt)', Has(q, salt)'
        PROVE  AwaitsAt(q, i)'
    <3>1. PICK c : c = pool'[i].call
      OBVIOUS
    <3>2. About(c, salt)'
      BY <2>5, <3>1
    <3>3. About(c, salt) /\ Has(q, salt)
      BY <1>1, <2>1, <2>3, <2>5, <3>2, Grows
    <3>4. i \in Nat /\ i + 1 \in 2..Len(pool) /\ i + 1 \in 1..Len(pool) /\ pool'[i] = pool[i + 1]
      BY <1>0, <2>1, PoolShorter
    <3>5. AwaitsAt(q, i + 1)
      BY <2>1, <2>5, <3>1, <3>3, <3>4 DEF PoolInv
    <3>6. AwaitsAt(q, (i + 1) - 1)'
      BY <1>0, <1>8, <3>4, <3>5, AwaitsShorter
    <3>7. (i + 1) - 1 = i
      BY <3>4
    <3>8. QED
      BY <3>6, <3>7
  <2>6. QED
    BY <2>4, <2>5 DEF PoolInv
<1>9. CASE Changes
  BY <1>3, <1>9 DEF Changes, bookkeeping, Has
<1>10. QED
  BY <1>4, <1>5, <1>6, <1>7, <1>8, <1>9, StepForms

(***************************************************************************)
(* A task that creates a vault, until the user has one, still has to look  *)
(* for it, to create it, or to hear of the transaction that does.          *)
(***************************************************************************)
Builders == {"create-vault", "poc", "bootstrap-user"}
UserOf(r) == IF r.task = "poc" THEN Bob ELSE r.user
LooksFor(x, u) ==
  /\ x.op = "read" /\ x.what = "vault" /\ x.of = u
  /\ (x.then.then = "create" /\ x.then.user = u) \/ (x.then.then = "pocVault" /\ u = Bob)
Makes(x, u) == Creates(x, u) \/ LooksFor(x, u)
AwaitsVault(q, u) ==
  \E i \in 1..Len(pool) :
    pool[i].call.fn = "createVault" /\ pool[i].call.user = u /\ AwaitsAt(q, i)
Provides(q, u) ==
  vaultMap[u] # Zero \/ (\E x \in Items(run[q].todo) : Makes(x, u)) \/ AwaitsVault(q, u)
MakerInv ==
  \A p \in Processes :
    /\ run[p] # NoRun /\ run[p].task \in Builders => Provides(p, UserOf(run[p]))
    /\ finished[p] # NoRun /\ finished[p].task \in Builders => vaultMap[UserOf(finished[p])] # Zero

LEMMA ReadItem ==
  ASSUME NEW what, NEW of, NEW then
  PROVE  /\ IsSeq(Read(what, of, then))
         /\ Items(Read(what, of, then)) = {[op |-> "read", what |-> what, of |-> of, then |-> then]}
BY ItemsOne DEF Read

LEMMA SendItem ==
  ASSUME NEW k
  PROVE  /\ IsSeq(Send(k))
         /\ Items(Send(k)) = {[op |-> "send", call |-> k, await |-> TRUE]}
BY ItemsOne DEF Send

LEMMA LookItem ==
  ASSUME NEW user, NEW salt
  PROVE  /\ \E x \in Items(Read("vault", user, [then |-> "create", user |-> user, salt |-> salt])) :
              Makes(x, user)
         /\ \E x \in Items(Read("vault", Bob, [then |-> "pocVault", salt |-> salt])) : Makes(x, Bob)
         /\ \E x \in Items(Send(CreateVault(user, salt))) : Makes(x, user)
<1>1. PICK x : x = [op |-> "read", what |-> "vault", of |-> user,
                    then |-> [then |-> "create", user |-> user, salt |-> salt]]
  OBVIOUS
<1>2. Makes(x, user)
  <2>1. x.op = "read" /\ x.what = "vault" /\ x.of = user /\ x.then.then = "create" /\ x.then.user = user
    BY <1>1
  <2>2. QED
    BY <2>1 DEF Makes, LooksFor
<1>3. PICK y : y = [op |-> "read", what |-> "vault", of |-> Bob,
                    then |-> [then |-> "pocVault", salt |-> salt]]
  OBVIOUS
<1>4. Makes(y, Bob)
  <2>1. y.op = "read" /\ y.what = "vault" /\ y.of = Bob /\ y.then.then = "pocVault"
    BY <1>3
  <2>2. QED
    BY <2>1 DEF Makes, LooksFor
<1>5. PICK z : z = [op |-> "send", call |-> CreateVault(user, salt), await |-> TRUE]
  OBVIOUS
<1>6. Makes(z, user)
  <2>1. z.op = "send" /\ z.await = TRUE /\ z.call.fn = "createVault" /\ z.call.user = user
    BY <1>5 DEF CreateVault
  <2>2. QED
    BY <2>1 DEF Makes, Creates
<1>7. x \in Items(Read("vault", user, [then |-> "create", user |-> user, salt |-> salt]))
  BY <1>1, ReadItem
<1>8. y \in Items(Read("vault", Bob, [then |-> "pocVault", salt |-> salt]))
  BY <1>3, ReadItem
<1>9. z \in Items(Send(CreateVault(user, salt)))
  BY <1>5, SendItem
<1>10. QED
  BY <1>2, <1>4, <1>6, <1>7, <1>8, <1>9

LEMMA BeginsMake ==
  ASSUME NEW task \in Builders, NEW user, NEW salt
  PROVE  \E x \in Items(TaskSteps(task, user, salt)) :
           Makes(x, IF task = "poc" THEN Bob ELSE user)
<1>1. \E x \in Items(Read("vault", user, [then |-> "create", user |-> user, salt |-> salt])) :
        Makes(x, user)
  BY LookItem
<1>2. /\ IsSeq(CreateVaultTask(user, salt))
      /\ \E x \in Items(CreateVaultTask(user, salt)) : Makes(x, user)
  BY <1>1, ReadItem, ItemsJoined DEF CreateVaultTask
<1>3. CASE task = "create-vault"
  BY <1>2, <1>3 DEF TaskSteps
<1>4. CASE task = "bootstrap-user"
  <2>1. PICK a, b, c : /\ a = Read("eth", user, [then |-> "topUpETH", user |-> user])
                       /\ b = Read("weth", user, [then |-> "topUpWETH", user |-> user])
                       /\ c = Read("vault", user, [then |-> "fund", sender |-> Owner, sendETH |-> TRUE])
    OBVIOUS
  <2>2. IsSeq(a) /\ IsSeq(b) /\ IsSeq(c)
    BY <2>1, ReadItem
  <2>3. \E x \in Items(a \o b \o CreateVaultTask(user, salt) \o c) : Makes(x, user)
    BY <1>2, <2>2, ItemsJoined
  <2>4. QED
    BY <1>4, <2>1, <2>3 DEF TaskSteps, BootstrapUser
<1>5. CASE task = "poc"
  <2>1. \E x \in Items(Read("vault", Bob, [then |-> "pocVault", salt |-> Fixed])) : Makes(x, Bob)
    BY LookItem
  <2>2. \E x \in Items(Poc(salt)) : Makes(x, Bob)
    BY <2>1, ReadItem, ItemsJoined DEF Poc
  <2>3. QED
    BY <1>5, <2>2 DEF TaskSteps
<1>6. QED
  BY <1>3, <1>4, <1>5 DEF Builders

\* Who looks for the vault and finds none goes on to create it.
LEMMA LookedFor ==
  ASSUME NEW x, NEW u, LooksFor(x, u), NEW v, v = vaultMap[u], v = Zero
  PROVE  \E y \in Items(After(x.then, v)) : Makes(y, u)
<1>1. CASE x.then.then = "create"
  <2>1. After(x.then, v) = Send(CreateVault(u, x.then.salt))
    BY <1>1 DEF After, CreateIfNone, When, LooksFor
  <2>2. QED
    BY <2>1, LookItem
<1>2. CASE x.then.then = "pocVault"
  <2>1. u = Bob
    BY <1>2 DEF LooksFor
  <2>2. After(x.then, v) = Send(CreateVault(Bob, x.then.salt)) \o Read("vault", Bob, [then |-> "pocFill"])
    BY <1>2 DEF After, When
  <2>3. \E y \in Items(Send(CreateVault(Bob, x.then.salt))) : Makes(y, Bob)
    BY LookItem
  <2>4. QED
    BY <2>1, <2>2, <2>3, SendItem, ReadItem, ItemsJoined
<1>3. QED
  BY <1>1, <1>2 DEF LooksFor

LEMMA CreatedExists ==
  ASSUME RegistryInv, NEW k, SafeCall(k), Execute(k), k.fn = "createVault"
  PROVE  k.user \in Users /\ vaultMap'[k.user] # Zero
<1>1. /\ vaultMap' = [vaultMap EXCEPT ![k.user] = VaultAt(k.user, k.salt)]
      /\ k.user \in Users /\ k.salt \in Salts
  BY DEF Execute, ExecuteSendETH, ExecuteWETH9, ExecuteCreateVault, SafeCall
<1>2. VaultAt(k.user, k.salt) \in VaultAddresses
  BY <1>1, VaultAtAddress DEF RegistryInv
<1>3. QED
  BY <1>1, <1>2, FundingAssumption DEF RegistryInv

LEMMA NextMaker ==
  ASSUME RegistryInv, MoneyInv, WorkInv, RunInv, TodoInv, MakerInv, [Next]_vars
  PROVE  MakerInv'
<1>0. /\ DOMAIN run = Processes /\ SafePool(pool) /\ DOMAIN finished = Processes
      /\ \A p \in Processes : DOMAIN run[p] = RunFields /\ (run[p] # NoRun => finished[p] = NoRun)
      /\ \A p \in Processes : run[p] # NoRun => run[p].user \in Users
      /\ \A p \in Processes : finished[p] # NoRun => finished[p].user \in Users
      /\ Bob \in Users
  BY AddressTypes DEF WorkInv, RunInv, Named
<1>1. \A u \in Users : vaultMap[u] # Zero => vaultMap'[u] # Zero
  BY VaultsGrow
<1>2. /\ \A p \in Processes : run[p] # NoRun => UserOf(run[p]) \in Users
      /\ \A p \in Processes : finished[p] # NoRun => UserOf(finished[p]) \in Users
  BY <1>0 DEF UserOf
\* One process has changed; the others see the same transactions.
<1>3. ASSUME NEW p \in Processes, UNCHANGED <<pool, finished>>,
             \A q \in Processes \ {p} : run'[q] = run[q],
             run'[p] # NoRun /\ run'[p].task \in Builders => Provides(p, UserOf(run[p]))'
      PROVE  MakerInv'
  <2>1. SUFFICES ASSUME NEW q \in Processes
                 PROVE  /\ run'[q] # NoRun /\ run'[q].task \in Builders => Provides(q, UserOf(run[q]))'
                        /\ finished'[q] # NoRun /\ finished'[q].task \in Builders
                             => vaultMap'[UserOf(finished'[q])] # Zero
    BY DEF MakerInv
  <2>2. finished'[q] # NoRun /\ finished'[q].task \in Builders => vaultMap'[UserOf(finished'[q])] # Zero
    BY <1>1, <1>2, <1>3 DEF MakerInv
  <2>3. ASSUME q # p, run'[q] # NoRun, run'[q].task \in Builders
        PROVE  Provides(q, UserOf(run[q]))'
    <3>1. run'[q] = run[q] /\ Provides(q, UserOf(run[q])) /\ UserOf(run[q]) \in Users
      BY <1>2, <1>3, <2>3 DEF MakerInv
    <3>2. PICK u \in Users : u = UserOf(run[q])
      BY <3>1
    <3>3. Provides(q, u)'
      BY <1>1, <1>3, <3>1, <3>2 DEF Provides, AwaitsVault, AwaitsAt
    <3>4. QED
      BY <3>1, <3>2, <3>3
  <2>4. QED
    BY <1>3, <2>2, <2>3
<1>4. ASSUME UNCHANGED <<pool, finished, run>>
      PROVE  MakerInv'
  <2>1. SUFFICES ASSUME NEW q \in Processes, run[q] # NoRun, run[q].task \in Builders
                 PROVE  Provides(q, UserOf(run[q]))'
    BY <1>1, <1>2, <1>4 DEF MakerInv
  <2>2. PICK u \in Users : u = UserOf(run[q]) /\ Provides(q, u)
    BY <1>2, <2>1 DEF MakerInv
  <2>3. Provides(q, u)'
    BY <1>1, <1>4, <2>2 DEF Provides, AwaitsVault, AwaitsAt
  <2>4. QED
    BY <1>4, <2>2, <2>3
<1>5. CASE UNCHANGED vaultVars
  BY <1>4, <1>5 DEF vaultVars, bookkeeping
<1>6. ASSUME NEW p \in Processes, NEW task \in TaskNames, NEW user \in Users, Begins(p, task, user)
      PROVE  MakerInv'
  <2>1. PICK r : r = [task |-> task, user |-> user, salt |-> drawn', waiting |-> FALSE,
                      todo |-> TaskSteps(task, user, drawn')]
    OBVIOUS
  <2>2. /\ run'[p] = r /\ \A q \in Processes \ {p} : run'[q] = run[q]
        /\ finished'[p] = NoRun /\ \A q \in Processes \ {p} : finished'[q] = finished[q]
        /\ UNCHANGED <<pool, vaultMap>> /\ run[p] = NoRun
    BY <1>0, <1>6, <2>1 DEF Begins, chainVars
  <2>3. r.task = task /\ r.todo = TaskSteps(task, user, drawn')
        /\ UserOf(r) = IF task = "poc" THEN Bob ELSE user
    BY <2>1 DEF UserOf
  <2>4. task \in Builders => \E x \in Items(r.todo) : Makes(x, UserOf(r))
    BY <2>3, BeginsMake
  <2>5. SUFFICES ASSUME NEW q \in Processes
                 PROVE  /\ run'[q] # NoRun /\ run'[q].task \in Builders => Provides(q, UserOf(run[q]))'
                        /\ finished'[q] # NoRun /\ finished'[q].task \in Builders
                             => vaultMap'[UserOf(finished'[q])] # Zero
    BY DEF MakerInv
  <2>6. CASE q = p
    <3>1. r.task \in Builders => Provides(p, UserOf(run[p]))'
      BY <2>2, <2>3, <2>4 DEF Provides
    <3>2. QED
      BY <2>2, <2>6, <3>1
  <2>7. CASE q # p
    <3>1. run'[q] = run[q] /\ finished'[q] = finished[q]
      BY <2>2, <2>7
    <3>2. ASSUME run[q] # NoRun, run[q].task \in Builders
          PROVE  Provides(q, UserOf(run[q]))'
      <4>1. PICK u : u = UserOf(run[q]) /\ Provides(q, u)
        BY <3>2 DEF MakerInv
      <4>2. Provides(q, u)'
        BY <2>2, <3>1, <4>1 DEF Provides, AwaitsVault, AwaitsAt
      <4>3. QED
        BY <3>1, <4>1, <4>2
    <3>3. QED
      BY <2>2, <3>1, <3>2 DEF MakerInv
  <2>8. QED
    BY <2>6, <2>7
<1>7. ASSUME NEW p \in Processes, Asks(p)
      PROVE  MakerInv'
  <2>1. Ready(p) /\ NextStep(p).op = "read" /\ UNCHANGED <<pool, finished, vaultMap>>
    BY <1>7 DEF Asks, bookkeeping, chainVars
  <2>2. PICK todo : todo = Answered(p) \o Tail(run[p].todo)
    OBVIOUS
  <2>3. /\ run'[p] = [run[p] EXCEPT !.todo = todo] /\ \A q \in Processes \ {p} : run'[q] = run[q]
    BY <1>0, <1>7, <2>2 DEF Asks
  <2>4. run'[p].todo = todo /\ run'[p].task = run[p].task /\ run'[p].user = run[p].user
    BY <1>0, <2>3, ChangedFields DEF SameRun
  <2>5. /\ run[p] # NoRun /\ ~run[p].waiting /\ IsSeq(Tail(run[p].todo))
        /\ SafeStep(NextStep(p)) /\ OwnStep(NextStep(p), run[p].salt) /\ run[p].salt \in 1..MaxSalts
        /\ Items(run[p].todo) = {NextStep(p)} \cup Items(Tail(run[p].todo))
    BY <2>1, LiveSteps DEF Ready
  <2>6. IsSeq(Answered(p))
    BY <2>1, <2>5, AfterOwn DEF Answered, OwnSteps, RunInv
  <2>7. Items(todo) = Items(Answered(p)) \cup Items(Tail(run[p].todo))
    BY <2>2, <2>5, <2>6, ItemsJoined
  <2>8. ASSUME run[p].task \in Builders
        PROVE  Provides(p, UserOf(run[p]))'
    <3>1. PICK u \in Users : u = UserOf(run[p]) /\ Provides(p, u) /\ u = UserOf(run'[p])
      BY <1>2, <2>4, <2>5, <2>8 DEF MakerInv, UserOf
    <3>2. ~AwaitsVault(p, u)
      BY <2>5 DEF AwaitsVault, AwaitsAt
    <3>3. CASE vaultMap[u] # Zero
      BY <2>1, <3>1, <3>3 DEF Provides
    <3>4. CASE vaultMap[u] = Zero /\ \E x \in Items(Tail(run[p].todo)) : Makes(x, u)
      BY <2>4, <2>7, <3>1, <3>4 DEF Provides
    <3>5. CASE vaultMap[u] = Zero /\ Makes(NextStep(p), u)
      <4>1. LooksFor(NextStep(p), u)
        BY <2>1, <3>5 DEF Makes, Creates
      <4>2. PICK v : v = Value(NextStep(p).what, NextStep(p).of)
        OBVIOUS
      <4>3. v = vaultMap[u] /\ Answered(p) = After(NextStep(p).then, v)
        BY <4>1, <4>2 DEF LooksFor, Value, Answered
      <4>4. \E x \in Items(Answered(p)) : Makes(x, u)
        BY <3>5, <4>1, <4>3, LookedFor
      <4>5. QED
        BY <2>4, <2>7, <3>1, <4>4 DEF Provides
    <3>6. QED
      BY <2>5, <3>1, <3>2, <3>3, <3>4, <3>5 DEF Provides
  <2>9. QED
    BY <1>3, <2>1, <2>3, <2>4, <2>8
<1>8. ASSUME NEW p \in Processes, Sends(p)
      PROVE  MakerInv'
  <2>1. /\ Ready(p) /\ NextStep(p).op = "send" /\ Execute(NextStep(p).call)
        /\ UNCHANGED <<pool, finished>>
    BY <1>8 DEF Sends, bookkeeping
  <2>2. PICK todo : todo = Tail(run[p].todo)
    OBVIOUS
  <2>3. /\ run'[p] = [run[p] EXCEPT !.todo = todo] /\ \A q \in Processes \ {p} : run'[q] = run[q]
    BY <1>0, <1>8, <2>2 DEF Sends
  <2>4. run'[p].todo = todo /\ run'[p].task = run[p].task /\ run'[p].user = run[p].user
    BY <1>0, <2>3, ChangedFields DEF SameRun
  <2>5. /\ run[p] # NoRun /\ ~run[p].waiting /\ SafeCall(NextStep(p).call)
        /\ Items(run[p].todo) = {NextStep(p)} \cup Items(todo)
    BY <2>1, <2>2, LiveSteps DEF Ready, SafeStep
  <2>6. ASSUME run[p].task \in Builders
        PROVE  Provides(p, UserOf(run[p]))'
    <3>1. PICK u \in Users : u = UserOf(run[p]) /\ Provides(p, u) /\ u = UserOf(run'[p])
      BY <1>2, <2>4, <2>5, <2>6 DEF MakerInv, UserOf
    <3>2. ~AwaitsVault(p, u)
      BY <2>5 DEF AwaitsVault, AwaitsAt
    <3>3. CASE vaultMap[u] # Zero
      BY <1>1, <3>1, <3>3 DEF Provides
    <3>4. CASE \E x \in Items(todo) : Makes(x, u)
      BY <2>4, <3>1, <3>4 DEF Provides
    <3>5. CASE Makes(NextStep(p), u)
      <4>1. NextStep(p).call.fn = "createVault" /\ NextStep(p).call.user = u
        BY <2>1, <3>5 DEF Makes, Creates, LooksFor
      <4>2. vaultMap'[u] # Zero
        BY <2>1, <2>5, <4>1, CreatedExists
      <4>3. QED
        BY <3>1, <4>2 DEF Provides
    <3>6. QED
      BY <2>5, <3>1, <3>2, <3>3, <3>4, <3>5 DEF Provides
  <2>7. QED
    BY <1>3, <2>1, <2>3, <2>4, <2>6
<1>9. ASSUME NEW p \in Processes, Emits(p)
      PROVE  MakerInv'
  <2>1. /\ Ready(p) /\ NextStep(p).op = "send" /\ pool' = Append(pool, Tx(p))
        /\ UNCHANGED <<finished, vaultMap>>
    BY <1>9 DEF Emits, bookkeeping, chainVars
  <2>2. PICK todo, w : todo = Tail(run[p].todo) /\ w = NextStep(p).await
    OBVIOUS
  <2>3. /\ run'[p] = [run[p] EXCEPT !.todo = todo, !.waiting = w]
        /\ \A q \in Processes \ {p} : run'[q] = run[q]
    BY <1>0, <1>9, <2>2 DEF Emits
  <2>4. /\ run'[p].todo = todo /\ run'[p].task = run[p].task /\ run'[p].user = run[p].user
        /\ run'[p].waiting = w
    BY <1>0, <2>3, ChangedFields DEF SameRun
  <2>5. /\ run[p] # NoRun /\ ~run[p].waiting
        /\ Items(run[p].todo) = {NextStep(p)} \cup Items(todo)
    BY <2>1, <2>2, LiveSteps DEF Ready
  <2>6. PICK n, k : n = Len(pool') /\ k = NextStep(p).call /\ Tx(p).call = k /\ Tx(p).by = p
    BY DEF Tx
  <2>7. /\ n = Len(pool) + 1 /\ Len(pool) \in Nat /\ pool'[n].call = k /\ pool'[n].by = p
        /\ 1..Len(pool') = 1..Len(pool) \cup {n} /\ \A i \in 1..Len(pool) : pool'[i] = pool[i]
    BY <1>0, <2>1, <2>6, PoolLonger
  <2>8. SUFFICES ASSUME NEW q \in Processes, run'[q] # NoRun, run'[q].task \in Builders
                 PROVE  Provides(q, UserOf(run[q]))'
    BY <2>1 DEF MakerInv
  <2>9. PICK u \in Users : u = UserOf(run[q]) /\ Provides(q, u) /\ u = UserOf(run'[q])
    BY <1>2, <2>3, <2>4, <2>5, <2>8 DEF MakerInv, UserOf
  <2>10. CASE vaultMap[u] # Zero
    BY <2>1, <2>9, <2>10 DEF Provides
  <2>11. CASE q = p /\ \E x \in Items(todo) : Makes(x, u)
    BY <2>4, <2>9, <2>11 DEF Provides
  <2>12. CASE q = p /\ Makes(NextStep(p), u)
    <3>1. k.fn = "createVault" /\ k.user = u /\ w = TRUE
      BY <2>1, <2>2, <2>6, <2>12 DEF Makes, Creates, LooksFor
    <3>2. n \in 1..Len(pool') /\ n + 1..Len(pool') = {}
      BY <2>6, <2>7
    <3>3. AwaitsVault(p, u)'
      BY <2>4, <2>7, <3>1, <3>2 DEF AwaitsVault, AwaitsAt
    <3>4. QED
      BY <2>9, <2>12, <3>3 DEF Provides
  <2>13. CASE q = p /\ AwaitsVault(p, u)
    BY <2>5, <2>13 DEF AwaitsVault, AwaitsAt
  <2>14. CASE q # p /\ \E x \in Items(run[q].todo) : Makes(x, u)
    BY <2>3, <2>9, <2>14 DEF Provides
  <2>15. CASE q # p /\ AwaitsVault(q, u)
    <3>1. PICK i \in 1..Len(pool) :
            pool[i].call.fn = "createVault" /\ pool[i].call.user = u /\ AwaitsAt(q, i)
      BY <2>15 DEF AwaitsVault
    <3>2. i + 1..Len(pool') = (i + 1..Len(pool)) \cup {n} /\ i \in 1..Len(pool') /\ pool'[i] = pool[i]
      BY <2>6, <2>7, <3>1
    <3>3. AwaitsAt(q, i)'
      BY <2>3, <2>7, <2>15, <3>1, <3>2 DEF AwaitsAt
    <3>4. AwaitsVault(q, u)'
      BY <3>1, <3>2, <3>3 DEF AwaitsVault
    <3>5. QED
      BY <2>9, <3>4 DEF Provides
  <2>16. QED
    BY <2>5, <2>9, <2>10, <2>11, <2>12, <2>13, <2>14, <2>15 DEF Provides
<1>10. ASSUME NEW p \in Processes, Leaves(p)
       PROVE  MakerInv'
  BY <1>0, <1>3, <1>10 DEF Leaves
<1>11. ASSUME NEW p \in Processes, Ends(p)
       PROVE  MakerInv'
  <2>1. /\ run[p] # NoRun /\ run[p].todo = <<>> /\ ~run[p].waiting
        /\ run'[p] = NoRun /\ \A q \in Processes \ {p} : run'[q] = run[q]
        /\ finished'[p] = run[p] /\ \A q \in Processes \ {p} : finished'[q] = finished[q]
        /\ UNCHANGED <<pool, vaultMap>>
    BY <1>0, <1>11 DEF Ends, chainVars
  <2>2. ASSUME run[p].task \in Builders
        PROVE  vaultMap[UserOf(run[p])] # Zero
    <3>1. PICK u : u = UserOf(run[p]) /\ Provides(p, u)
      BY <2>1, <2>2 DEF MakerInv
    <3>2. ~AwaitsVault(p, u)
      BY <2>1 DEF AwaitsVault, AwaitsAt
    <3>3. Items(run[p].todo) = {}
      BY <2>1, ItemsNone
    <3>4. QED
      BY <3>1, <3>2, <3>3 DEF Provides
  <2>3. ASSUME NEW q \in Processes \ {p}, run[q] # NoRun, run[q].task \in Builders
        PROVE  Provides(q, UserOf(run[q]))'
    <3>1. PICK u : u = UserOf(run[q]) /\ Provides(q, u) /\ run'[q] = run[q]
      BY <2>1, <2>3 DEF MakerInv
    <3>2. Provides(q, u)'
      BY <2>1, <3>1 DEF Provides, AwaitsVault, AwaitsAt
    <3>3. QED
      BY <3>1, <3>2
  <2>4. SUFFICES ASSUME NEW q \in Processes
                 PROVE  /\ run'[q] # NoRun /\ run'[q].task \in Builders => Provides(q, UserOf(run[q]))'
                        /\ finished'[q] # NoRun /\ finished'[q].task \in Builders
                             => vaultMap'[UserOf(finished'[q])] # Zero
    BY DEF MakerInv
  <2>5. QED
    BY <2>1, <2>2, <2>3 DEF MakerInv
<1>12. ASSUME NEW p, NEW succeeds \in BOOLEAN, Mines(p, succeeds)
       PROVE  MakerInv'
  <2>1. /\ pool # <<>> /\ pool' = Tail(pool) /\ p = Head(pool).by /\ Answer(p, succeeds)
        /\ UNCHANGED finished
        /\ succeeds => Execute(Head(pool).call)
    BY <1>12 DEF Mines, bookkeeping
  <2>2. Head(pool) = pool[1] /\ Len(pool) \in Nat /\ Len(pool) >= 1 /\ SafeCall(pool[1].call)
    BY <1>0, <2>1, PoolShorter DEF SafePool
  <2>3. ASSUME NEW q \in Processes, run'[q] # NoRun
        PROVE  /\ run[q] # NoRun /\ run'[q].task = run[q].task /\ run'[q].user = run[q].user
               /\ run'[q].todo = run[q].todo
               /\ run'[q] = run[q] \/ (p = q /\ succeeds = TRUE)
    <3>1. run'[q] = run[q] \/ (p = q /\ run[q].waiting /\ succeeds = TRUE
                                 /\ run'[q] = [run[q] EXCEPT !.waiting = FALSE])
      BY <1>0, <2>1, <2>3 DEF Answer
    <3>2. run[q] # NoRun
      BY <2>3, <3>1, ReadyLive
    <3>3. PICK r : r = [run[q] EXCEPT !.waiting = FALSE]
      OBVIOUS
    <3>4. r.task = run[q].task /\ r.user = run[q].user /\ r.todo = run[q].todo
      BY <1>0, <3>3, ChangedFields DEF SameRun
    <3>5. QED
      BY <3>1, <3>2, <3>3, <3>4
  <2>4. SUFFICES ASSUME NEW q \in Processes, run'[q] # NoRun, run'[q].task \in Builders
                 PROVE  Provides(q, UserOf(run[q]))'
    BY <1>1, <1>2, <2>1 DEF MakerInv
  <2>5. PICK u \in Users : u = UserOf(run[q]) /\ Provides(q, u) /\ u = UserOf(run'[q])
    BY <1>2, <2>3, <2>4 DEF MakerInv, UserOf
  <2>6. CASE vaultMap[u] # Zero
    BY <1>1, <2>5, <2>6 DEF Provides
  <2>7. CASE \E x \in Items(run[q].todo) : Makes(x, u)
    BY <2>3, <2>4, <2>5, <2>7 DEF Provides
  <2>8. CASE AwaitsVault(q, u)
    <3>1. PICK i \in 1..Len(pool) :
            pool[i].call.fn = "createVault" /\ pool[i].call.user = u /\ AwaitsAt(q, i)
      BY <2>8 DEF AwaitsVault
    <3>2. CASE i \in 2..Len(pool)
      <4>1. i - 1 \in 1..Len(pool') /\ pool'[i - 1] = pool[i] /\ AwaitsAt(q, i - 1)'
        BY <1>0, <1>12, <3>1, <3>2, AwaitsShorter
      <4>2. AwaitsVault(q, u)'
        BY <3>1, <4>1 DEF AwaitsVault
      <4>3. QED
        BY <2>5, <4>2 DEF Provides
    <3>3. CASE i = 1
      <4>1. p = q /\ run[q].waiting /\ \A j \in 2..Len(pool) : pool[j].by # q
        BY <2>1, <2>2, <3>1, <3>3 DEF AwaitsAt
      <4>2. succeeds = TRUE
        BY <1>0, <2>1, <2>4, <4>1 DEF Answer
      <4>3. vaultMap'[u] # Zero
        BY <2>1, <2>2, <3>1, <3>3, <4>2, CreatedExists
      <4>4. QED
        BY <2>5, <4>3 DEF Provides
    <3>4. QED
      BY <2>2, <3>1, <3>2, <3>3
  <2>9. QED
    BY <2>5, <2>6, <2>7, <2>8 DEF Provides
<1>13. CASE Changes
  BY <1>4, <1>13 DEF Changes, bookkeeping
<1>14. QED
  BY <1>5, <1>6, <1>7, <1>8, <1>9, <1>10, <1>11, <1>12, <1>13, StepForms

LEMMA InitRuns == Init => RunInv /\ TodoInv /\ PoolInv /\ MakerInv
<1>1. SUFFICES ASSUME Init
               PROVE  RunInv /\ TodoInv /\ PoolInv /\ MakerInv
  OBVIOUS
<1>2. /\ \A p \in Processes : run[p] = NoRun /\ finished[p] = NoRun
      /\ DOMAIN finished = Processes /\ pool = <<>> /\ drawn = 0 /\ weth9 = Weth
  <2>1. PICK n : n = NoRun
    OBVIOUS
  <2>2. run = [p \in Processes |-> n] /\ finished = [p \in Processes |-> n]
    BY <1>1, <2>1 DEF Init
  <2>3. QED
    BY <1>1, <2>1, <2>2 DEF Init
<1>3. DOMAIN NoRun = RunFields
  BY DEF NoRun, RunFields
<1>4. RunInv
  BY <1>2, <1>3, FundingAssumption DEF RunInv, Named, Has, CurrencyInv
<1>5. TodoInv
  BY <1>2, OwnNone DEF TodoInv, NoRun
<1>6. PoolInv
  BY <1>2 DEF PoolInv
<1>7. MakerInv
  BY <1>2 DEF MakerInv
<1>8. QED
  BY <1>4, <1>5, <1>6, <1>7

LEMMA WorkHolds == Spec => [](RegistryInv /\ MoneyInv /\ WorkInv /\ RunInv /\ TodoInv /\ PoolInv)
<1>1. Init => RegistryInv /\ MoneyInv /\ WorkInv /\ RunInv /\ TodoInv /\ PoolInv
  BY InitInv, InitRuns
<1>2. /\ RegistryInv /\ MoneyInv /\ WorkInv /\ RunInv /\ TodoInv /\ PoolInv /\ [Next]_vars
      => (RegistryInv /\ MoneyInv /\ WorkInv /\ RunInv /\ TodoInv /\ PoolInv)'
  BY StepKeeps, NextRuns, NextTodo, NextPool
<1>3. QED
  BY <1>1, <1>2, PTL DEF Spec

\* Whoever runs what, in however many processes, and whatever dies: a task
\* that creates a vault does not end before its user has one.
THEOREM TasksLeaveVault == Spec => []TaskLeavesVault
<1>1. Init => MakerInv
  BY InitRuns
<1>2. /\ RegistryInv /\ MoneyInv /\ WorkInv /\ RunInv /\ TodoInv /\ MakerInv /\ [Next]_vars
      => MakerInv'
  BY NextMaker
<1>3. RunInv /\ MakerInv => TaskLeavesVault
  <2>1. ASSUME NEW p \in Processes, finished[p].task \in Builders
        PROVE  finished[p] # NoRun
    <3>1. Builders \subseteq TaskNames
      BY DEF Builders, TaskNames
    <3>2. QED
      BY <2>1, <3>1, TaskNotNone
  <2>2. QED
    BY <2>1 DEF TaskLeavesVault, MakerInv, Builders, UserOf
<1>4. QED
  BY <1>1, <1>2, <1>3, WorkHolds, PTL DEF Spec

(***************************************************************************)
(* What a transaction does to a vault's address.                           *)
(***************************************************************************)
LEMMA EffectOnVault ==
  ASSUME RegistryInv, MoneyInv, NEW k, SafeCall(k), Execute(k), NEW a \in VaultAddresses
  PROVE  /\ weth'[a] >= weth[a]
         /\ \/ k.fn = "createVault" /\ a = VaultAt(k.user, k.salt) /\ eth[a] >= Refund
               /\ a \notin vaults /\ a \in vaults' /\ eth'[a] = eth[a] - Refund
               /\ vaultMap' = [vaultMap EXCEPT ![k.user] = a] /\ vaults' = vaults \cup {a}
            \/ /\ eth'[a] >= eth[a] /\ (a \in vaults' => a \in vaults)
               /\ \/ Pays(k) /\ k.to = a
                  \/ a \in vaults
                  \/ eth'[a] = eth[a] /\ weth'[a] = weth[a]
         /\ k.fn = "sendETH" /\ k.to = a => eth'[a] = eth[a] + k.amount
         /\ k.fn = "transferFrom" /\ k.to = a => weth'[a] = weth[a] + k.amount
<1>0. /\ eth \in [Addresses -> Nat] /\ weth \in [Addresses -> Nat] /\ Refund \in Nat
      /\ a \in Addresses /\ a \notin Users /\ a # Treasury /\ eth[a] \in Nat /\ weth[a] \in Nat
  BY FundingAssumption DEF MoneyInv, Addresses
<1>1. CASE ExecuteSendETH(k)
  <2>1. /\ k.fn = "sendETH" /\ k.from \in Users /\ k.to \in Addresses /\ k.amount \in Nat
        /\ eth' = [eth EXCEPT ![k.from] = @ - k.amount, ![k.to] = @ + k.amount]
        /\ UNCHANGED <<weth, vaultMap, vaults>>
    BY <1>1 DEF ExecuteSendETH, SafeCall
  <2>2. eth'[a] = IF k.to = a THEN eth[a] + k.amount ELSE eth[a]
    BY <1>0, <2>1
  <2>3. QED
    BY <1>0, <2>1, <2>2 DEF Pays
<1>2. CASE ExecuteWETH9(k)
  <2>1. /\ k.fn \in {"deposit", "withdraw", "transferFrom"} /\ k.from \in Users /\ k.amount \in Nat
        /\ UNCHANGED <<vaultMap, vaults>>
    BY <1>2 DEF ExecuteWETH9, SafeCall
  <2>2. CASE k.fn \in {"deposit", "withdraw"}
    <3>1. eth'[a] = eth[a] /\ weth'[a] = weth[a]
      BY <1>0, <1>2, <2>1, <2>2 DEF ExecuteWETH9
    <3>2. QED
      BY <1>0, <2>1, <2>2, <3>1
  <2>3. CASE k.fn = "transferFrom"
    <3>1. /\ weth' = [weth EXCEPT ![k.from] = @ - k.amount, ![k.to] = @ + k.amount]
          /\ UNCHANGED eth /\ k.to \in Addresses
      BY <1>2, <2>3 DEF ExecuteWETH9, SafeCall
    <3>2. weth'[a] = IF k.to = a THEN weth[a] + k.amount ELSE weth[a]
      BY <1>0, <2>1, <3>1
    <3>3. QED
      BY <1>0, <2>1, <2>3, <3>1, <3>2 DEF Pays
  <2>4. QED
    BY <2>1, <2>2, <2>3
<1>3. CASE ExecuteCreateVault(k)
  <2>1. k.fn = "createVault" /\ k.user \in Users /\ k.salt \in Salts
    BY <1>3 DEF ExecuteCreateVault, SafeCall
  <2>2. PICK v \in VaultAddresses : v = VaultAt(k.user, k.salt)
    BY <2>1, VaultAtAddress DEF RegistryInv
  <2>3. eth[v] >= Refund /\ v \notin vaults
    BY <2>1, <2>2 DEF Execute, Succeeds, MayCreate
  <2>4. /\ eth' = [eth EXCEPT ![v] = @ - Refund, ![Treasury] = @ + Refund]
        /\ vaultMap' = [vaultMap EXCEPT ![k.user] = v] /\ vaults' = vaults \cup {v}
        /\ UNCHANGED weth
    BY <1>3, <2>2 DEF ExecuteCreateVault
  <2>5. eth'[a] = IF a = v THEN eth[a] - Refund ELSE eth[a]
    BY <1>0, <2>2, <2>4 DEF Addresses
  <2>6. weth'[a] >= weth[a] /\ k.fn \notin {"sendETH", "transferFrom"}
    BY <1>0, <2>1, <2>4
  <2>7. CASE a = v
    <3>1. eth[a] >= Refund /\ a \notin vaults /\ a \in vaults' /\ eth'[a] = eth[a] - Refund
      BY <2>3, <2>4, <2>5, <2>7
    <3>2. a = VaultAt(k.user, k.salt) /\ vaultMap' = [vaultMap EXCEPT ![k.user] = a]
          /\ vaults' = vaults \cup {a}
      BY <2>2, <2>4, <2>7
    <3>3. QED
      BY <2>1, <2>6, <3>1, <3>2
  <2>8. CASE a # v
    <3>1. eth'[a] = eth[a] /\ weth'[a] = weth[a] /\ (a \in vaults' => a \in vaults)
      BY <2>4, <2>5, <2>8
    <3>2. eth'[a] >= eth[a]
      BY <1>0, <3>1
    <3>3. QED
      BY <2>6, <3>1, <3>2
  <2>9. QED
    BY <2>7, <2>8
<1>4. QED
  BY <1>1, <1>2, <1>3 DEF Execute

\* Balances and vaults change by a transaction, the one of a process that
\* waits for it or the first of the pool.
Executes(k) ==
  \/ \E p \in Processes : Sends(p) /\ k = NextStep(p).call
  \/ \E p : Mines(p, TRUE) /\ k = pool[1].call
LEMMA StepExecutes ==
  ASSUME RegistryInv, MoneyInv, WorkInv, RunInv, TodoInv, PoolInv, [Next]_vars
  PROVE  \/ UNCHANGED chainVars
         \/ \E k : /\ Executes(k) /\ SafeCall(k) /\ Execute(k)
                   /\ \E salt \in 1..drawn : OwnCall(k, salt)
<1>1. CASE UNCHANGED vaultVars
  BY <1>1 DEF vaultVars
<1>2. CASE \E p \in Processes, task \in TaskNames, user \in Users : Begins(p, task, user)
  BY <1>2 DEF Begins
<1>3. ASSUME NEW p \in Processes, Asks(p) \/ Emits(p) \/ Leaves(p) \/ Ends(p)
      PROVE  UNCHANGED chainVars
  BY <1>3 DEF Asks, Emits, Leaves, Ends
<1>4. ASSUME NEW p \in Processes, Sends(p)
      PROVE  \E k : /\ Executes(k) /\ SafeCall(k) /\ Execute(k)
                    /\ \E salt \in 1..drawn : OwnCall(k, salt)
  <2>1. Ready(p) /\ NextStep(p).op = "send" /\ Execute(NextStep(p).call)
    BY <1>4 DEF Sends
  <2>2. /\ run[p].salt \in 1..drawn /\ SafeStep(NextStep(p)) /\ OwnStep(NextStep(p), run[p].salt)
    BY <2>1, LiveSteps
  <2>3. SafeCall(NextStep(p).call) /\ OwnCall(NextStep(p).call, run[p].salt)
    BY <2>1, <2>2 DEF SafeStep, OwnStep
  <2>4. QED
    BY <1>4, <2>1, <2>2, <2>3 DEF Executes
<1>5. ASSUME NEW p, NEW succeeds \in BOOLEAN, Mines(p, succeeds)
      PROVE  \/ UNCHANGED chainVars
             \/ \E k : /\ Executes(k) /\ SafeCall(k) /\ Execute(k)
                       /\ \E salt \in 1..drawn : OwnCall(k, salt)
  <2>1. CASE succeeds = FALSE
    BY <1>5, <2>1 DEF Mines
  <2>2. CASE succeeds = TRUE
    <3>1. pool # <<>> /\ pool' = Tail(pool) /\ Execute(Head(pool).call)
      BY <1>5, <2>2 DEF Mines
    <3>2. SafePool(pool)
      BY DEF WorkInv
    <3>3. Head(pool) = pool[1] /\ 1 \in 1..Len(pool)
      BY <3>1, <3>2, PoolShorter
    <3>4. SafeCall(pool[1].call) /\ \E salt \in 1..drawn : OwnCall(pool[1].call, salt)
      BY <3>2, <3>3 DEF SafePool, PoolInv
    <3>5. QED
      BY <1>5, <2>2, <3>1, <3>3, <3>4 DEF Executes
  <2>3. QED
    BY <2>1, <2>2
<1>6. CASE Changes
  BY <1>6 DEF Changes
<1>7. QED
  BY <1>1, <1>2, <1>3, <1>4, <1>5, <1>6, StepForms

(***************************************************************************)
(* Nothing is sent to an address of Bob's but the one dev:poc computes, as *)
(* long as the currency stays; and none of the others becomes a vault,     *)
(* since it could not pay the refund.                                      *)
(***************************************************************************)
PocAddress == [user |-> Bob, salt |-> Fixed, weth9 |-> Weth]
BobInv ==
  ~setting.changes =>
    \A a \in VaultAddresses : a.user = Bob /\ a # PocAddress => eth[a] = 0 /\ a \notin vaults

LEMMA NextBob ==
  ASSUME Refund > 0, RegistryInv, MoneyInv, WorkInv, RunInv, TodoInv, PoolInv, BobInv, [Next]_vars
  PROVE  BobInv'
<1>0. setting' = setting /\ Refund \in Nat
  BY StepForms, FundingAssumption
     DEF vaultVars, Begins, Asks, Sends, Emits, Leaves, Ends, Mines, Changes, bookkeeping
<1>1. SUFFICES ASSUME ~setting.changes, NEW a \in VaultAddresses, a.user = Bob, a # PocAddress
               PROVE  eth'[a] = 0 /\ a \notin vaults'
  BY <1>0 DEF BobInv
<1>2. eth[a] = 0 /\ a \notin vaults
  BY <1>1 DEF BobInv
<1>3. CASE UNCHANGED chainVars
  BY <1>2, <1>3 DEF chainVars
<1>4. ASSUME NEW k, SafeCall(k), Execute(k), NEW salt \in 1..drawn, OwnCall(k, salt)
      PROVE  eth'[a] = 0 /\ a \notin vaults'
  <2>1. ~(Pays(k) /\ k.to = a)
    <3>1. SUFFICES ASSUME Pays(k), k.to = a
                   PROVE  FALSE
      OBVIOUS
    <3>2. Payable(a, salt)
      BY <1>4, <3>1 DEF OwnCall
    <3>3. a.salt = Fixed /\ a.weth9 = Weth
      BY <1>1, <3>2, FundingAssumption DEF Payable
    <3>4. a = PocAddress
      BY <1>1, <3>3 DEF PocAddress, VaultAddresses
    <3>5. QED
      BY <1>1, <3>4
  <2>2. ~(eth[a] >= Refund)
    BY <1>0, <1>2
  <2>3. QED
    BY <1>2, <1>4, <2>1, <2>2, EffectOnVault
<1>5. QED
  BY <1>3, <1>4, StepExecutes

\* As long as creating a vault costs something, and the currency stays: what
\* dev:poc sends ahead of Bob's vault is never lost, wherever its runs were
\* broken off and whatever else is run.
THEOREM PocNeverLoses ==
  ASSUME Refund > 0
  PROVE  Spec => []PocRecovers
<1>1. Init => BobInv
  <2>1. ASSUME Init, NEW a \in VaultAddresses
        PROVE  eth[a] = 0 /\ a \notin vaults
    <3>1. a \in Addresses /\ a # Owner /\ a # Bob
      BY FundingAssumption DEF Addresses
    <3>2. QED
      BY <2>1, <3>1 DEF Init
  <2>2. QED
    BY <2>1 DEF BobInv
<1>2. /\ RegistryInv /\ MoneyInv /\ WorkInv /\ RunInv /\ TodoInv /\ PoolInv /\ BobInv /\ [Next]_vars
      => BobInv'
  BY NextBob
<1>3. RegistryInv /\ TaskLeavesVault /\ BobInv => PocRecovers
  <2>1. SUFFICES ASSUME RegistryInv, TaskLeavesVault, BobInv, ~setting.changes,
                        NEW p \in Processes, finished[p].task = "poc",
                        NEW a \in VaultAddresses \ vaults, a.user = Bob
                 PROVE  eth[a] = 0
    BY DEF PocRecovers
  <2>2. vaultMap[Bob] \in vaults /\ vaultMap[Bob].user = Bob /\ vaults \subseteq VaultAddresses
    BY <2>1, AddressTypes DEF TaskLeavesVault, RegistryInv, OneVaultPerOwner
  <2>3. vaultMap[Bob] = PocAddress
    BY <2>1, <2>2 DEF BobInv
  <2>4. QED
    BY <2>1, <2>2, <2>3 DEF BobInv
<1>4. QED
  BY <1>1, <1>2, <1>3, WorkHolds, TasksLeaveVault, PTL DEF Spec

LEMMA Joins ==
  ASSUME NEW r, NEW s, NEW t, IsSeq(r), IsSeq(s), IsSeq(t)
  PROVE  (r \o s) \o t = r \o (s \o t)
<1>1. PICK R : r \in Seq(R)
  BY DEF IsSeq
<1>2. PICK S : s \in Seq(S)
  BY DEF IsSeq
<1>3. PICK T : t \in Seq(T)
  BY DEF IsSeq
<1>4. PICK U : r \in Seq(U) /\ s \in Seq(U) /\ t \in Seq(U)
  <2>1. r \in Seq(R \cup S \cup T) /\ s \in Seq(R \cup S \cup T) /\ t \in Seq(R \cup S \cup T)
    BY <1>1, <1>2, <1>3
  <2>2. QED
    BY <2>1
<1>5. QED
  BY <1>4

LEMMA First ==
  ASSUME NEW x, NEW t, IsSeq(t)
  PROVE  IsSeq(<<x>> \o t) /\ Head(<<x>> \o t) = x /\ Tail(<<x>> \o t) = t /\ <<x>> \o t # <<>>
<1>1. PICK T : t \in Seq(T)
  BY DEF IsSeq
<1>2. <<x>> \in Seq(T \cup {x}) /\ t \in Seq(T \cup {x}) /\ Len(<<x>>) = 1 /\ <<x>>[1] = x
  BY <1>1
<1>3. PICK s : s = <<x>> \o t
  OBVIOUS
<1>4. s \in Seq(T \cup {x}) /\ Len(s) = 1 + Len(t) /\ s[1] = x /\ \A i \in 1..Len(t) : s[i + 1] = t[i]
  BY <1>2, <1>3
<1>5. Tail(s) \in Seq(T \cup {x}) /\ Len(Tail(s)) = Len(t) /\ \A i \in 1..Len(t) : Tail(s)[i] = t[i]
  BY <1>2, <1>4
<1>6. Tail(s) = t
  BY <1>2, <1>5
<1>7. QED
  BY <1>3, <1>4, <1>6 DEF IsSeq

LEMMA NoneFirst ==
  ASSUME NEW t, IsSeq(t)
  PROVE  <<>> \o t = t /\ t \o <<>> = t
<1>1. PICK T : t \in Seq(T)
  BY DEF IsSeq
<1>2. QED
  BY <1>1

(***************************************************************************)
(* The money of a new salt.                                                *)
(***************************************************************************)
FreshInv == \A w \in VaultAddresses : w.salt > drawn => eth[w] = 0 /\ weth[w] = 0 /\ w \notin vaults

LEMMA SaltNumbers ==
  ASSUME WorkInv
  PROVE  /\ drawn \in Nat /\ MaxSalts \in Nat /\ 1..drawn \subseteq 1..MaxSalts
         /\ \A w \in VaultAddresses : w.salt \in Nat
<1>1. setting.salts \in 0..MaxSalts /\ MaxSalts \in Nat /\ drawn \in 0..setting.salts
  BY FundingAssumption DEF WorkInv
<1>2. \A w \in VaultAddresses : w.salt \in 0..MaxSalts
  BY DEF VaultAddresses
<1>3. QED
  BY <1>1, <1>2

LEMMA NextFresh ==
  ASSUME RegistryInv, MoneyInv, WorkInv, RunInv, TodoInv, PoolInv, FreshInv, [Next]_vars
  PROVE  FreshInv'
<1>0. drawn \in Nat /\ drawn' \in Nat /\ \A w \in VaultAddresses : w.salt \in Nat
  BY SaltNumbers, StepKeeps, FundingAssumption DEF WorkInv
<1>1. drawn' >= drawn
  <2>1. drawn' \in {drawn, drawn + 1}
    BY StepForms DEF vaultVars, Begins, Asks, Sends, Emits, Leaves, Ends, Mines, Changes, bookkeeping
  <2>2. QED
    BY <1>0, <2>1
<1>2. SUFFICES ASSUME NEW w \in VaultAddresses, w.salt > drawn'
               PROVE  eth'[w] = 0 /\ weth'[w] = 0 /\ w \notin vaults'
  BY DEF FreshInv
<1>3. w.salt > drawn /\ eth[w] = 0 /\ weth[w] = 0 /\ w \notin vaults
  BY <1>0, <1>1, <1>2 DEF FreshInv
<1>4. CASE UNCHANGED chainVars
  BY <1>3, <1>4 DEF chainVars
<1>5. ASSUME NEW k, SafeCall(k), Execute(k), NEW salt \in 1..drawn, OwnCall(k, salt)
      PROVE  eth'[w] = 0 /\ weth'[w] = 0 /\ w \notin vaults'
  <2>1. w.salt \notin {salt, Fixed}
    BY <1>0, <1>3 DEF Fixed
  <2>2. ~(Pays(k) /\ k.to = w)
    BY <1>5, <2>1 DEF OwnCall, Payable
  <2>3. ~(k.fn = "createVault" /\ w = VaultAt(k.user, k.salt))
    BY <1>5, <2>1 DEF OwnCall, VaultAt
  <2>4. QED
    BY <1>3, <1>5, <2>2, <2>3, EffectOnVault
<1>6. QED
  BY <1>4, <1>5, StepExecutes

\* Only the process that has drawn a salt, by what it sends or waits for,
\* pays an address with this salt or makes it a vault.
LEMMA Undisturbed ==
  ASSUME RegistryInv, MoneyInv, WorkInv, RunInv, TodoInv, PoolInv, [Next]_vars,
         NEW p \in Processes, NEW salt \in 1..drawn, Has(p, salt), ~Sends(p),
         ~(Mines(p, TRUE) /\ AwaitsAt(p, 1)),
         NEW w \in VaultAddresses, w.salt = salt
  PROVE  /\ eth'[w] >= eth[w] /\ weth'[w] >= weth[w]
         /\ w \notin vaults => eth'[w] = eth[w] /\ weth'[w] = weth[w] /\ w \notin vaults'
<1>0. salt # Fixed /\ eth[w] \in Nat /\ weth[w] \in Nat
  BY SaltNumbers DEF Fixed, MoneyInv, Addresses
<1>1. CASE UNCHANGED chainVars
  BY <1>0, <1>1 DEF chainVars
<1>2. ASSUME NEW k, SafeCall(k), Execute(k), Executes(k)
      PROVE  ~About(k, salt)
  <2>1. SUFFICES ASSUME About(k, salt)
                 PROVE  FALSE
    OBVIOUS
  <2>2. CASE \E q \in Processes : Sends(q) /\ k = NextStep(q).call
    <3>1. PICK q \in Processes : Sends(q) /\ k = NextStep(q).call
      BY <2>2
    <3>2. Ready(q) /\ NextStep(q).op = "send"
      BY <3>1 DEF Sends
    <3>3. run[q] # NoRun /\ OwnStep(NextStep(q), run[q].salt)
      BY <3>2, LiveSteps
    <3>4. OwnCall(k, run[q].salt)
      BY <3>1, <3>2, <3>3 DEF OwnStep
    <3>5. salt = run[q].salt
      BY <1>0, <2>1, <3>4 DEF OwnCall, About, Payable
    <3>6. Has(q, salt)
      BY <3>3, <3>5 DEF Has
    <3>7. q = p
      BY <3>6 DEF RunInv
    <3>8. QED
      BY <3>1, <3>7
  <2>3. CASE \E q : Mines(q, TRUE) /\ k = pool[1].call
    <3>1. PICK q : Mines(q, TRUE) /\ k = pool[1].call
      BY <2>3
    <3>2. pool # <<>> /\ pool' = Tail(pool) /\ q = Head(pool).by /\ SafePool(pool)
      BY <3>1 DEF Mines, WorkInv
    <3>3. 1 \in 1..Len(pool) /\ Head(pool) = pool[1]
      BY <3>2, PoolShorter
    <3>4. AwaitsAt(p, 1)
      BY <2>1, <3>1, <3>3 DEF PoolInv
    <3>5. q = p
      BY <3>2, <3>3, <3>4 DEF AwaitsAt
    <3>6. QED
      BY <3>1, <3>4, <3>5
  <2>4. QED
    BY <1>2, <2>2, <2>3 DEF Executes
<1>3. ASSUME NEW k, SafeCall(k), Execute(k), ~About(k, salt)
      PROVE  /\ eth'[w] >= eth[w] /\ weth'[w] >= weth[w]
             /\ w \notin vaults => eth'[w] = eth[w] /\ weth'[w] = weth[w] /\ w \notin vaults'
  <2>1. ~(Pays(k) /\ k.to = w) /\ ~(k.fn = "createVault" /\ w = VaultAt(k.user, k.salt))
    BY <1>3 DEF About, VaultAt
  <2>2. QED
    BY <1>3, <2>1, EffectOnVault
<1>4. QED
  BY <1>1, <1>2, <1>3, StepExecutes

\* Who waits, and is not answered, waits for the same transaction.
Awaits(p, k) == \E i \in 1..Len(pool) : pool[i].call = k /\ AwaitsAt(p, i)

LEMMA AwaitsStays ==
  ASSUME WorkInv, RunInv, [Next]_vars, NEW p \in Processes, NEW k, Awaits(p, k), run'[p] = run[p]
  PROVE  Awaits(p, k)'
<1>0. /\ SafePool(pool) /\ DOMAIN run = Processes /\ run[p].waiting = TRUE
      /\ NoRun.waiting = FALSE /\ DOMAIN run[p] = RunFields
  BY DEF WorkInv, SafeRun, Awaits, AwaitsAt, NoRun, RunInv, Named
<1>1. PICK i \in 1..Len(pool) : pool[i].call = k /\ AwaitsAt(p, i)
  BY DEF Awaits
<1>2. CASE UNCHANGED pool
  BY <1>1, <1>2 DEF Awaits, AwaitsAt
<1>3. ASSUME NEW q \in Processes, Emits(q)
      PROVE  Awaits(p, k)'
  <2>1. Ready(q) /\ pool' = Append(pool, Tx(q))
    BY <1>3 DEF Emits
  <2>2. q # p
    BY <1>0, <2>1 DEF Ready
  <2>3. PICK n, x : n = Len(pool') /\ x = Tx(q) /\ x.by = q
    <3>1. Tx(q).by = q
      BY DEF Tx
    <3>2. QED
      BY <3>1
  <2>4. /\ n = Len(pool) + 1 /\ Len(pool) \in Nat /\ pool'[n].by = q
        /\ \A j \in 1..Len(pool) : pool'[j] = pool[j]
    BY <1>0, <2>1, <2>3, PoolLonger
  <2>5. i \in 1..Len(pool') /\ i + 1..Len(pool') = (i + 1..Len(pool)) \cup {n}
    BY <2>3, <2>4
  <2>6. AwaitsAt(p, i)'
    BY <1>1, <2>2, <2>4, <2>5 DEF AwaitsAt
  <2>7. QED
    BY <1>1, <2>4, <2>5, <2>6 DEF Awaits
<1>4. ASSUME NEW q, NEW succeeds \in BOOLEAN, Mines(q, succeeds)
      PROVE  Awaits(p, k)'
  <2>1. pool # <<>> /\ pool' = Tail(pool) /\ q = Head(pool).by /\ Answer(q, succeeds)
    BY <1>4 DEF Mines
  <2>2. Head(pool) = pool[1] /\ Len(pool) \in Nat
    BY <1>0, <2>1, PoolShorter
  <2>3. ASSUME i = 1
        PROVE  FALSE
    <3>1. q = p /\ \A j \in 2..Len(pool) : pool[j].by # p
      BY <1>1, <2>1, <2>2, <2>3 DEF AwaitsAt
    <3>2. run' = [run EXCEPT ![p] = IF succeeds THEN [@ EXCEPT !.waiting = FALSE] ELSE NoRun]
      BY <1>0, <2>1, <3>1 DEF Answer
    <3>3. PICK r : r = [run[p] EXCEPT !.waiting = FALSE]
      OBVIOUS
    <3>4. r.waiting = FALSE /\ (run'[p] = r \/ run'[p] = NoRun)
      <4>1. r.waiting = FALSE
        BY <1>0, <3>3 DEF RunFields
      <4>2. run'[p] = IF succeeds THEN [run[p] EXCEPT !.waiting = FALSE] ELSE NoRun
        BY <1>0, <3>2
      <4>3. QED
        BY <3>3, <4>1, <4>2
    <3>5. QED
      BY <1>0, <3>4
  <2>4. i \in 2..Len(pool)
    BY <1>1, <2>2, <2>3
  <2>5. i - 1 \in 1..Len(pool') /\ pool'[i - 1] = pool[i] /\ AwaitsAt(p, i - 1)'
    BY <1>0, <1>1, <1>4, <2>4, AwaitsShorter
  <2>6. QED
    BY <1>1, <2>5 DEF Awaits
<1>5. QED
  BY <1>2, <1>3, <1>4, StepForms
     DEF vaultVars, Begins, Asks, Sends, Leaves, Ends, Changes

(***************************************************************************)
(* How far dev:create-vault has come: v is the address it has computed,    *)
(* the only one with the run's salt that has anything.                     *)
(***************************************************************************)
Look(r) == Read("vault", r.user, [then |-> "create", user |-> r.user, salt |-> r.salt])
Transfer(v) == TransferFrom(Owner, v, Grant)
Transfers(r, v) == Send(Transfer(v)) \o Look(r)
Payment(v) == SendETH(Owner, v, Grant)
Payments(r, v) == Send(Payment(v)) \o Transfers(r, v)
Check == Read("weth", Owner, [then |-> "wrap", amount |-> Grant, sender |-> Owner])
Compute(r) == Read("computed", [user |-> Owner, salt |-> r.salt], [then |-> "grant"])
Creation(r) == CreateVault(r.user, r.salt)

Only(v) == \A w \in VaultAddresses : w.salt = v.salt /\ w # v => eth[w] = 0 /\ w \notin vaults
Full(v) == eth[v] >= Grant /\ weth[v] >= Grant
Kept(v) == eth[v] >= Grant - Refund /\ weth[v] >= Grant
Settled(p, k, c) == IF run[p].waiting THEN Awaits(p, k) ELSE c

Begun(p, v) ==
  run[p].todo = Compute(run[p]) \o Look(run[p]) /\ ~run[p].waiting /\ v \notin vaults /\ eth[v] = 0
Paying(p, v) ==
  /\ \/ run[p].todo = Check \o Payments(run[p], v) \/ run[p].todo = Payments(run[p], v)
     \/ \E a \in 0..Grant : run[p].todo = SendOnly(Wrap(Owner, a)) \o Payments(run[p], v)
  /\ ~run[p].waiting /\ v \notin vaults
Transferring(p, v) ==
  /\ run[p].todo = Transfers(run[p], v) /\ v \notin vaults
  /\ Settled(p, Payment(v), eth[v] >= Grant)
Looking(p, v) ==
  /\ run[p].todo = Look(run[p]) /\ v \notin vaults /\ eth[v] >= Grant
  /\ Settled(p, Transfer(v), weth[v] >= Grant)
Creating(p, v) ==
  run[p].todo = Send(Creation(run[p])) /\ ~run[p].waiting /\ v \notin vaults /\ Full(v)
Done(p, v) ==
  /\ run[p].todo = <<>>
  /\ Settled(p, Creation(run[p]), v \in vaults => Kept(v))
  /\ run[p].waiting => v \notin vaults /\ Full(v)
At(p, v) ==
  \/ Begun(p, v) \/ Paying(p, v) \/ Transferring(p, v)
  \/ Looking(p, v) \/ Creating(p, v) \/ Done(p, v)
Stage(p) == \E v \in VaultAddresses : v.salt = run[p].salt /\ Only(v) /\ At(p, v)
FundsInv ==
  /\ \A p \in Processes : run[p] # NoRun /\ run[p].task = "create-vault" => Stage(p)
  /\ \A p \in Processes : finished[p] # NoRun /\ finished[p].task = "create-vault" =>
       \A v \in vaults : v.salt = finished[p].salt => Kept(v)

LEMMA OneStep ==
  ASSUME NEW x
  PROVE  IsSeq(<<x>>) /\ Head(<<x>>) = x /\ Tail(<<x>>) = <<>> /\ <<x>> # <<>>
<1>1. IsSeq(<<x>>)
  BY ItemsOne
<1>2. <<x>> # <<>> /\ Head(<<x>>) = x /\ Tail(<<x>>) = <<>>
  OBVIOUS
<1>3. QED
  BY <1>1, <1>2

\* What dev:create-vault does first, and what it does then.
LEMMA Plans ==
  ASSUME NEW r, NEW v
  PROVE  /\ IsSeq(Look(r)) /\ IsSeq(Transfers(r, v)) /\ IsSeq(Payments(r, v)) /\ IsSeq(Check)
         /\ IsSeq(Compute(r))
         /\ Head(Look(r)) = [op |-> "read", what |-> "vault", of |-> r.user,
                             then |-> [then |-> "create", user |-> r.user, salt |-> r.salt]]
         /\ Tail(Look(r)) = <<>> /\ Look(r) # <<>>
         /\ Head(Transfers(r, v)) = [op |-> "send", call |-> Transfer(v), await |-> TRUE]
         /\ Tail(Transfers(r, v)) = Look(r) /\ Transfers(r, v) # <<>>
         /\ Head(Payments(r, v)) = [op |-> "send", call |-> Payment(v), await |-> TRUE]
         /\ Tail(Payments(r, v)) = Transfers(r, v) /\ Payments(r, v) # <<>>
         /\ Head(Check \o Payments(r, v)) =
              [op |-> "read", what |-> "weth", of |-> Owner,
               then |-> [then |-> "wrap", amount |-> Grant, sender |-> Owner]]
         /\ Tail(Check \o Payments(r, v)) = Payments(r, v) /\ Check \o Payments(r, v) # <<>>
         /\ Head(Compute(r) \o Look(r)) =
              [op |-> "read", what |-> "computed", of |-> [user |-> Owner, salt |-> r.salt],
               then |-> [then |-> "grant"]]
         /\ Tail(Compute(r) \o Look(r)) = Look(r) /\ Compute(r) \o Look(r) # <<>>
         /\ Head(Send(Creation(r))) = [op |-> "send", call |-> Creation(r), await |-> TRUE]
         /\ Tail(Send(Creation(r))) = <<>> /\ Send(Creation(r)) # <<>>
<1>1. /\ IsSeq(Look(r)) /\ Tail(Look(r)) = <<>> /\ Look(r) # <<>>
      /\ Head(Look(r)) = [op |-> "read", what |-> "vault", of |-> r.user,
                          then |-> [then |-> "create", user |-> r.user, salt |-> r.salt]]
  BY OneStep DEF Look, Read
<1>2. /\ IsSeq(Transfers(r, v)) /\ Tail(Transfers(r, v)) = Look(r) /\ Transfers(r, v) # <<>>
      /\ Head(Transfers(r, v)) = [op |-> "send", call |-> Transfer(v), await |-> TRUE]
  BY <1>1, First DEF Transfers, Send
<1>3. /\ IsSeq(Payments(r, v)) /\ Tail(Payments(r, v)) = Transfers(r, v) /\ Payments(r, v) # <<>>
      /\ Head(Payments(r, v)) = [op |-> "send", call |-> Payment(v), await |-> TRUE]
  BY <1>2, First DEF Payments, Send
<1>4. /\ Tail(Check \o Payments(r, v)) = Payments(r, v) /\ Check \o Payments(r, v) # <<>>
      /\ Head(Check \o Payments(r, v)) =
           [op |-> "read", what |-> "weth", of |-> Owner,
            then |-> [then |-> "wrap", amount |-> Grant, sender |-> Owner]]
  BY <1>3, First DEF Check, Read
<1>5. /\ Tail(Compute(r) \o Look(r)) = Look(r) /\ Compute(r) \o Look(r) # <<>>
      /\ Head(Compute(r) \o Look(r)) =
           [op |-> "read", what |-> "computed", of |-> [user |-> Owner, salt |-> r.salt],
            then |-> [then |-> "grant"]]
  BY <1>1, First DEF Compute, Read
<1>6. /\ Head(Send(Creation(r))) = [op |-> "send", call |-> Creation(r), await |-> TRUE]
      /\ Tail(Send(Creation(r))) = <<>> /\ Send(Creation(r)) # <<>>
  BY OneStep DEF Send
<1>7. IsSeq(Check) /\ IsSeq(Compute(r))
  BY OneStep DEF Check, Compute, Read
<1>8. QED
  BY <1>1, <1>2, <1>3, <1>4, <1>5, <1>6, <1>7

LEMMA WrapPlan ==
  ASSUME NEW r, NEW v, NEW a
  PROVE  /\ Head(SendOnly(Wrap(Owner, a)) \o Payments(r, v)).op = "send"
         /\ Head(SendOnly(Wrap(Owner, a)) \o Payments(r, v)).call = Wrap(Owner, a)
         /\ Head(SendOnly(Wrap(Owner, a)) \o Payments(r, v)).await = FALSE
         /\ Tail(SendOnly(Wrap(Owner, a)) \o Payments(r, v)) = Payments(r, v)
<1>1. IsSeq(Payments(r, v))
  BY Plans
<1>2. /\ Head(SendOnly(Wrap(Owner, a)) \o Payments(r, v)) =
           [op |-> "send", call |-> Wrap(Owner, a), await |-> FALSE]
      /\ Tail(SendOnly(Wrap(Owner, a)) \o Payments(r, v)) = Payments(r, v)
  BY <1>1, First DEF SendOnly
<1>3. PICK h : h = Head(SendOnly(Wrap(Owner, a)) \o Payments(r, v))
  OBVIOUS
<1>4. h.op = "send" /\ h.call = Wrap(Owner, a) /\ h.await = FALSE
  <2>1. PICK k : k = Wrap(Owner, a)
    OBVIOUS
  <2>2. h = [op |-> "send", call |-> k, await |-> FALSE]
    BY <1>2, <1>3, <2>1
  <2>3. h.op = "send" /\ h.call = k /\ h.await = FALSE
    BY <2>2
  <2>4. QED
    BY <2>1, <2>3
<1>5. QED
  BY <1>2, <1>3, <1>4

LEMMA Continued ==
  ASSUME NEW r, NEW v
  PROVE  /\ After([then |-> "grant"], v) \o Look(r) = Check \o Payments(r, v)
         /\ \A x : After([then |-> "wrap", amount |-> Grant, sender |-> Owner], x) \o Payments(r, v) =
                     IF x < Grant THEN SendOnly(Wrap(Owner, Grant - x)) \o Payments(r, v)
                     ELSE Payments(r, v)
         /\ \A x : After([then |-> "create", user |-> r.user, salt |-> r.salt], x) \o <<>> =
                     IF x = Zero THEN Send(Creation(r)) ELSE <<>>
<1>1. After([then |-> "grant"], v) \o Look(r) = Check \o Payments(r, v)
  <2>1. After([then |-> "grant"], v) = Fund(v, Grant, Owner, TRUE)
    BY DEF After
  <2>2. Fund(v, Grant, Owner, TRUE) = (Check \o Send(Payment(v))) \o Send(Transfer(v))
    BY DEF Fund, When, Check, Payment, Transfer
  <2>3. PICK a, b, c, d : a = Check /\ b = Send(Payment(v)) /\ c = Send(Transfer(v)) /\ d = Look(r)
    OBVIOUS
  <2>4. IsSeq(a) /\ IsSeq(b) /\ IsSeq(c) /\ IsSeq(d)
    BY <2>3, Plans, SendItem
  <2>5. IsSeq(a \o b) /\ IsSeq(c \o d)
    BY <2>4, ItemsJoined
  <2>6. ((a \o b) \o c) \o d = (a \o b) \o (c \o d)
    <3>1. PICK e : e = a \o b
      OBVIOUS
    <3>2. IsSeq(e)
      BY <2>5, <3>1
    <3>3. (e \o c) \o d = e \o (c \o d)
      BY <2>4, <3>2, Joins
    <3>4. QED
      BY <3>1, <3>3
  <2>7. (a \o b) \o (c \o d) = a \o (b \o (c \o d))
    BY <2>4, <2>5, Joins
  <2>8. QED
    BY <2>1, <2>2, <2>3, <2>6, <2>7 DEF Payments, Transfers
<1>2. ASSUME NEW x
      PROVE  After([then |-> "wrap", amount |-> Grant, sender |-> Owner], x) \o Payments(r, v) =
               IF x < Grant THEN SendOnly(Wrap(Owner, Grant - x)) \o Payments(r, v)
               ELSE Payments(r, v)
  <2>1. After([then |-> "wrap", amount |-> Grant, sender |-> Owner], x) =
          IF x < Grant THEN SendOnly(Wrap(Owner, Grant - x)) ELSE <<>>
    BY DEF After, When
  <2>2. <<>> \o Payments(r, v) = Payments(r, v)
    BY Plans, NoneFirst
  <2>3. QED
    BY <2>1, <2>2
<1>3. ASSUME NEW x
      PROVE  After([then |-> "create", user |-> r.user, salt |-> r.salt], x) \o <<>> =
               IF x = Zero THEN Send(Creation(r)) ELSE <<>>
  <2>1. After([then |-> "create", user |-> r.user, salt |-> r.salt], x) =
          IF x = Zero THEN Send(Creation(r)) ELSE <<>>
    BY DEF After, CreateIfNone, When, Creation
  <2>2. IsSeq(Send(Creation(r))) /\ IsSeq(<<>>)
    BY SendItem, OwnNone DEF OwnSteps
  <2>3. Send(Creation(r)) \o <<>> = Send(Creation(r)) /\ <<>> \o <<>> = <<>>
    BY <2>2, NoneFirst
  <2>4. QED
    BY <2>1, <2>3
<1>4. QED
  BY <1>1, <1>2, <1>3

\* The calls of dev:create-vault, executed.
LEMMA RunCalls ==
  ASSUME Refund > 0, RegistryInv, MoneyInv, NEW k, SafeCall(k), Execute(k),
         NEW v \in VaultAddresses, v \notin vaults, Only(v)
  PROVE  /\ k.fn = "deposit" => Only(v)' /\ v \notin vaults'
         /\ k = Payment(v) => Only(v)' /\ v \notin vaults' /\ eth'[v] >= Grant
         /\ k = Transfer(v) => Only(v)' /\ v \notin vaults' /\ eth'[v] >= eth[v] /\ weth'[v] >= Grant
         /\ \A u : k = CreateVault(u, v.salt) /\ Full(v) => Only(v)' /\ v \in vaults' /\ Kept(v)'
<1>0. /\ eth[v] \in Nat /\ weth[v] \in Nat /\ Grant \in Nat /\ Refund \in Nat
      /\ \A w \in VaultAddresses : eth[w] \in Nat
  BY FundingAssumption DEF MoneyInv, Addresses
<1>1. ASSUME k.fn # "createVault", \A w \in VaultAddresses \ {v} : ~(Pays(k) /\ k.to = w)
      PROVE  Only(v)' /\ v \notin vaults'
  <2>1. v \notin vaults'
    BY <1>1, EffectOnVault
  <2>2. ASSUME NEW w \in VaultAddresses, w.salt = v.salt, w # v
        PROVE  eth'[w] = 0 /\ w \notin vaults'
    <3>1. eth[w] = 0 /\ w \notin vaults
      BY <2>2 DEF Only
    <3>2. QED
      BY <1>1, <2>2, <3>1, EffectOnVault
  <2>3. QED
    BY <2>1, <2>2 DEF Only
<1>2. CASE k.fn = "deposit"
  <2>1. k # Payment(v) /\ k # Transfer(v) /\ \A u : k # CreateVault(u, v.salt)
    BY <1>2 DEF Payment, Transfer, SendETH, TransferFrom, CreateVault
  <2>2. QED
    BY <1>1, <1>2, <2>1 DEF Pays
<1>3. CASE k = Payment(v)
  <2>1. k.fn = "sendETH" /\ k.to = v /\ k.amount = Grant
    BY <1>3 DEF Payment, SendETH
  <2>2. k # Transfer(v) /\ \A u : k # CreateVault(u, v.salt)
    BY <2>1 DEF Transfer, TransferFrom, CreateVault
  <2>3. eth'[v] = eth[v] + Grant
    BY <2>1, EffectOnVault
  <2>4. eth'[v] >= Grant
    BY <1>0, <2>3
  <2>5. QED
    BY <1>1, <2>1, <2>2, <2>4
<1>4. CASE k = Transfer(v)
  <2>1. k.fn = "transferFrom" /\ k.to = v /\ k.amount = Grant
    BY <1>4 DEF Transfer, TransferFrom
  <2>2. k # Payment(v) /\ \A u : k # CreateVault(u, v.salt)
    BY <2>1 DEF Payment, SendETH, CreateVault
  <2>3. weth'[v] = weth[v] + Grant /\ eth'[v] >= eth[v]
    BY <2>1, EffectOnVault
  <2>4. weth'[v] >= Grant
    BY <1>0, <2>3
  <2>5. QED
    BY <1>1, <2>1, <2>2, <2>3, <2>4
<1>5. ASSUME NEW u, k = CreateVault(u, v.salt), Full(v)
      PROVE  Only(v)' /\ v \in vaults' /\ Kept(v)'
  <2>1. k.fn = "createVault" /\ k.user = u /\ k.salt = v.salt
    BY <1>5 DEF CreateVault
  <2>2. u \in Users /\ v.salt \in Salts
    BY <2>1 DEF SafeCall
  <2>3. PICK a \in VaultAddresses : a = VaultAt(u, v.salt) /\ a.salt = v.salt
    BY <2>2, VaultAtAddress DEF RegistryInv, VaultAt
  <2>4. eth[a] >= Refund
    BY <2>1, <2>3 DEF Execute, Succeeds, MayCreate
  <2>5. a = v
    BY <1>0, <2>3, <2>4 DEF Only
  <2>6. /\ k.fn \notin {"sendETH", "transferFrom", "deposit", "withdraw"}
        /\ Execute(k)
    BY <2>1
  <2>7. ExecuteCreateVault(k)
    BY <2>6 DEF Execute, ExecuteSendETH, ExecuteWETH9
  <2>8. vaults' = vaults \cup {v}
    BY <2>1, <2>3, <2>5, <2>7 DEF ExecuteCreateVault
  <2>9. weth'[v] >= weth[v] /\ eth'[v] = eth[v] - Refund
    BY <2>8, EffectOnVault
  <2>10. weth'[v] \in Nat
    BY ExecuteMoney DEF MoneyInv, Addresses
  <2>11. Kept(v)'
    BY <1>0, <1>5, <2>9, <2>10 DEF Full, Kept
  <2>12. ASSUME NEW w \in VaultAddresses, w.salt = v.salt, w # v
         PROVE  eth'[w] = 0 /\ w \notin vaults'
    <3>1. eth[w] = 0 /\ w \notin vaults
      BY <2>12 DEF Only
    <3>2. ~(Pays(k) /\ k.to = w) /\ w # VaultAt(k.user, k.salt)
      BY <2>1, <2>3, <2>5, <2>12 DEF Pays
    <3>3. QED
      BY <2>12, <3>1, <3>2, EffectOnVault
  <2>13. QED
    BY <2>8, <2>11, <2>12 DEF Only
<1>6. CASE k.fn = "createVault"
  <2>1. k # Payment(v) /\ k # Transfer(v)
    BY <1>6 DEF Payment, Transfer, SendETH, TransferFrom
  <2>2. QED
    BY <1>5, <1>6, <2>1
<1>7. QED
  <2>1. /\ \A u : CreateVault(u, v.salt).fn = "createVault"
    BY DEF CreateVault
  <2>2. QED
    BY <1>2, <1>3, <1>4, <1>6, <2>1

\* A run is planned by its user and its salt.
LEMMA SamePlans ==
  ASSUME NEW r, NEW q, SameRun(r, q), NEW v
  PROVE  /\ Look(r) = Look(q) /\ Transfers(r, v) = Transfers(q, v) /\ Payments(r, v) = Payments(q, v)
         /\ Creation(r) = Creation(q) /\ Compute(r) = Compute(q)
BY DEF SameRun, Look, Transfers, Payments, Creation, Compute

\* The same, as far as it tells the steps apart.
LEMMA PlanOps ==
  ASSUME NEW r, NEW v
  PROVE  /\ Head(Look(r)).op = "read" /\ Head(Check \o Payments(r, v)).op = "read"
         /\ Head(Compute(r) \o Look(r)).op = "read"
         /\ Head(Transfers(r, v)).op = "send" /\ Head(Transfers(r, v)).call = Transfer(v)
         /\ Head(Transfers(r, v)).await = TRUE
         /\ Head(Payments(r, v)).op = "send" /\ Head(Payments(r, v)).call = Payment(v)
         /\ Head(Payments(r, v)).await = TRUE
         /\ Head(Send(Creation(r))).op = "send" /\ Head(Send(Creation(r))).call = Creation(r)
         /\ Head(Send(Creation(r))).await = TRUE
         /\ Tail(Transfers(r, v)) = Look(r) /\ Tail(Payments(r, v)) = Transfers(r, v)
         /\ Tail(Send(Creation(r))) = <<>>
<1>1. Head(Look(r)).op = "read"
  <2>1. Head(Look(r)) = [op |-> "read", what |-> "vault", of |-> r.user,
                         then |-> [then |-> "create", user |-> r.user, salt |-> r.salt]]
    BY Plans
  <2>2. QED
    BY <2>1
<1>2. Head(Check \o Payments(r, v)).op = "read"
  <2>1. PICK h, o, t : /\ h = Head(Check \o Payments(r, v)) /\ o = Owner
                       /\ t = [then |-> "wrap", amount |-> Grant, sender |-> Owner]
    OBVIOUS
  <2>2. Head(Check \o Payments(r, v)) =
          [op |-> "read", what |-> "weth", of |-> Owner,
           then |-> [then |-> "wrap", amount |-> Grant, sender |-> Owner]]
    BY Plans
  <2>3. h = [op |-> "read", what |-> "weth", of |-> o, then |-> t]
    BY <2>1, <2>2
  <2>4. h.op = "read"
    BY <2>3
  <2>5. QED
    BY <2>1, <2>4
<1>3. Head(Compute(r) \o Look(r)).op = "read"
  <2>1. PICK h, o, t : /\ h = Head(Compute(r) \o Look(r))
                       /\ o = [user |-> Owner, salt |-> r.salt] /\ t = [then |-> "grant"]
    OBVIOUS
  <2>2. Head(Compute(r) \o Look(r)) =
          [op |-> "read", what |-> "computed", of |-> [user |-> Owner, salt |-> r.salt],
           then |-> [then |-> "grant"]]
    BY Plans
  <2>3. h = [op |-> "read", what |-> "computed", of |-> o, then |-> t]
    BY <2>1, <2>2
  <2>4. h.op = "read"
    BY <2>3
  <2>5. QED
    BY <2>1, <2>4
<1>4. /\ Head(Transfers(r, v)).op = "send" /\ Head(Transfers(r, v)).call = Transfer(v)
      /\ Head(Transfers(r, v)).await = TRUE
  <2>1. Head(Transfers(r, v)) = [op |-> "send", call |-> Transfer(v), await |-> TRUE]
    BY Plans
  <2>2. QED
    BY <2>1
<1>5. /\ Head(Payments(r, v)).op = "send" /\ Head(Payments(r, v)).call = Payment(v)
      /\ Head(Payments(r, v)).await = TRUE
  <2>1. Head(Payments(r, v)) = [op |-> "send", call |-> Payment(v), await |-> TRUE]
    BY Plans
  <2>2. QED
    BY <2>1
<1>6. /\ Head(Send(Creation(r))).op = "send" /\ Head(Send(Creation(r))).call = Creation(r)
      /\ Head(Send(Creation(r))).await = TRUE
  <2>1. Head(Send(Creation(r))) = [op |-> "send", call |-> Creation(r), await |-> TRUE]
    BY Plans
  <2>2. QED
    BY <2>1
<1>7. /\ Tail(Transfers(r, v)) = Look(r) /\ Tail(Payments(r, v)) = Transfers(r, v)
      /\ Tail(Send(Creation(r))) = <<>>
  BY Plans
<1>8. QED
  BY <1>1, <1>2, <1>3, <1>4, <1>5, <1>6, <1>7

LEMMA StageStays ==
  ASSUME RegistryInv, MoneyInv, WorkInv, RunInv, TodoInv, PoolInv, [Next]_vars,
         NEW p \in Processes, run[p] # NoRun, Stage(p), run'[p] = run[p], ~Sends(p),
         ~(Mines(p, TRUE) /\ AwaitsAt(p, 1))
  PROVE  Stage(p)'
<1>1. PICK v \in VaultAddresses : v.salt = run[p].salt /\ Only(v) /\ At(p, v)
  BY DEF Stage
<1>2. run[p].salt \in 1..drawn /\ Has(p, run[p].salt)
  BY DEF RunInv, Named, Has
<1>3. ASSUME NEW w \in VaultAddresses, w.salt = v.salt
      PROVE  /\ eth'[w] >= eth[w] /\ weth'[w] >= weth[w]
             /\ w \notin vaults => eth'[w] = eth[w] /\ weth'[w] = weth[w] /\ w \notin vaults'
  BY <1>1, <1>2, <1>3, Undisturbed
<1>4. Only(v)'
  BY <1>1, <1>3 DEF Only
<1>5. /\ eth'[v] >= eth[v] /\ weth'[v] >= weth[v]
      /\ v \notin vaults => eth'[v] = eth[v] /\ weth'[v] = weth[v] /\ v \notin vaults'
  BY <1>3
<1>6. \A k : run[p].waiting /\ Awaits(p, k) => Awaits(p, k)'
  BY AwaitsStays
<1>7. /\ eth[v] \in Nat /\ weth[v] \in Nat /\ eth'[v] \in Nat /\ weth'[v] \in Nat
      /\ Grant \in Nat /\ Refund \in Nat
  BY StepKeeps, FundingAssumption DEF MoneyInv, Addresses
<1>8. (eth[v] >= Grant => eth'[v] >= Grant) /\ (weth[v] >= Grant => weth'[v] >= Grant)
      /\ (eth[v] >= Grant - Refund => eth'[v] >= Grant - Refund)
  BY <1>5, <1>7
<1>9. PICK r : r = run[p] /\ r = run'[p]
  OBVIOUS
<1>10. ASSUME Begun(p, v)
       PROVE  At(p, v)'
  BY <1>5, <1>9, <1>10 DEF Begun, At
<1>11. ASSUME Paying(p, v)
       PROVE  At(p, v)'
  BY <1>5, <1>9, <1>11 DEF Paying, At
<1>12. ASSUME Transferring(p, v)
       PROVE  At(p, v)'
  BY <1>5, <1>6, <1>8, <1>9, <1>12 DEF Transferring, Settled, At
<1>13. ASSUME Looking(p, v)
       PROVE  At(p, v)'
  BY <1>5, <1>6, <1>8, <1>9, <1>13 DEF Looking, Settled, At
<1>14. ASSUME Creating(p, v)
       PROVE  At(p, v)'
  BY <1>5, <1>8, <1>9, <1>14 DEF Creating, Full, At
<1>15. ASSUME Done(p, v)
       PROVE  At(p, v)'
  BY <1>5, <1>6, <1>8, <1>9, <1>15 DEF Done, Settled, Full, Kept, At
<1>16. At(p, v)'
  BY <1>1, <1>10, <1>11, <1>12, <1>13, <1>14, <1>15 DEF At
<1>17. QED
  BY <1>1, <1>4, <1>16 DEF Stage

LEMMA StageAsks ==
  ASSUME RegistryInv, MoneyInv, WorkInv, RunInv, TodoInv,
         NEW p \in Processes, Asks(p), run[p].task = "create-vault", Stage(p)
  PROVE  Stage(p)'
<1>1. PICK v \in VaultAddresses : v.salt = run[p].salt /\ Only(v) /\ At(p, v)
  BY DEF Stage
<1>2. /\ Ready(p) /\ NextStep(p).op = "read" /\ UNCHANGED <<eth, weth, vaults, vaultMap>>
      /\ DOMAIN run[p] = RunFields /\ NextStep(p) = Head(run[p].todo) /\ ~run[p].waiting
      /\ run[p].todo # <<>>
  BY DEF Asks, chainVars, RunInv, Named, NextStep, Ready
<1>3. PICK r, s : r = run[p] /\ s = run'[p]
  OBVIOUS
<1>4. PICK todo : todo = Answered(p) \o Tail(r.todo)
  OBVIOUS
<1>5. s = [r EXCEPT !.todo = todo]
  BY <1>3, <1>4 DEF Asks, WorkInv
<1>6. SameRun(s, r) /\ s.todo = todo /\ ~s.waiting
  <2>1. SameRun(s, r) /\ s.todo = todo /\ s.waiting = r.waiting
    BY <1>2, <1>3, <1>5 DEF SameRun, RunFields
  <2>2. QED
    BY <1>2, <1>3, <2>1
<1>7. \A u \in VaultAddresses : Only(u) => Only(u)'
  BY <1>2 DEF Only
<1>8. ASSUME Begun(p, v)
      PROVE  Stage(p)'
  <2>1. r.todo = Compute(r) \o Look(r) /\ eth[v] = 0 /\ v \notin vaults
    BY <1>3, <1>8 DEF Begun
  <2>2. r.salt \in Salts /\ Owner \in Users
    <3>1. 1..drawn \subseteq Salts
      BY SaltNumbers DEF Salts
    <3>2. QED
      BY <1>2, <1>3, <3>1, LiveSteps, AddressTypes
  <2>3. PICK a \in VaultAddresses : a = VaultAt(Owner, r.salt) /\ a.salt = r.salt
    BY <2>2, VaultAtAddress DEF VaultAt, RegistryInv
  <2>4. /\ NextStep(p) = [op |-> "read", what |-> "computed", of |-> [user |-> Owner, salt |-> r.salt],
                          then |-> [then |-> "grant"]]
        /\ Tail(r.todo) = Look(r)
    BY <1>2, <1>3, <2>1, Plans
  <2>5. Answered(p) = After([then |-> "grant"], a)
    BY <2>3, <2>4 DEF Answered, Value
  <2>6. todo = Check \o Payments(r, a)
    BY <1>4, <2>4, <2>5, Continued
  <2>7. \A w \in VaultAddresses : w.salt = r.salt => eth[w] = 0 /\ w \notin vaults
    BY <1>1, <1>3, <2>1 DEF Only
  <2>8. Only(a)' /\ a \notin vaults'
    BY <1>2, <2>3, <2>7 DEF Only
  <2>9. Paying(p, a)'
    BY <1>3, <1>6, <2>6, <2>8, SamePlans DEF Paying
  <2>10. a.salt = run'[p].salt
    BY <1>3, <1>6, <2>3 DEF SameRun
  <2>11. QED
    BY <2>8, <2>9, <2>10 DEF Stage, At
<1>9. ASSUME At(p, v)'
      PROVE  Stage(p)'
  BY <1>1, <1>3, <1>6, <1>7, <1>9 DEF Stage, SameRun
<1>10. ASSUME Paying(p, v)
       PROVE  At(p, v)'
  <2>1. r.todo = Check \o Payments(r, v) /\ v \notin vaults'
    <3>1. /\ Head(Payments(r, v)).op = "send"
          /\ \A a : Head(SendOnly(Wrap(Owner, a)) \o Payments(r, v)).op = "send"
      <4>1. Head(Payments(r, v)).op = "send"
        BY PlanOps
      <4>2. \A a : Head(SendOnly(Wrap(Owner, a)) \o Payments(r, v)).op = "send"
        BY WrapPlan
      <4>3. QED
        BY <4>1, <4>2
    <3>2. r.todo # Payments(r, v) /\ \A a : r.todo # SendOnly(Wrap(Owner, a)) \o Payments(r, v)
      BY <1>2, <1>3, <3>1
    <3>3. QED
      BY <1>2, <1>3, <1>10, <3>2 DEF Paying
  <2>2. /\ NextStep(p) = [op |-> "read", what |-> "weth", of |-> Owner,
                          then |-> [then |-> "wrap", amount |-> Grant, sender |-> Owner]]
        /\ Tail(r.todo) = Payments(r, v)
    <3>1. /\ Head(Check \o Payments(r, v)) =
               [op |-> "read", what |-> "weth", of |-> Owner,
                then |-> [then |-> "wrap", amount |-> Grant, sender |-> Owner]]
          /\ Tail(Check \o Payments(r, v)) = Payments(r, v)
      BY Plans
    <3>2. QED
      BY <1>2, <1>3, <2>1, <3>1
  <2>3. Answered(p) = After([then |-> "wrap", amount |-> Grant, sender |-> Owner], weth[Owner])
    BY <2>2 DEF Answered, Value
  <2>4. todo = IF weth[Owner] < Grant THEN SendOnly(Wrap(Owner, Grant - weth[Owner])) \o Payments(r, v)
               ELSE Payments(r, v)
    BY <1>4, <2>2, <2>3, Continued
  <2>5. weth[Owner] < Grant => Grant - weth[Owner] \in 0..Grant
    BY AddressTypes, FundingAssumption DEF MoneyInv
  <2>6. todo = Payments(r, v) \/ \E a \in 0..Grant : todo = SendOnly(Wrap(Owner, a)) \o Payments(r, v)
    BY <2>4, <2>5
  <2>7. Paying(p, v)'
    BY <1>3, <1>6, <2>1, <2>6, SamePlans DEF Paying
  <2>8. QED
    BY <2>7 DEF At
<1>11. ASSUME Looking(p, v)
       PROVE  At(p, v)'
  <2>1. r.todo = Look(r) /\ v \notin vaults' /\ Full(v)'
    BY <1>2, <1>3, <1>11 DEF Looking, Settled, Full
  <2>2. /\ NextStep(p) = [op |-> "read", what |-> "vault", of |-> r.user,
                          then |-> [then |-> "create", user |-> r.user, salt |-> r.salt]]
        /\ Tail(r.todo) = <<>>
    BY <1>2, <1>3, <2>1, Plans
  <2>3. Answered(p) = After([then |-> "create", user |-> r.user, salt |-> r.salt], vaultMap[r.user])
    BY <2>2 DEF Answered, Value
  <2>4. todo = IF vaultMap[r.user] = Zero THEN Send(Creation(r)) ELSE <<>>
    BY <1>4, <2>2, <2>3, Continued
  <2>5. Creating(p, v)' \/ Done(p, v)'
    BY <1>3, <1>6, <2>1, <2>4, SamePlans DEF Creating, Done, Settled
  <2>6. QED
    BY <2>5 DEF At
<1>12. ~Transferring(p, v) /\ ~Creating(p, v) /\ ~Done(p, v)
  <2>1. r.todo # Transfers(r, v) /\ r.todo # Send(Creation(r)) /\ r.todo # <<>>
    <3>1. Head(Transfers(r, v)).op = "send" /\ Head(Send(Creation(r))).op = "send"
      BY PlanOps
    <3>2. QED
      BY <1>2, <1>3, <3>1
  <2>2. QED
    BY <1>3, <2>1 DEF Transferring, Creating, Done
<1>13. QED
  BY <1>1, <1>8, <1>9, <1>10, <1>11, <1>12 DEF At

LEMMA StageSends ==
  ASSUME Refund > 0, RegistryInv, MoneyInv, WorkInv, RunInv, TodoInv,
         NEW p \in Processes, Sends(p), run[p].task = "create-vault", Stage(p)
  PROVE  Stage(p)'
<1>1. PICK v \in VaultAddresses : v.salt = run[p].salt /\ Only(v) /\ At(p, v)
  BY DEF Stage
<1>2. /\ Ready(p) /\ NextStep(p).op = "send"
      /\ DOMAIN run[p] = RunFields /\ NextStep(p) = Head(run[p].todo) /\ ~run[p].waiting
      /\ run[p].todo # <<>>
  BY DEF Sends, RunInv, Named, NextStep, Ready
<1>3. PICK r, s, k : r = run[p] /\ s = run'[p] /\ k = NextStep(p).call
  OBVIOUS
<1>4. PICK todo : todo = Tail(r.todo)
  OBVIOUS
<1>5. s = [r EXCEPT !.todo = todo]
  BY <1>3, <1>4 DEF Sends, WorkInv
<1>6. SameRun(s, r) /\ s.todo = todo /\ ~s.waiting
  <2>1. SameRun(s, r) /\ s.todo = todo /\ s.waiting = r.waiting
    BY <1>2, <1>3, <1>5 DEF SameRun, RunFields
  <2>2. QED
    BY <1>2, <1>3, <2>1
<1>7. SafeCall(k) /\ Execute(k)
  BY <1>2, <1>3, LiveSteps DEF Sends, SafeStep
<1>8. ASSUME Only(v)', At(p, v)'
      PROVE  Stage(p)'
  BY <1>1, <1>3, <1>6, <1>8 DEF Stage, SameRun
<1>9. ASSUME Paying(p, v)
      PROVE  Only(v)' /\ At(p, v)'
  <2>1. v \notin vaults
    BY <1>9 DEF Paying
  <2>2. r.todo # Check \o Payments(r, v)
    <3>1. Head(Check \o Payments(r, v)).op = "read"
      BY PlanOps
    <3>2. QED
      BY <1>2, <1>3, <3>1
  <2>3. CASE r.todo = Payments(r, v)
    <3>1. k = Payment(v) /\ todo = Transfers(r, v)
      <4>1. Head(Payments(r, v)).call = Payment(v) /\ Tail(Payments(r, v)) = Transfers(r, v)
        BY PlanOps
      <4>2. QED
        BY <1>2, <1>3, <1>4, <2>3, <4>1
    <3>2. Only(v)' /\ v \notin vaults' /\ eth'[v] >= Grant
      BY <1>1, <1>7, <2>1, <3>1, RunCalls
    <3>3. Transferring(p, v)'
      BY <1>3, <1>6, <3>1, <3>2, SamePlans DEF Transferring, Settled
    <3>4. QED
      BY <3>2, <3>3 DEF At
  <2>4. CASE \E a \in 0..Grant : r.todo = SendOnly(Wrap(Owner, a)) \o Payments(r, v)
    <3>1. k.fn = "deposit" /\ todo = Payments(r, v)
      <4>1. PICK a : r.todo = SendOnly(Wrap(Owner, a)) \o Payments(r, v)
        BY <2>4
      <4>2. /\ Head(SendOnly(Wrap(Owner, a)) \o Payments(r, v)).call = Wrap(Owner, a)
            /\ Tail(SendOnly(Wrap(Owner, a)) \o Payments(r, v)) = Payments(r, v)
        BY WrapPlan
      <4>3. k = Wrap(Owner, a) /\ todo = Payments(r, v)
        BY <1>2, <1>3, <1>4, <4>1, <4>2
      <4>4. QED
        BY <4>3 DEF Wrap
    <3>2. Only(v)' /\ v \notin vaults'
      BY <1>1, <1>7, <2>1, <3>1, RunCalls
    <3>3. Paying(p, v)'
      BY <1>3, <1>6, <3>1, <3>2, SamePlans DEF Paying
    <3>4. QED
      BY <3>2, <3>3 DEF At
  <2>5. QED
    BY <1>3, <1>9, <2>2, <2>3, <2>4 DEF Paying
<1>10. ASSUME Transferring(p, v)
       PROVE  Only(v)' /\ At(p, v)'
  <2>1. v \notin vaults /\ eth[v] >= Grant /\ r.todo = Transfers(r, v)
    BY <1>2, <1>3, <1>10 DEF Transferring, Settled
  <2>2. k = Transfer(v) /\ todo = Look(r)
    <3>1. Head(Transfers(r, v)).call = Transfer(v) /\ Tail(Transfers(r, v)) = Look(r)
      BY PlanOps
    <3>2. QED
      BY <1>2, <1>3, <1>4, <2>1, <3>1
  <2>3. Only(v)' /\ v \notin vaults' /\ eth'[v] >= eth[v] /\ weth'[v] >= Grant
    BY <1>1, <1>7, <2>1, <2>2, RunCalls
  <2>4. eth'[v] >= Grant
    BY <1>7, <2>1, <2>3, ExecuteMoney, FundingAssumption DEF MoneyInv, Addresses
  <2>5. Looking(p, v)'
    BY <1>3, <1>6, <2>2, <2>3, <2>4, SamePlans DEF Looking, Settled
  <2>6. QED
    BY <2>3, <2>5 DEF At
<1>11. ASSUME Creating(p, v)
       PROVE  Only(v)' /\ At(p, v)'
  <2>1. v \notin vaults /\ Full(v) /\ r.todo = Send(Creation(r))
    BY <1>3, <1>11 DEF Creating
  <2>2. k = CreateVault(r.user, v.salt) /\ todo = <<>>
    <3>1. Head(Send(Creation(r))).call = Creation(r) /\ Tail(Send(Creation(r))) = <<>>
      BY PlanOps
    <3>2. QED
      BY <1>1, <1>2, <1>3, <1>4, <2>1, <3>1 DEF Creation
  <2>3. Only(v)' /\ Kept(v)'
    BY <1>1, <1>7, <2>1, <2>2, RunCalls
  <2>4. Done(p, v)'
    BY <1>3, <1>6, <2>2, <2>3 DEF Done, Settled
  <2>5. QED
    BY <2>3, <2>4 DEF At
<1>12. ~Begun(p, v) /\ ~Looking(p, v) /\ ~Done(p, v)
  <2>1. r.todo # Compute(r) \o Look(r) /\ r.todo # Look(r) /\ r.todo # <<>>
    <3>1. Head(Compute(r) \o Look(r)).op = "read" /\ Head(Look(r)).op = "read"
      BY PlanOps
    <3>2. QED
      BY <1>2, <1>3, <3>1
  <2>2. QED
    BY <1>3, <2>1 DEF Begun, Looking, Done
<1>13. QED
  BY <1>1, <1>8, <1>9, <1>10, <1>11, <1>12 DEF At

LEMMA StageEmits ==
  ASSUME WorkInv, RunInv, NEW p \in Processes, Emits(p), run[p].task = "create-vault", Stage(p)
  PROVE  Stage(p)'
<1>1. PICK v \in VaultAddresses : v.salt = run[p].salt /\ Only(v) /\ At(p, v)
  BY DEF Stage
<1>2. /\ Ready(p) /\ NextStep(p).op = "send" /\ UNCHANGED <<eth, weth, vaults, vaultMap>>
      /\ DOMAIN run[p] = RunFields /\ NextStep(p) = Head(run[p].todo) /\ ~run[p].waiting
      /\ run[p].todo # <<>> /\ pool' = Append(pool, Tx(p)) /\ SafePool(pool)
  BY DEF Emits, chainVars, RunInv, Named, NextStep, Ready, WorkInv
<1>3. PICK r, s, k, await : r = run[p] /\ s = run'[p] /\ k = NextStep(p).call /\ await = NextStep(p).await
  OBVIOUS
<1>4. PICK todo : todo = Tail(r.todo)
  OBVIOUS
<1>5. s = [r EXCEPT !.todo = todo, !.waiting = await]
  BY <1>3, <1>4 DEF Emits, WorkInv
<1>6. SameRun(s, r) /\ s.todo = todo /\ s.waiting = await
  BY <1>2, <1>3, <1>5 DEF SameRun, RunFields
<1>7. await = TRUE => Awaits(p, k)'
  <2>1. PICK n, x : n = Len(pool') /\ x = Tx(p) /\ x.by = p /\ x.call = k
    <3>1. Tx(p).by = p /\ Tx(p).call = k
      BY <1>3 DEF Tx
    <3>2. QED
      BY <3>1
  <2>2. /\ n = Len(pool) + 1 /\ Len(pool) \in Nat /\ pool'[n] = x
        /\ 1..Len(pool') = 1..Len(pool) \cup {n}
    BY <1>2, <2>1, PoolLonger
  <2>3. n \in 1..Len(pool') /\ n + 1..Len(pool') = {}
    BY <2>1, <2>2
  <2>4. await = TRUE => AwaitsAt(p, n)'
    BY <1>3, <1>6, <2>1, <2>2, <2>3 DEF AwaitsAt
  <2>5. QED
    BY <2>1, <2>2, <2>3, <2>4 DEF Awaits
<1>8. Only(v)' /\ (Full(v) => Full(v)')
  BY <1>1, <1>2 DEF Only, Full
<1>9. ASSUME At(p, v)'
      PROVE  Stage(p)'
  BY <1>1, <1>3, <1>6, <1>8, <1>9 DEF Stage, SameRun
<1>10. ASSUME Paying(p, v)
       PROVE  At(p, v)'
  <2>1. v \notin vaults'
    BY <1>2, <1>10 DEF Paying
  <2>2. r.todo # Check \o Payments(r, v)
    <3>1. Head(Check \o Payments(r, v)).op = "read"
      BY PlanOps
    <3>2. QED
      BY <1>2, <1>3, <3>1
  <2>3. CASE r.todo = Payments(r, v)
    <3>1. k = Payment(v) /\ todo = Transfers(r, v) /\ await = TRUE
      <4>1. /\ Head(Payments(r, v)).call = Payment(v) /\ Tail(Payments(r, v)) = Transfers(r, v)
            /\ Head(Payments(r, v)).await = TRUE
        BY PlanOps
      <4>2. QED
        BY <1>2, <1>3, <1>4, <2>3, <4>1
    <3>2. Transferring(p, v)'
      BY <1>3, <1>6, <1>7, <2>1, <3>1, SamePlans DEF Transferring, Settled
    <3>3. QED
      BY <3>2 DEF At
  <2>4. CASE \E a \in 0..Grant : r.todo = SendOnly(Wrap(Owner, a)) \o Payments(r, v)
    <3>1. await = FALSE /\ todo = Payments(r, v)
      <4>1. PICK a : r.todo = SendOnly(Wrap(Owner, a)) \o Payments(r, v)
        BY <2>4
      <4>2. /\ Head(SendOnly(Wrap(Owner, a)) \o Payments(r, v)).await = FALSE
            /\ Tail(SendOnly(Wrap(Owner, a)) \o Payments(r, v)) = Payments(r, v)
        BY WrapPlan
      <4>3. QED
        BY <1>2, <1>3, <1>4, <4>1, <4>2
    <3>2. Paying(p, v)'
      BY <1>3, <1>6, <2>1, <3>1, SamePlans DEF Paying
    <3>3. QED
      BY <3>2 DEF At
  <2>5. QED
    BY <1>3, <1>10, <2>2, <2>3, <2>4 DEF Paying
<1>11. ASSUME Transferring(p, v)
       PROVE  At(p, v)'
  <2>1. v \notin vaults' /\ eth'[v] >= Grant /\ r.todo = Transfers(r, v)
    BY <1>2, <1>3, <1>11 DEF Transferring, Settled
  <2>2. k = Transfer(v) /\ todo = Look(r) /\ await = TRUE
    <3>1. /\ Head(Transfers(r, v)).call = Transfer(v) /\ Tail(Transfers(r, v)) = Look(r)
          /\ Head(Transfers(r, v)).await = TRUE
      BY PlanOps
    <3>2. QED
      BY <1>2, <1>3, <1>4, <2>1, <3>1
  <2>3. Looking(p, v)'
    BY <1>3, <1>6, <1>7, <2>1, <2>2, SamePlans DEF Looking, Settled
  <2>4. QED
    BY <2>3 DEF At
<1>12. ASSUME Creating(p, v)
       PROVE  At(p, v)'
  <2>1. v \notin vaults' /\ Full(v)' /\ r.todo = Send(Creation(r))
    BY <1>2, <1>3, <1>8, <1>12 DEF Creating
  <2>2. k = Creation(r) /\ todo = <<>> /\ await = TRUE
    <3>1. /\ Head(Send(Creation(r))).call = Creation(r) /\ Tail(Send(Creation(r))) = <<>>
          /\ Head(Send(Creation(r))).await = TRUE
      BY PlanOps
    <3>2. QED
      BY <1>2, <1>3, <1>4, <2>1, <3>1
  <2>3. Done(p, v)'
    BY <1>3, <1>6, <1>7, <2>1, <2>2, SamePlans DEF Done, Settled
  <2>4. QED
    BY <2>3 DEF At
<1>13. ~Begun(p, v) /\ ~Looking(p, v) /\ ~Done(p, v)
  <2>1. r.todo # Compute(r) \o Look(r) /\ r.todo # Look(r) /\ r.todo # <<>>
    <3>1. Head(Compute(r) \o Look(r)).op = "read" /\ Head(Look(r)).op = "read"
      BY PlanOps
    <3>2. QED
      BY <1>2, <1>3, <3>1
  <2>2. QED
    BY <1>3, <2>1 DEF Begun, Looking, Done
<1>14. QED
  BY <1>1, <1>9, <1>10, <1>11, <1>12, <1>13 DEF At

\* What an answered process is told, and what has become of its transaction.
LEMMA StageMines ==
  ASSUME Refund > 0, RegistryInv, MoneyInv, WorkInv, RunInv,
         NEW p \in Processes, Mines(p, TRUE), AwaitsAt(p, 1), run[p].task = "create-vault", Stage(p)
  PROVE  Stage(p)'
<1>1. PICK v \in VaultAddresses : v.salt = run[p].salt /\ Only(v) /\ At(p, v)
  BY DEF Stage
<1>2. /\ pool # <<>> /\ pool' = Tail(pool) /\ Head(pool).by = p /\ Answer(p, TRUE)
      /\ Execute(Head(pool).call) /\ SafePool(pool) /\ DOMAIN run = Processes
      /\ DOMAIN run[p] = RunFields /\ run[p].waiting = TRUE
  BY DEF Mines, WorkInv, RunInv, Named, AwaitsAt, SafeRun
<1>3. PICK k, r, s : k = pool[1].call /\ r = run[p] /\ s = run'[p]
  OBVIOUS
<1>4. Head(pool) = pool[1] /\ Len(pool) \in Nat /\ Len(pool) >= 1 /\ SafeCall(k) /\ Execute(k)
  BY <1>2, <1>3, PoolShorter DEF SafePool
<1>5. ~\E i \in 2..Len(pool) : pool[i].by = p
  BY <1>4 DEF AwaitsAt
<1>6. SameRun(s, r) /\ s.todo = r.todo /\ ~s.waiting
  <2>1. s = [r EXCEPT !.waiting = FALSE]
    BY <1>2, <1>3, <1>5 DEF Answer
  <2>2. QED
    BY <1>2, <1>3, <2>1 DEF SameRun, RunFields
<1>7. \A c : Awaits(p, c) => c = k
  <2>1. ASSUME NEW c, NEW i \in 1..Len(pool), pool[i].call = c, AwaitsAt(p, i)
        PROVE  c = k
    <3>1. i = 1
      BY <1>4, <1>5, <2>1 DEF AwaitsAt
    <3>2. QED
      BY <1>3, <2>1, <3>1
  <2>2. QED
    BY <2>1 DEF Awaits
<1>8. ASSUME Only(v)', At(p, v)'
      PROVE  Stage(p)'
  BY <1>1, <1>3, <1>6, <1>8 DEF Stage, SameRun
<1>9. ASSUME Transferring(p, v)
      PROVE  Only(v)' /\ At(p, v)'
  <2>1. r.todo = Transfers(r, v) /\ v \notin vaults /\ k = Payment(v)
    BY <1>2, <1>3, <1>7, <1>9 DEF Transferring, Settled
  <2>2. Only(v)' /\ v \notin vaults' /\ eth'[v] >= Grant
    BY <1>1, <1>4, <2>1, RunCalls
  <2>3. Transferring(p, v)'
    BY <1>3, <1>6, <2>1, <2>2, SamePlans DEF Transferring, Settled
  <2>4. QED
    BY <2>2, <2>3 DEF At
<1>10. ASSUME Looking(p, v)
       PROVE  Only(v)' /\ At(p, v)'
  <2>1. r.todo = Look(r) /\ v \notin vaults /\ k = Transfer(v) /\ eth[v] >= Grant
    BY <1>2, <1>3, <1>7, <1>10 DEF Looking, Settled
  <2>2. Only(v)' /\ v \notin vaults' /\ eth'[v] >= eth[v] /\ weth'[v] >= Grant
    BY <1>1, <1>4, <2>1, RunCalls
  <2>3. eth'[v] >= Grant
    <3>1. eth[v] \in Nat /\ eth'[v] \in Nat /\ Grant \in Nat
      <4>1. MoneyInv'
        BY <1>4, ExecuteMoney
      <4>2. QED
        BY <4>1, FundingAssumption DEF MoneyInv, Addresses
    <3>2. QED
      BY <2>1, <2>2, <3>1
  <2>4. Looking(p, v)'
    BY <1>3, <1>6, <2>1, <2>2, <2>3, SamePlans DEF Looking, Settled
  <2>5. QED
    BY <2>2, <2>4 DEF At
<1>11. ASSUME Done(p, v)
       PROVE  Only(v)' /\ At(p, v)'
  <2>1. r.todo = <<>> /\ v \notin vaults /\ k = CreateVault(r.user, v.salt) /\ Full(v)
    BY <1>1, <1>2, <1>3, <1>7, <1>11 DEF Done, Settled, Creation
  <2>2. Only(v)' /\ Kept(v)'
    BY <1>1, <1>4, <2>1, RunCalls
  <2>3. Done(p, v)'
    BY <1>3, <1>6, <2>1, <2>2 DEF Done, Settled
  <2>4. QED
    BY <2>2, <2>3 DEF At
<1>12. ~Begun(p, v) /\ ~Paying(p, v) /\ ~Creating(p, v)
  BY <1>2 DEF Begun, Paying, Creating
<1>13. QED
  BY <1>1, <1>8, <1>9, <1>10, <1>11, <1>12 DEF At

\* A process whose run is what it was has sent nothing and heard nothing.
LEMMA Unmoved ==
  ASSUME WorkInv, RunInv, TodoInv, NEW p \in Processes, run'[p] = run[p]
  PROVE  ~Sends(p) /\ ~(Mines(p, TRUE) /\ AwaitsAt(p, 1))
<1>0. DOMAIN run = Processes /\ DOMAIN run[p] = RunFields
  BY DEF WorkInv, RunInv, Named
<1>1. ASSUME Sends(p)
      PROVE  FALSE
  <2>1. PICK r, todo : r = run[p] /\ todo = Tail(r.todo)
    OBVIOUS
  <2>2. run'[p] = [r EXCEPT !.todo = todo]
    BY <1>0, <1>1, <2>1 DEF Sends
  <2>3. r.todo = todo
    BY <1>0, <2>1, <2>2 DEF RunFields
  <2>4. PICK t, S : t = r.todo /\ t \in Seq(S) /\ t # <<>>
    BY <1>1, <2>1 DEF Sends, Ready, WorkInv, SafeRun, SafeSteps, IsSeq
  <2>5. Len(Tail(t)) = Len(t) - 1 /\ Len(t) \in Nat
    BY <2>4
  <2>6. Tail(t) = t
    BY <2>1, <2>3, <2>4
  <2>7. PICK n, m : n = Len(t) /\ m = Len(Tail(t))
    OBVIOUS
  <2>8. n = m /\ m = n - 1 /\ n \in Nat
    BY <2>5, <2>6, <2>7
  <2>9. QED
    BY <2>8
<1>2. ASSUME Mines(p, TRUE), AwaitsAt(p, 1)
      PROVE  FALSE
  <2>1. run[p].waiting /\ ~\E i \in 2..Len(pool) : pool[i].by = p
    BY <1>2 DEF AwaitsAt
  <2>2. PICK r : r = run[p]
    OBVIOUS
  <2>3. run'[p] = [r EXCEPT !.waiting = FALSE]
    BY <1>0, <1>2, <2>1, <2>2 DEF Mines, Answer
  <2>4. ~r.waiting
    BY <1>0, <2>2, <2>3 DEF RunFields
  <2>5. QED
    BY <2>1, <2>2, <2>4
<1>3. QED
  BY <1>1, <1>2

LEMMA StageBegins ==
  ASSUME RegistryInv, WorkInv, FreshInv, NEW p \in Processes, NEW user \in Users,
         Begins(p, "create-vault", user)
  PROVE  Stage(p)'
<1>1. /\ drawn' = drawn + 1 /\ drawn' \in 1..MaxSalts /\ UNCHANGED <<eth, weth, vaults>>
      /\ DOMAIN run = Processes
  BY DEF Begins, chainVars, WorkInv
<1>2. PICK n : n = drawn' /\ n \in Salts /\ n > drawn
  <2>1. drawn \in Nat /\ 1..MaxSalts \subseteq Salts
    BY SaltNumbers DEF Salts
  <2>2. QED
    BY <1>1, <2>1
<1>3. PICK v \in VaultAddresses : v.salt = n
  BY <1>2, VaultAtAddress, AddressTypes DEF VaultAt, RegistryInv
<1>4. \A w \in VaultAddresses : w.salt = n => eth'[w] = 0 /\ w \notin vaults'
  BY <1>1, <1>2 DEF FreshInv
<1>5. PICK todo, s : todo = TaskSteps("create-vault", user, n) /\ s = run'[p]
  OBVIOUS
<1>6. s = [task |-> "create-vault", user |-> user, salt |-> n, waiting |-> FALSE, todo |-> todo]
  BY <1>1, <1>2, <1>5 DEF Begins
<1>7. s.user = user /\ s.salt = n /\ s.waiting = FALSE /\ s.todo = todo
  BY <1>6
<1>8. todo = Compute(s) \o Look(s)
  BY <1>5, <1>7 DEF TaskSteps, CreateVaultTask, Compute, Look
<1>9. Begun(p, v)' /\ Only(v)'
  BY <1>3, <1>4, <1>5, <1>7, <1>8 DEF Begun, Only
<1>10. QED
  BY <1>3, <1>5, <1>7, <1>9 DEF Stage, At

LEMMA StageMoves ==
  ASSUME Refund > 0, RegistryInv, MoneyInv, WorkInv, RunInv, TodoInv, PoolInv, FreshInv, [Next]_vars,
         NEW p \in Processes, run[p] # NoRun /\ run[p].task = "create-vault" => Stage(p),
         run'[p] # NoRun, run'[p].task = "create-vault"
  PROVE  Stage(p)'
<1>0. DOMAIN run = Processes /\ \A q \in Processes : DOMAIN run[q] = RunFields
  BY DEF WorkInv, RunInv, Named
<1>1. CASE run'[p] = run[p]
  <2>1. run[p] # NoRun /\ Stage(p)
    BY <1>1
  <2>2. ~Sends(p) /\ ~(Mines(p, TRUE) /\ AwaitsAt(p, 1))
    BY <1>1, Unmoved
  <2>3. QED
    BY <1>1, <2>1, <2>2, StageStays
<1>2. CASE run'[p] # run[p]
  <2>1. ASSUME NEW q \in Processes, NEW task \in TaskNames, NEW user \in Users, Begins(q, task, user)
        PROVE  Stage(p)'
    <3>1. PICK r : r = [task |-> task, user |-> user, salt |-> drawn', waiting |-> FALSE,
                        todo |-> TaskSteps(task, user, drawn')]
      OBVIOUS
    <3>2. run' = [run EXCEPT ![q] = r] /\ r.task = task
      BY <2>1, <3>1 DEF Begins
    <3>3. q = p /\ task = "create-vault"
      BY <1>0, <1>2, <3>2
    <3>4. QED
      BY <2>1, <3>3, StageBegins
  <2>2. ASSUME NEW q \in Processes, NEW r, run' = [run EXCEPT ![q] = r], r = NoRun \/ SameRun(r, run[q])
        PROVE  q = p /\ run[p].task = "create-vault"
    <3>1. q = p /\ run'[p] = r
      BY <1>0, <1>2, <2>2
    <3>2. QED
      BY <2>2, <3>1 DEF SameRun
  <2>3. ASSUME NEW q \in Processes, Asks(q)
        PROVE  Stage(p)'
    <3>1. PICK r, todo : r = [run[q] EXCEPT !.todo = todo] /\ run' = [run EXCEPT ![q] = r]
      BY <2>3 DEF Asks
    <3>2. SameRun(r, run[q])
      BY <1>0, <3>1 DEF SameRun, RunFields
    <3>3. q = p /\ run[p].task = "create-vault" /\ run[p] # NoRun
      BY <2>2, <2>3, <3>1, <3>2, ReadyLive DEF Asks
    <3>4. QED
      BY <2>3, <3>3, StageAsks
  <2>4. ASSUME NEW q \in Processes, Sends(q)
        PROVE  Stage(p)'
    <3>1. PICK r, todo : r = [run[q] EXCEPT !.todo = todo] /\ run' = [run EXCEPT ![q] = r]
      BY <2>4 DEF Sends
    <3>2. SameRun(r, run[q])
      BY <1>0, <3>1 DEF SameRun, RunFields
    <3>3. q = p /\ run[p].task = "create-vault" /\ run[p] # NoRun
      BY <2>2, <2>4, <3>1, <3>2, ReadyLive DEF Sends
    <3>4. QED
      BY <2>4, <3>3, StageSends
  <2>5. ASSUME NEW q \in Processes, Emits(q)
        PROVE  Stage(p)'
    <3>1. PICK r, todo, w : r = [run[q] EXCEPT !.todo = todo, !.waiting = w] /\ run' = [run EXCEPT ![q] = r]
      BY <2>5 DEF Emits
    <3>2. SameRun(r, run[q])
      BY <1>0, <3>1 DEF SameRun, RunFields
    <3>3. q = p /\ run[p].task = "create-vault" /\ run[p] # NoRun
      BY <2>2, <2>5, <3>1, <3>2, ReadyLive DEF Emits
    <3>4. QED
      BY <2>5, <3>3, StageEmits
  <2>6. ASSUME NEW q \in Processes, Leaves(q) \/ Ends(q)
        PROVE  FALSE
    BY <1>0, <1>2, <2>6 DEF Leaves, Ends
  <2>7. ASSUME NEW q, NEW succeeds \in BOOLEAN, Mines(q, succeeds)
        PROVE  Stage(p)'
    <3>1. /\ Answer(q, succeeds) /\ pool # <<>> /\ pool' = Tail(pool) /\ Head(pool).by = q
      BY <2>7 DEF Mines
    <3>2. /\ run[q].waiting /\ ~\E i \in 2..Len(pool) : pool[i].by = q
          /\ run' = [run EXCEPT ![q] = IF succeeds THEN [@ EXCEPT !.waiting = FALSE] ELSE NoRun]
      BY <1>2, <3>1 DEF Answer
    <3>3. q = p
      BY <1>0, <1>2, <3>2
    <3>4. succeeds = TRUE
      BY <1>0, <3>2, <3>3
    <3>5. AwaitsAt(p, 1)
      <4>1. pool[1].by = p
        BY <3>1, <3>3, PoolShorter DEF WorkInv
      <4>2. QED
        BY <3>2, <3>3, <4>1 DEF AwaitsAt
    <3>6. PICK r : r = [run[p] EXCEPT !.waiting = FALSE]
      OBVIOUS
    <3>7. run' = [run EXCEPT ![p] = r] /\ SameRun(r, run[p])
      BY <1>0, <3>2, <3>3, <3>4, <3>6 DEF SameRun, RunFields
    <3>8. run[p].task = "create-vault" /\ run[p] # NoRun
      BY <2>2, <3>2, <3>3, <3>7, ReadyLive
    <3>9. QED
      BY <2>7, <3>3, <3>4, <3>5, <3>8, StageMines
  <2>8. CASE UNCHANGED vaultVars \/ Changes
    BY <1>2, <2>8 DEF vaultVars, Changes
  <2>9. QED
    BY <2>1, <2>3, <2>4, <2>5, <2>6, <2>7, <2>8, StepForms
<1>3. QED
  BY <1>1, <1>2

Delivered(f) == \A v \in vaults : v.salt = f.salt => Kept(v)

\* What a process has left in the vault it created stays there.
LEMMA DeliveredStays ==
  ASSUME RegistryInv, MoneyInv, WorkInv, RunInv, TodoInv, PoolInv, [Next]_vars,
         NEW p \in Processes, NEW f, f = finished[p], f # NoRun, Delivered(f)
  PROVE  Delivered(f)'
<1>1. run[p] = NoRun /\ f.salt \in 1..drawn /\ Has(p, f.salt)
  BY DEF RunInv, Named, Has
<1>2. ~Sends(p) /\ ~(Mines(p, TRUE) /\ AwaitsAt(p, 1))
  BY <1>1, ReadyLive DEF Sends, AwaitsAt
<1>3. SUFFICES ASSUME NEW v \in vaults', v.salt = f.salt
               PROVE  Kept(v)'
  BY DEF Delivered
<1>4. v \in VaultAddresses
  BY <1>3, StepKeeps DEF RegistryInv
<1>5. /\ eth'[v] >= eth[v] /\ weth'[v] >= weth[v] /\ v \in vaults
  BY <1>1, <1>2, <1>3, <1>4, Undisturbed
<1>6. /\ eth[v] \in Nat /\ weth[v] \in Nat /\ eth'[v] \in Nat /\ weth'[v] \in Nat
      /\ Grant \in Nat /\ Refund \in Nat
  BY <1>4, StepKeeps, FundingAssumption DEF MoneyInv, Addresses
<1>7. Kept(v)
  BY <1>3, <1>5 DEF Delivered
<1>8. QED
  BY <1>5, <1>6, <1>7 DEF Kept

\* A run that ends has nothing more to do.
LEMMA StageEnds ==
  ASSUME RegistryInv, NEW p \in Processes, Ends(p), Stage(p)
  PROVE  Delivered(run[p])
<1>1. PICK v \in VaultAddresses : v.salt = run[p].salt /\ Only(v) /\ At(p, v)
  BY DEF Stage
<1>2. run[p].todo = <<>> /\ ~run[p].waiting
  BY DEF Ends
<1>3. Done(p, v)
  <2>1. PICK r : r = run[p]
    OBVIOUS
  <2>2. /\ Compute(r) \o Look(r) # <<>> /\ Check \o Payments(r, v) # <<>> /\ Payments(r, v) # <<>>
        /\ Transfers(r, v) # <<>> /\ Look(r) # <<>> /\ Send(Creation(r)) # <<>>
    BY Plans
  <2>3. \A a : SendOnly(Wrap(Owner, a)) \o Payments(r, v) # <<>>
    <3>1. IsSeq(Payments(r, v))
      BY Plans
    <3>2. QED
      BY <3>1, First DEF SendOnly
  <2>4. QED
    BY <1>1, <1>2, <2>1, <2>2, <2>3
       DEF At, Begun, Paying, Transferring, Looking, Creating
<1>4. v \in vaults => Kept(v)
  BY <1>2, <1>3 DEF Done, Settled
<1>5. \A w \in vaults : w.salt = v.salt => w = v
  BY <1>1 DEF Only, RegistryInv
<1>6. QED
  BY <1>1, <1>4, <1>5 DEF Delivered

LEMMA NextFunds ==
  ASSUME Refund > 0, RegistryInv, MoneyInv, WorkInv, RunInv, TodoInv, PoolInv, FreshInv, FundsInv,
         [Next]_vars
  PROVE  FundsInv'
<1>1. ASSUME NEW p \in Processes, run'[p] # NoRun, run'[p].task = "create-vault"
      PROVE  Stage(p)'
  BY <1>1, StageMoves DEF FundsInv
<1>2. ASSUME NEW p \in Processes, NEW f, f = finished'[p], f # NoRun, f.task = "create-vault"
      PROVE  Delivered(f)'
  <2>1. CASE f = finished[p]
    <3>1. Delivered(f)
      BY <1>2, <2>1 DEF FundsInv, Delivered
    <3>2. QED
      BY <1>2, <2>1, <3>1, DeliveredStays
  <2>2. CASE f # finished[p]
    <3>1. DOMAIN finished = Processes /\ ~UNCHANGED finished
      BY <1>2, <2>2 DEF RunInv
    <3>2. ASSUME NEW q \in Processes, NEW task \in TaskNames, NEW user \in Users, Begins(q, task, user)
          PROVE  FALSE
      <4>1. finished' = [finished EXCEPT ![q] = NoRun]
        BY <3>2 DEF Begins
      <4>2. QED
        BY <1>2, <2>2, <3>1, <4>1
    <3>3. PICK q \in Processes : Ends(q)
      BY <3>1, <3>2, StepForms
         DEF vaultVars, bookkeeping, Asks, Sends, Emits, Leaves, Mines, Changes
    <3>4. q = p /\ f = run[p] /\ UNCHANGED <<eth, weth, vaults>> /\ run[p] # NoRun
      BY <1>2, <2>2, <3>1, <3>3 DEF Ends, chainVars
    <3>5. Delivered(f)
      BY <1>2, <3>3, <3>4, StageEnds DEF FundsInv
    <3>6. QED
      BY <3>4, <3>5 DEF Delivered, Kept
  <2>3. QED
    BY <2>1, <2>2
<1>3. QED
  BY <1>1, <1>2 DEF FundsInv, Delivered

\* As long as creating a vault costs something: the vault that a run of
\* dev:create-vault has created is the one it funded, whatever else is run and
\* whether or not the currency, and so the computed address, has changed.
THEOREM CreatedVaultsAreFunded ==
  ASSUME Refund > 0
  PROVE  Spec => []CreatedVaultWasFunded
<1>1. Init => FreshInv /\ FundsInv
  <2>1. SUFFICES ASSUME Init
                 PROVE  FreshInv /\ FundsInv
    OBVIOUS
  <2>2. /\ \A p \in Processes : run[p] = NoRun /\ finished[p] = NoRun
    <3>1. PICK n : n = NoRun
      OBVIOUS
    <3>2. run = [p \in Processes |-> n] /\ finished = [p \in Processes |-> n]
      BY <2>1, <3>1 DEF Init
    <3>3. QED
      BY <3>1, <3>2
  <2>3. FundsInv
    BY <2>2 DEF FundsInv
  <2>4. \A a \in VaultAddresses : eth[a] = 0 /\ weth[a] = 0 /\ a \notin vaults
    <3>1. ASSUME NEW a \in VaultAddresses
          PROVE  a \in Addresses /\ a # Owner /\ a # Bob
      BY FundingAssumption DEF Addresses
    <3>2. QED
      BY <2>1, <3>1 DEF Init
  <2>5. QED
    BY <2>3, <2>4 DEF FreshInv
<1>2. /\ RegistryInv /\ MoneyInv /\ WorkInv /\ RunInv /\ TodoInv /\ PoolInv /\ FreshInv /\ FundsInv
      /\ [Next]_vars
      => FreshInv' /\ FundsInv'
  BY NextFresh, NextFunds
<1>3. RegistryInv /\ RunInv /\ FundsInv => CreatedVaultWasFunded
  <2>1. SUFFICES ASSUME RegistryInv, RunInv, FundsInv, NEW p \in Processes, NEW f, f = finished[p],
                        f.task = "create-vault", vaultMap[f.user] # Zero,
                        NEW v, v = vaultMap[f.user], v.salt = f.salt
                 PROVE  Kept(v)
    BY DEF CreatedVaultWasFunded, Kept
  <2>2. f # NoRun
    <3>1. f.task \in TaskNames
      BY <2>1 DEF TaskNames
    <3>2. QED
      BY <3>1, TaskNotNone
  <2>3. f.user \in Users
    BY <2>1, <2>2 DEF RunInv, Named
  <2>4. v \in vaults
    BY <2>1, <2>3 DEF RegistryInv, OneVaultPerOwner
  <2>5. QED
    BY <2>1, <2>2, <2>4 DEF FundsInv
<1>4. QED
  BY <1>1, <1>2, <1>3, WorkHolds, PTL DEF Spec

\* Together: what the tasks promise of vaults when they end.
THEOREM TasksDeliver ==
  ASSUME Refund > 0
  PROVE  Spec => []FinishedTasksDeliver
BY TasksLeaveVault, CreatedVaultsAreFunded, PocNeverLoses, PTL DEF FinishedTasksDeliver

(***************************************************************************)
(* One process, which never died, and the first currency: all that is      *)
(* pending is its own, and what it does not wait for is in the background. *)
(***************************************************************************)
Alone(p) == crashes = 0 /\ weth9 = Weth /\ setting.processes = {p}
AloneInv ==
  /\ crashes \in Nat
  /\ \A p \in Processes : Alone(p) =>
       \A i \in 1..Len(pool) : pool[i].by = p /\ (Background(pool[i].call) \/ AwaitsAt(p, i))

(***************************************************************************)
(* How far dev:create-vault has come for the owner, alone: the WETH it     *)
(* transfers is there, or a transaction ahead of the one it waits for      *)
(* brings it.                                                              *)
(***************************************************************************)
Lacks(a) == a \in 0..Grant /\ weth[Owner] + a >= Grant
WethComing ==
  weth[Owner] >= Grant \/ \E i \in 1..Len(pool), a \in 0..Grant : pool[i].call = Wrap(Owner, a) /\ Lacks(a)

ToPay(p, v) ==
  /\ \/ run[p].todo = Compute(run[p]) \o Look(run[p]) \/ run[p].todo = Check \o Payments(run[p], v)
     \/ \E a \in 0..Grant : run[p].todo = SendOnly(Wrap(Owner, a)) \o Payments(run[p], v) /\ Lacks(a)
     \/ run[p].todo = Payments(run[p], v) /\ WethComing
  /\ ~run[p].waiting
ToTransfer(p, v) ==
  /\ run[p].todo = Transfers(run[p], v)
  /\ IF run[p].waiting THEN Awaits(p, Payment(v)) /\ WethComing
     ELSE weth[Owner] >= Grant /\ eth[v] >= Grant
ToLook(p, v) ==
  /\ run[p].todo = Look(run[p]) /\ eth[v] >= Grant
  /\ run[p].waiting => Awaits(p, Transfer(v))
ToCreate(p, v) ==
  /\ run[p].todo = Send(Creation(run[p])) /\ ~run[p].waiting
  /\ eth[v] >= Grant /\ vaultMap[Owner] = Zero
Follows(p, v) ==
  ToPay(p, v) \/ ToTransfer(p, v) \/ ToLook(p, v) \/ ToCreate(p, v) \/ run[p].todo = <<>>

OwnerRun(p) == run[p].task = "create-vault" /\ run[p].user = Owner
Computed(p) == [user |-> Owner, salt |-> run[p].salt, weth9 |-> Weth]
OrderInv == \A p \in Processes : Alone(p) /\ OwnerRun(p) => Follows(p, Computed(p))

LEMMA WasAlone ==
  ASSUME WorkInv, RunInv, AloneInv, [Next]_vars, NEW p \in Processes, Alone(p)'
  PROVE  /\ Alone(p) /\ ~Changes /\ UNCHANGED crashes
         /\ \A q \in Processes : run[q] # NoRun => q = p
         /\ \A q \in Processes : \A task, user : Begins(q, task, user) => q = p
<1>1. UNCHANGED setting
  BY StepForms DEF vaultVars, Begins, Asks, Sends, Emits, Leaves, Ends, Mines, Changes, bookkeeping
<1>2. crashes' = crashes \/ crashes' = crashes + 1
  BY StepForms DEF vaultVars, Begins, Asks, Sends, Emits, Leaves, Ends, Mines, Changes, bookkeeping, Crash
<1>3. UNCHANGED crashes
  BY <1>2 DEF AloneInv, Alone
<1>4. ~Changes
  BY DEF Alone, Changes
<1>5. UNCHANGED weth9
  BY <1>4, StepForms DEF vaultVars, Begins, Asks, Sends, Emits, Leaves, Ends, Mines, bookkeeping
<1>6. Alone(p) /\ setting.processes = {p}
  BY <1>1, <1>3, <1>5 DEF Alone
<1>7. QED
  BY <1>3, <1>4, <1>6 DEF RunInv, Begins

\* A process that does not wait has sent what it need not wait for.
LEMMA NextAlone ==
  ASSUME RegistryInv, MoneyInv, WorkInv, RunInv, TodoInv, AloneInv, [Next]_vars
  PROVE  AloneInv'
<1>0. /\ DOMAIN run = Processes /\ SafePool(pool) /\ NoRun.waiting = FALSE
      /\ \A p \in Processes : DOMAIN run[p] = RunFields
  BY DEF WorkInv, RunInv, Named, NoRun
<1>1. crashes' \in Nat
  <2>1. crashes' = crashes \/ crashes' = crashes + 1
    BY StepForms DEF vaultVars, Begins, Asks, Sends, Emits, Leaves, Ends, Mines, Changes, bookkeeping, Crash
  <2>2. QED
    BY <2>1 DEF AloneInv
<1>2. SUFFICES ASSUME NEW p \in Processes, Alone(p)'
               PROVE  \A i \in 1..Len(pool') :
                        pool'[i].by = p /\ (Background(pool'[i].call) \/ AwaitsAt(p, i)')
  BY <1>1 DEF AloneInv, Background
<1>3. /\ \A i \in 1..Len(pool) : pool[i].by = p /\ (Background(pool[i].call) \/ AwaitsAt(p, i))
      /\ \A q \in Processes : run[q] # NoRun => q = p
      /\ \A q \in Processes : \A task, user : Begins(q, task, user) => q = p
      /\ ~Changes
  BY <1>2, WasAlone DEF AloneInv
<1>4. ~run[p].waiting => \A i \in 1..Len(pool) : Background(pool[i].call)
  BY <1>3 DEF AwaitsAt
<1>5. CASE UNCHANGED pool /\ ~run[p].waiting
  BY <1>3, <1>4, <1>5
<1>6. CASE UNCHANGED vaultVars
  BY <1>3, <1>6 DEF vaultVars, AwaitsAt
<1>7. ASSUME NEW q \in Processes, NEW task \in TaskNames, NEW user \in Users, Begins(q, task, user)
      PROVE  UNCHANGED pool /\ ~run[p].waiting
  BY <1>0, <1>3, <1>7 DEF Begins
<1>8. ASSUME NEW q \in Processes, Asks(q) \/ Sends(q) \/ Leaves(q) \/ Ends(q)
      PROVE  UNCHANGED pool /\ ~run[p].waiting
  <2>1. q = p
    BY <1>3, <1>8, ReadyLive DEF Asks, Sends, Leaves, Ends
  <2>2. ~Crash(p)
    BY <1>2, WasAlone DEF Crash, AloneInv
  <2>3. QED
    BY <1>8, <2>1, <2>2 DEF Asks, Sends, Leaves, Ends, Fails, Ready, bookkeeping
<1>9. ASSUME NEW q \in Processes, Emits(q)
      PROVE  \A i \in 1..Len(pool') : pool'[i].by = p /\ (Background(pool'[i].call) \/ AwaitsAt(p, i)')
  <2>1. /\ q = p /\ Ready(p) /\ NextStep(p).op = "send" /\ pool' = Append(pool, Tx(p)) /\ ~Automines
    BY <1>3, <1>9, ReadyLive DEF Emits, Ready, Automines
  <2>2. PICK n, x : n = Len(pool') /\ x = Tx(p) /\ x.by = p /\ x.call = NextStep(p).call
    <3>1. Tx(p).by = p /\ Tx(p).call = NextStep(p).call
      BY DEF Tx
    <3>2. QED
      BY <3>1
  <2>3. /\ pool'[n] = x /\ 1..Len(pool') = 1..Len(pool) \cup {n} /\ n \in Nat
        /\ \A i \in 1..Len(pool) : pool'[i] = pool[i]
    BY <1>0, <2>1, <2>2, PoolLonger
  <2>4. ~run[p].waiting
    BY <2>1 DEF Ready
  <2>5. NextStep(p).await = TRUE \/ Background(x.call)
    <3>1. OwnStep(NextStep(p), run[p].salt)
      BY <2>1, LiveSteps
    <3>2. QED
      BY <2>1, <2>2, <3>1 DEF OwnStep
  <2>6. run'[p].waiting = NextStep(p).await
    BY <1>0, <1>9, <2>1 DEF Emits, RunFields
  <2>7. NextStep(p).await = TRUE => AwaitsAt(p, n)'
    <3>1. n + 1..Len(pool') = {}
      BY <2>2, <2>3
    <3>2. QED
      BY <2>2, <2>3, <2>6, <3>1 DEF AwaitsAt
  <2>8. QED
    BY <1>3, <1>4, <2>2, <2>3, <2>4, <2>5, <2>7
<1>10. ASSUME NEW q, NEW succeeds \in BOOLEAN, Mines(q, succeeds)
       PROVE  \A i \in 1..Len(pool') : pool'[i].by = p /\ (Background(pool'[i].call) \/ AwaitsAt(p, i)')
  <2>1. SUFFICES ASSUME NEW i \in 1..Len(pool')
                 PROVE  pool'[i].by = p /\ (Background(pool'[i].call) \/ AwaitsAt(p, i)')
    OBVIOUS
  <2>2. pool # <<>> /\ pool' = Tail(pool)
    BY <1>10 DEF Mines
  <2>3. PICK j : j = i + 1 /\ j \in 2..Len(pool) /\ j \in 1..Len(pool) /\ pool'[i] = pool[j] /\ j - 1 = i
    BY <1>0, <2>2, PoolShorter
  <2>4. AwaitsAt(p, j) => AwaitsAt(p, j - 1)'
    BY <1>0, <1>10, <2>3, AwaitsShorter
  <2>5. QED
    BY <1>3, <2>3, <2>4
<1>11. QED
  BY <1>3, <1>5, <1>6, <1>7, <1>8, <1>9, <1>10, StepForms

\* What becomes of the owner's WETH, and of what an address has.
LEMMA BackgroundEffect ==
  ASSUME RegistryInv, MoneyInv, NEW k, SafeCall(k), Execute(k), Background(k), NEW v \in VaultAddresses
  PROVE  /\ weth'[Owner] >= weth[Owner] /\ eth'[v] >= eth[v] /\ UNCHANGED vaultMap
         /\ k.fn = "deposit" /\ k.from = Owner => weth'[Owner] = weth[Owner] + k.amount
<1>0. /\ eth \in [Addresses -> Nat] /\ weth \in [Addresses -> Nat] /\ Owner \in Addresses
      /\ v \in Addresses /\ weth[Owner] \in Nat /\ eth[v] \in Nat /\ v \notin Users
  BY AddressTypes, FundingAssumption DEF MoneyInv, Addresses
<1>1. k.fn \in {"deposit", "sendETH", "transferFrom"} /\ k.from \in Users /\ k.amount \in Nat
  BY DEF Background, SafeCall
<1>2. eth'[v] >= eth[v]
  <2>1. k.fn # "createVault"
    BY <1>1
  <2>2. QED
    BY <2>1, EffectOnVault
<1>3. CASE k.fn = "sendETH"
  <2>1. UNCHANGED <<weth, vaultMap>>
    BY <1>3 DEF Execute, ExecuteSendETH, ExecuteWETH9, ExecuteCreateVault
  <2>2. QED
    BY <1>0, <1>2, <1>3, <2>1
<1>4. CASE k.fn = "deposit"
  <2>1. UNCHANGED vaultMap /\ weth' = [weth EXCEPT ![k.from] = @ + k.amount]
    BY <1>4 DEF Execute, ExecuteSendETH, ExecuteWETH9, ExecuteCreateVault
  <2>2. weth'[Owner] = IF k.from = Owner THEN weth[Owner] + k.amount ELSE weth[Owner]
    BY <1>0, <2>1
  <2>3. QED
    BY <1>0, <1>1, <1>2, <2>1, <2>2
<1>5. CASE k.fn = "transferFrom"
  <2>1. /\ UNCHANGED vaultMap /\ k.from # Owner /\ k.to \in Addresses
        /\ weth' = [weth EXCEPT ![k.from] = @ - k.amount, ![k.to] = @ + k.amount]
    BY <1>5 DEF Execute, ExecuteSendETH, ExecuteWETH9, ExecuteCreateVault, Background, SafeCall
  <2>2. weth'[Owner] = IF k.to = Owner THEN weth[Owner] + k.amount ELSE weth[Owner]
    BY <1>0, <2>1
  <2>3. QED
    BY <1>0, <1>1, <1>2, <1>5, <2>1, <2>2
<1>6. QED
  BY <1>1, <1>3, <1>4, <1>5

LEMMA OrderedCalls ==
  ASSUME RegistryInv, MoneyInv, NEW k, SafeCall(k), Execute(k), NEW v \in VaultAddresses
  PROVE  /\ \A a \in 0..Grant : k = Wrap(Owner, a) => weth'[Owner] = weth[Owner] + a
         /\ k = Payment(v) => weth' = weth /\ eth'[v] >= Grant
         /\ k = Transfer(v) => eth'[v] = eth[v]
<1>0. Grant \in Nat /\ v \in Addresses /\ eth[v] \in Nat
  BY FundingAssumption DEF MoneyInv, Addresses
<1>1. ASSUME NEW a \in 0..Grant, k = Wrap(Owner, a)
      PROVE  weth'[Owner] = weth[Owner] + a
  <2>1. k.fn = "deposit" /\ k.from = Owner /\ k.amount = a
    BY <1>1 DEF Wrap
  <2>2. Background(k)
    BY <2>1 DEF Background
  <2>3. QED
    BY <2>1, <2>2, BackgroundEffect
<1>2. ASSUME k = Payment(v)
      PROVE  weth' = weth /\ eth'[v] >= Grant
  <2>1. k.fn = "sendETH" /\ k.to = v /\ k.amount = Grant
    BY <1>2 DEF Payment, SendETH
  <2>2. eth'[v] = eth[v] + Grant
    BY <2>1, EffectOnVault
  <2>3. weth' = weth
    BY <2>1 DEF Execute, ExecuteSendETH, ExecuteWETH9, ExecuteCreateVault
  <2>4. QED
    BY <1>0, <2>2, <2>3
<1>3. ASSUME k = Transfer(v)
      PROVE  eth'[v] = eth[v]
  <2>1. k.fn = "transferFrom"
    BY <1>3 DEF Transfer, TransferFrom
  <2>2. eth' = eth
    BY <2>1 DEF Execute, ExecuteSendETH, ExecuteWETH9, ExecuteCreateVault
  <2>3. QED
    BY <2>2
<1>4. QED
  BY <1>1, <1>2, <1>3

LEMMA OrderBegins ==
  ASSUME WorkInv, NEW p \in Processes, Begins(p, "create-vault", Owner)
  PROVE  ToPay(p, Computed(p))'
<1>1. PICK s, n, todo : s = run'[p] /\ n = drawn' /\ todo = TaskSteps("create-vault", Owner, n)
  OBVIOUS
<1>2. s = [task |-> "create-vault", user |-> Owner, salt |-> n, waiting |-> FALSE, todo |-> todo]
  BY <1>1 DEF Begins, WorkInv
<1>3. s.user = Owner /\ s.salt = n /\ s.waiting = FALSE /\ s.todo = todo
  BY <1>2
<1>4. todo = Compute(s) \o Look(s)
  BY <1>1, <1>3 DEF TaskSteps, CreateVaultTask, Compute, Look
<1>5. QED
  BY <1>1, <1>3, <1>4 DEF ToPay

LEMMA OrderAsks ==
  ASSUME RegistryInv, MoneyInv, WorkInv, RunInv, weth9 = Weth,
         NEW p \in Processes, Asks(p), OwnerRun(p), NEW v, v = Computed(p), Follows(p, v)
  PROVE  Follows(p, v)'
<1>1. /\ Ready(p) /\ NextStep(p).op = "read" /\ UNCHANGED <<eth, weth, vaultMap>>
      /\ DOMAIN run[p] = RunFields /\ NextStep(p) = Head(run[p].todo) /\ ~run[p].waiting
      /\ run[p].todo # <<>>
  BY DEF Asks, chainVars, RunInv, Named, NextStep, Ready
<1>2. PICK r, s : r = run[p] /\ s = run'[p]
  OBVIOUS
<1>3. PICK todo : todo = Answered(p) \o Tail(r.todo)
  OBVIOUS
<1>4. s = [r EXCEPT !.todo = todo]
  BY <1>2, <1>3 DEF Asks, WorkInv
<1>5. SameRun(s, r) /\ s.todo = todo /\ ~s.waiting
  <2>1. SameRun(s, r) /\ s.todo = todo /\ s.waiting = r.waiting
    BY <1>1, <1>2, <1>4 DEF SameRun, RunFields
  <2>2. QED
    BY <1>1, <1>2, <2>1
<1>6. CASE r.todo = Compute(r) \o Look(r)
  <2>1. /\ NextStep(p) = [op |-> "read", what |-> "computed", of |-> [user |-> Owner, salt |-> r.salt],
                          then |-> [then |-> "grant"]]
        /\ Tail(r.todo) = Look(r)
    BY <1>1, <1>2, <1>6, Plans
  <2>2. VaultAt(Owner, r.salt) = v
    BY <1>2 DEF VaultAt, Computed
  <2>3. Answered(p) = After([then |-> "grant"], v)
    BY <2>1, <2>2 DEF Answered, Value
  <2>4. todo = Check \o Payments(r, v)
    BY <1>3, <2>1, <2>3, Continued
  <2>5. ToPay(p, v)'
    BY <1>2, <1>5, <2>4, SamePlans DEF ToPay
  <2>6. QED
    BY <2>5 DEF Follows
<1>7. CASE r.todo = Check \o Payments(r, v)
  <2>1. /\ NextStep(p) = [op |-> "read", what |-> "weth", of |-> Owner,
                          then |-> [then |-> "wrap", amount |-> Grant, sender |-> Owner]]
        /\ Tail(r.todo) = Payments(r, v)
    <3>1. /\ Head(Check \o Payments(r, v)) =
               [op |-> "read", what |-> "weth", of |-> Owner,
                then |-> [then |-> "wrap", amount |-> Grant, sender |-> Owner]]
          /\ Tail(Check \o Payments(r, v)) = Payments(r, v)
      BY Plans
    <3>2. QED
      BY <1>1, <1>2, <1>7, <3>1
  <2>2. Answered(p) = After([then |-> "wrap", amount |-> Grant, sender |-> Owner], weth[Owner])
    BY <2>1 DEF Answered, Value
  <2>3. todo = IF weth[Owner] < Grant THEN SendOnly(Wrap(Owner, Grant - weth[Owner])) \o Payments(r, v)
               ELSE Payments(r, v)
    BY <1>3, <2>1, <2>2, Continued
  <2>4. weth[Owner] \in Nat /\ Grant \in Nat
    BY AddressTypes, FundingAssumption DEF MoneyInv
  <2>5. CASE weth[Owner] < Grant
    <3>1. PICK a : a = Grant - weth[Owner] /\ a \in 0..Grant /\ Lacks(a)'
      <4>1. Grant - weth[Owner] \in 0..Grant /\ weth[Owner] + (Grant - weth[Owner]) >= Grant
        BY <2>4, <2>5
      <4>2. PICK b : b = Grant - weth[Owner]
        OBVIOUS
      <4>3. b \in 0..Grant /\ weth'[Owner] + b >= Grant
        BY <1>1, <4>1, <4>2
      <4>4. Lacks(b)'
        BY <4>3 DEF Lacks
      <4>5. QED
        BY <4>2, <4>3, <4>4
    <3>2. todo = SendOnly(Wrap(Owner, a)) \o Payments(r, v)
      BY <2>3, <2>5, <3>1
    <3>3. ToPay(p, v)'
      BY <1>2, <1>5, <3>1, <3>2, SamePlans DEF ToPay
    <3>4. QED
      BY <3>3 DEF Follows
  <2>6. CASE ~(weth[Owner] < Grant)
    <3>1. WethComing' /\ todo = Payments(r, v)
      BY <1>1, <2>3, <2>4, <2>6 DEF WethComing
    <3>2. ToPay(p, v)'
      BY <1>2, <1>5, <3>1, SamePlans DEF ToPay
    <3>3. QED
      BY <3>2 DEF Follows
  <2>7. QED
    BY <2>5, <2>6
<1>8. CASE r.todo = Look(r) /\ eth[v] >= Grant
  <2>1. /\ NextStep(p) = [op |-> "read", what |-> "vault", of |-> r.user,
                          then |-> [then |-> "create", user |-> r.user, salt |-> r.salt]]
        /\ Tail(r.todo) = <<>>
    BY <1>1, <1>2, <1>8, Plans
  <2>2. Answered(p) = After([then |-> "create", user |-> r.user, salt |-> r.salt], vaultMap[r.user])
    BY <2>1 DEF Answered, Value
  <2>3. todo = IF vaultMap[r.user] = Zero THEN Send(Creation(r)) ELSE <<>>
    BY <1>3, <2>1, <2>2, Continued
  <2>4. r.user = Owner
    BY <1>2 DEF OwnerRun
  <2>5. ToCreate(p, v)' \/ s.todo = <<>>
    BY <1>1, <1>2, <1>5, <1>8, <2>3, <2>4, SamePlans DEF ToCreate
  <2>6. QED
    BY <1>2, <2>5 DEF Follows
<1>9. /\ r.todo # Payments(r, v) /\ \A a : r.todo # SendOnly(Wrap(Owner, a)) \o Payments(r, v)
      /\ r.todo # Transfers(r, v) /\ r.todo # Send(Creation(r)) /\ r.todo # <<>>
  <2>1. /\ Head(Payments(r, v)).op = "send" /\ Head(Transfers(r, v)).op = "send"
        /\ Head(Send(Creation(r))).op = "send"
    BY PlanOps
  <2>2. \A a : Head(SendOnly(Wrap(Owner, a)) \o Payments(r, v)).op = "send"
    BY WrapPlan
  <2>3. QED
    BY <1>1, <1>2, <2>1, <2>2
<1>10. QED
  BY <1>2, <1>6, <1>7, <1>8, <1>9 DEF Follows, ToPay, ToTransfer, ToLook, ToCreate

\* The stages of a run that is about to send.
LEMMA SendStages ==
  ASSUME RunInv, NEW p \in Processes, NEW v, Follows(p, v), Ready(p), NextStep(p).op = "send",
         NEW r, r = run[p]
  PROVE  LET k == NextStep(p).call
             todo == Tail(r.todo)
             await == NextStep(p).await
         IN \/ todo = Payments(r, v) /\ await = FALSE /\ \E a \in 0..Grant : k = Wrap(Owner, a) /\ Lacks(a)
            \/ k = Payment(v) /\ todo = Transfers(r, v) /\ await = TRUE /\ WethComing
            \/ /\ k = Transfer(v) /\ todo = Look(r) /\ await = TRUE
               /\ eth[v] >= Grant /\ weth[Owner] >= Grant
            \/ k = Creation(r) /\ todo = <<>> /\ await = TRUE /\ eth[v] >= Grant /\ vaultMap[Owner] = Zero
<1>1. PICK x : x = NextStep(p) /\ x = Head(r.todo) /\ x.op = "send"
  BY DEF NextStep
<1>2. PICK k, await, todo : k = x.call /\ await = x.await /\ todo = Tail(r.todo)
  OBVIOUS
<1>3. r.todo # <<>> /\ ~r.waiting
  BY DEF Ready
<1>4. SUFFICES \/ todo = Payments(r, v) /\ await = FALSE /\ \E a \in 0..Grant : k = Wrap(Owner, a) /\ Lacks(a)
               \/ k = Payment(v) /\ todo = Transfers(r, v) /\ await = TRUE /\ WethComing
               \/ /\ k = Transfer(v) /\ todo = Look(r) /\ await = TRUE
                  /\ eth[v] >= Grant /\ weth[Owner] >= Grant
               \/ k = Creation(r) /\ todo = <<>> /\ await = TRUE /\ eth[v] >= Grant /\ vaultMap[Owner] = Zero
  BY <1>1, <1>2
<1>5. CASE \E a \in 0..Grant : r.todo = SendOnly(Wrap(Owner, a)) \o Payments(r, v) /\ Lacks(a)
  <2>1. PICK a \in 0..Grant : r.todo = SendOnly(Wrap(Owner, a)) \o Payments(r, v) /\ Lacks(a)
    BY <1>5
  <2>2. k = Wrap(Owner, a) /\ todo = Payments(r, v) /\ await = FALSE
    <3>1. /\ Head(SendOnly(Wrap(Owner, a)) \o Payments(r, v)).call = Wrap(Owner, a)
          /\ Head(SendOnly(Wrap(Owner, a)) \o Payments(r, v)).await = FALSE
          /\ Tail(SendOnly(Wrap(Owner, a)) \o Payments(r, v)) = Payments(r, v)
      BY WrapPlan
    <3>2. QED
      BY <1>1, <1>2, <2>1, <3>1
  <2>3. QED
    BY <2>1, <2>2
<1>6. CASE r.todo = Payments(r, v) /\ WethComing
  <2>1. k = Payment(v) /\ todo = Transfers(r, v) /\ await = TRUE
    <3>1. /\ Head(Payments(r, v)).call = Payment(v) /\ Tail(Payments(r, v)) = Transfers(r, v)
          /\ Head(Payments(r, v)).await = TRUE
      BY PlanOps
    <3>2. QED
      BY <1>1, <1>2, <1>6, <3>1
  <2>2. QED
    BY <1>6, <2>1
<1>7. CASE r.todo = Transfers(r, v) /\ eth[v] >= Grant /\ weth[Owner] >= Grant
  <2>1. k = Transfer(v) /\ todo = Look(r) /\ await = TRUE
    <3>1. /\ Head(Transfers(r, v)).call = Transfer(v) /\ Tail(Transfers(r, v)) = Look(r)
          /\ Head(Transfers(r, v)).await = TRUE
      BY PlanOps
    <3>2. QED
      BY <1>1, <1>2, <1>7, <3>1
  <2>2. QED
    BY <1>7, <2>1
<1>8. CASE r.todo = Send(Creation(r)) /\ eth[v] >= Grant /\ vaultMap[Owner] = Zero
  <2>1. k = Creation(r) /\ todo = <<>> /\ await = TRUE
    <3>1. /\ Head(Send(Creation(r))).call = Creation(r) /\ Tail(Send(Creation(r))) = <<>>
          /\ Head(Send(Creation(r))).await = TRUE
      BY PlanOps
    <3>2. QED
      BY <1>1, <1>2, <1>8, <3>1
  <2>2. QED
    BY <1>8, <2>1
<1>9. r.todo # Compute(r) \o Look(r) /\ r.todo # Look(r) /\ r.todo # Check \o Payments(r, v)
  <2>1. /\ Head(Compute(r) \o Look(r)).op = "read" /\ Head(Look(r)).op = "read"
        /\ Head(Check \o Payments(r, v)).op = "read"
    BY PlanOps
  <2>2. QED
    BY <1>1, <2>1
<1>10. QED
  BY <1>3, <1>5, <1>6, <1>7, <1>8, <1>9 DEF Follows, ToPay, ToTransfer, ToLook, ToCreate

\* On a node that mines at once, nothing is pending.
LEMMA OrderSends ==
  ASSUME RegistryInv, MoneyInv, WorkInv, WaitInv, RunInv, TodoInv,
         NEW p \in Processes, Sends(p), NEW v \in VaultAddresses, Follows(p, v)
  PROVE  Follows(p, v)'
<1>1. /\ Ready(p) /\ NextStep(p).op = "send" /\ DOMAIN run[p] = RunFields /\ ~run[p].waiting
      /\ setting.mining = "auto"
  BY DEF Sends, RunInv, Named, Ready
<1>2. PICK r, s, k : r = run[p] /\ s = run'[p] /\ k = NextStep(p).call
  OBVIOUS
<1>3. PICK todo : todo = Tail(r.todo)
  OBVIOUS
<1>4. s = [r EXCEPT !.todo = todo]
  BY <1>2, <1>3 DEF Sends, WorkInv
<1>5. SameRun(s, r) /\ s.todo = todo /\ ~s.waiting
  <2>1. SameRun(s, r) /\ s.todo = todo /\ s.waiting = r.waiting
    BY <1>1, <1>2, <1>4 DEF SameRun, RunFields
  <2>2. QED
    BY <1>1, <1>2, <2>1
<1>6. SafeCall(k) /\ Execute(k)
  BY <1>1, <1>2, LiveSteps DEF Sends, SafeStep
<1>7. WethComing => weth[Owner] >= Grant
  <2>1. 1..Len(pool) = {}
    BY <1>1 DEF WaitInv
  <2>2. QED
    BY <2>1 DEF WethComing
<1>8. CASE todo = Payments(r, v) /\ \E a \in 0..Grant : k = Wrap(Owner, a) /\ Lacks(a)
  <2>1. WethComing'
    BY <1>6, <1>8, OrderedCalls DEF WethComing, Lacks
  <2>2. ToPay(p, v)'
    BY <1>2, <1>5, <1>8, <2>1, SamePlans DEF ToPay
  <2>3. QED
    BY <2>2 DEF Follows
<1>9. CASE k = Payment(v) /\ todo = Transfers(r, v) /\ WethComing
  <2>1. weth'[Owner] >= Grant /\ eth'[v] >= Grant
    BY <1>6, <1>7, <1>9, OrderedCalls
  <2>2. ToTransfer(p, v)'
    BY <1>2, <1>5, <1>9, <2>1, SamePlans DEF ToTransfer
  <2>3. QED
    BY <2>2 DEF Follows
<1>10. CASE k = Transfer(v) /\ todo = Look(r) /\ eth[v] >= Grant
  <2>1. eth'[v] >= Grant
    BY <1>6, <1>10, OrderedCalls
  <2>2. ToLook(p, v)'
    BY <1>2, <1>5, <1>10, <2>1, SamePlans DEF ToLook
  <2>3. QED
    BY <2>2 DEF Follows
<1>11. CASE todo = <<>>
  BY <1>2, <1>5, <1>11 DEF Follows
<1>12. \/ todo = Payments(r, v) /\ \E a \in 0..Grant : k = Wrap(Owner, a) /\ Lacks(a)
       \/ k = Payment(v) /\ todo = Transfers(r, v) /\ WethComing
       \/ k = Transfer(v) /\ todo = Look(r) /\ eth[v] >= Grant
       \/ todo = <<>>
  BY <1>1, <1>2, <1>3, SendStages
<1>13. QED
  BY <1>8, <1>9, <1>10, <1>11, <1>12

LEMMA OrderEmits ==
  ASSUME WorkInv, RunInv, NEW p \in Processes, Emits(p), NEW v, Follows(p, v)
  PROVE  Follows(p, v)'
<1>1. /\ Ready(p) /\ NextStep(p).op = "send" /\ DOMAIN run[p] = RunFields /\ ~run[p].waiting
      /\ UNCHANGED <<eth, weth, vaultMap>> /\ pool' = Append(pool, Tx(p)) /\ SafePool(pool)
  BY DEF Emits, chainVars, RunInv, Named, Ready, WorkInv
<1>2. PICK r, s, k, await : r = run[p] /\ s = run'[p] /\ k = NextStep(p).call /\ await = NextStep(p).await
  OBVIOUS
<1>3. PICK todo : todo = Tail(r.todo)
  OBVIOUS
<1>4. s = [r EXCEPT !.todo = todo, !.waiting = await]
  BY <1>2, <1>3 DEF Emits, WorkInv
<1>5. SameRun(s, r) /\ s.todo = todo /\ s.waiting = await
  BY <1>1, <1>2, <1>4 DEF SameRun, RunFields
<1>6. PICK n, x : n = Len(pool') /\ x = Tx(p) /\ x.by = p /\ x.call = k
  <2>1. Tx(p).by = p /\ Tx(p).call = k
    BY <1>2 DEF Tx
  <2>2. QED
    BY <2>1
<1>7. /\ n = Len(pool) + 1 /\ Len(pool) \in Nat /\ pool'[n] = x /\ 1..Len(pool') = 1..Len(pool) \cup {n}
      /\ \A i \in 1..Len(pool) : pool'[i] = pool[i]
  BY <1>1, <1>6, PoolLonger
<1>8. n \in 1..Len(pool') /\ n + 1..Len(pool') = {}
  BY <1>6, <1>7
<1>9. await = TRUE => Awaits(p, k)'
  <2>1. await = TRUE => AwaitsAt(p, n)'
    BY <1>2, <1>5, <1>6, <1>7, <1>8 DEF AwaitsAt
  <2>2. QED
    BY <1>6, <1>7, <1>8, <2>1 DEF Awaits
<1>10. WethComing => WethComing'
  BY <1>1, <1>7 DEF WethComing, Lacks
<1>11. CASE todo = Payments(r, v) /\ await = FALSE /\ \E a \in 0..Grant : k = Wrap(Owner, a) /\ Lacks(a)
  <2>1. PICK a \in 0..Grant : k = Wrap(Owner, a) /\ Lacks(a)
    BY <1>11
  <2>2. pool'[n].call = Wrap(Owner, a) /\ Lacks(a)'
    BY <1>1, <1>6, <1>7, <2>1 DEF Lacks
  <2>3. WethComing'
    BY <1>8, <2>2 DEF WethComing
  <2>4. ToPay(p, v)'
    BY <1>2, <1>5, <1>11, <2>3, SamePlans DEF ToPay
  <2>5. QED
    BY <2>4 DEF Follows
<1>12. CASE k = Payment(v) /\ todo = Transfers(r, v) /\ await = TRUE /\ WethComing
  <2>1. ToTransfer(p, v)'
    BY <1>2, <1>5, <1>9, <1>10, <1>12, SamePlans DEF ToTransfer
  <2>2. QED
    BY <2>1 DEF Follows
<1>13. CASE k = Transfer(v) /\ todo = Look(r) /\ await = TRUE /\ eth[v] >= Grant
  <2>1. ToLook(p, v)'
    BY <1>1, <1>2, <1>5, <1>9, <1>13, SamePlans DEF ToLook
  <2>2. QED
    BY <2>1 DEF Follows
<1>14. CASE todo = <<>>
  BY <1>2, <1>5, <1>14 DEF Follows
<1>15. \/ todo = Payments(r, v) /\ await = FALSE /\ \E a \in 0..Grant : k = Wrap(Owner, a) /\ Lacks(a)
       \/ k = Payment(v) /\ todo = Transfers(r, v) /\ await = TRUE /\ WethComing
       \/ k = Transfer(v) /\ todo = Look(r) /\ await = TRUE /\ eth[v] >= Grant
       \/ todo = <<>>
  BY <1>1, <1>2, <1>3, SendStages
<1>16. QED
  BY <1>11, <1>12, <1>13, <1>14, <1>15

\* The transaction that was waited for is mined: it was the last one.
LEMMA OrderAnswered ==
  ASSUME RegistryInv, MoneyInv, WorkInv, RunInv, AloneInv, NEW p \in Processes, Alone(p),
         Mines(p, TRUE), AwaitsAt(p, 1), NEW v \in VaultAddresses, Follows(p, v)
  PROVE  Follows(p, v)'
<1>1. /\ pool # <<>> /\ pool' = Tail(pool) /\ Head(pool).by = p /\ Answer(p, TRUE)
      /\ Execute(Head(pool).call) /\ SafePool(pool) /\ DOMAIN run = Processes
      /\ DOMAIN run[p] = RunFields /\ run[p].waiting = TRUE
  BY DEF Mines, WorkInv, RunInv, Named, AwaitsAt, SafeRun
<1>2. PICK k, r, s : k = pool[1].call /\ r = run[p] /\ s = run'[p]
  OBVIOUS
<1>3. Head(pool) = pool[1] /\ Len(pool) \in Nat /\ Len(pool) >= 1 /\ SafeCall(k) /\ Execute(k)
  BY <1>1, <1>2, PoolShorter DEF SafePool
<1>4. ~\E i \in 2..Len(pool) : pool[i].by = p
  BY <1>3 DEF AwaitsAt
<1>5. SameRun(s, r) /\ s.todo = r.todo /\ ~s.waiting
  <2>1. s = [r EXCEPT !.waiting = FALSE]
    BY <1>1, <1>2, <1>4 DEF Answer
  <2>2. QED
    BY <1>1, <1>2, <2>1 DEF SameRun, RunFields
<1>6. ASSUME NEW i \in 1..Len(pool)
      PROVE  i = 1
  <2>1. pool[i].by = p
    BY DEF AloneInv
  <2>2. QED
    BY <1>3, <1>4, <2>1
<1>7. \A c : Awaits(p, c) => c = k
  BY <1>2, <1>6 DEF Awaits
<1>8. CASE ToTransfer(p, v)
  <2>1. r.todo = Transfers(r, v) /\ k = Payment(v) /\ WethComing
    BY <1>1, <1>2, <1>7, <1>8 DEF ToTransfer
  <2>2. \A a : k # Wrap(Owner, a)
    BY <2>1 DEF Payment, SendETH, Wrap
  <2>3. weth[Owner] >= Grant
    BY <1>2, <1>6, <2>1, <2>2 DEF WethComing
  <2>4. weth'[Owner] >= Grant /\ eth'[v] >= Grant
    BY <1>3, <2>1, <2>3, OrderedCalls
  <2>5. ToTransfer(p, v)'
    BY <1>2, <1>5, <2>1, <2>4, SamePlans DEF ToTransfer
  <2>6. QED
    BY <2>5 DEF Follows
<1>9. CASE ToLook(p, v)
  <2>1. r.todo = Look(r) /\ k = Transfer(v) /\ eth[v] >= Grant
    BY <1>1, <1>2, <1>7, <1>9 DEF ToLook
  <2>2. eth'[v] >= Grant
    BY <1>3, <2>1, OrderedCalls
  <2>3. ToLook(p, v)'
    BY <1>2, <1>5, <2>1, <2>2, SamePlans DEF ToLook
  <2>4. QED
    BY <2>3 DEF Follows
<1>10. CASE run[p].todo = <<>>
  BY <1>2, <1>5, <1>10 DEF Follows
<1>11. ~ToPay(p, v) /\ ~ToCreate(p, v)
  BY <1>1 DEF ToPay, ToCreate
<1>12. QED
  BY <1>8, <1>9, <1>10, <1>11 DEF Follows

\* Another one is mined: it takes no WETH from the owner, and the one that wraps
\* what he lacks succeeds, for he can pay it.
LEMMA OrderMined ==
  ASSUME RegistryInv, MoneyInv, WorkInv, RunInv, AloneInv, [Next]_vars, eth[Owner] >= Grant,
         NEW p \in Processes, Alone(p), NEW succeeds \in BOOLEAN, Mines(p, succeeds), ~AwaitsAt(p, 1),
         run'[p] = run[p], NEW v \in VaultAddresses, Follows(p, v)
  PROVE  Follows(p, v)'
<1>1. /\ pool # <<>> /\ pool' = Tail(pool) /\ SafePool(pool)
      /\ IF succeeds THEN Execute(Head(pool).call) ELSE ~Succeeds(Head(pool).call) /\ UNCHANGED chainVars
  BY DEF Mines, WorkInv
<1>2. PICK k : k = pool[1].call
  OBVIOUS
<1>3. /\ Head(pool) = pool[1] /\ 1 \in 1..Len(pool) /\ SafeCall(k) /\ Len(pool) \in Nat
      /\ \A i \in 2..Len(pool) : i - 1 \in 1..Len(pool') /\ pool'[i - 1] = pool[i]
  BY <1>1, <1>2, PoolShorter DEF SafePool
<1>4. Background(k)
  BY <1>2, <1>3 DEF AloneInv
<1>5. /\ weth[Owner] \in Nat /\ eth[v] \in Nat /\ weth'[Owner] \in Nat /\ eth'[v] \in Nat
      /\ Grant \in Nat /\ eth[Owner] \in Nat
  BY StepKeeps, AddressTypes, FundingAssumption DEF MoneyInv, Addresses
<1>6. weth'[Owner] >= weth[Owner] /\ eth'[v] >= eth[v] /\ UNCHANGED vaultMap
  <2>1. CASE succeeds
    BY <1>1, <1>2, <1>3, <1>4, <2>1, BackgroundEffect
  <2>2. CASE ~succeeds
    BY <1>1, <1>5, <2>2 DEF chainVars
  <2>3. QED
    BY <2>1, <2>2
<1>7. \A a \in 0..Grant : Lacks(a) => Lacks(a)'
  BY <1>5, <1>6 DEF Lacks
<1>8. ASSUME NEW a \in 0..Grant, k = Wrap(Owner, a), Lacks(a)
      PROVE  weth'[Owner] >= Grant
  <2>1. k.fn = "deposit" /\ k.from = Owner /\ k.amount = a
    BY <1>8 DEF Wrap
  <2>2. eth[Owner] >= a
    BY <1>5
  <2>3. Succeeds(k)
    BY <2>1, <2>2 DEF Succeeds
  <2>4. Execute(k)
    BY <1>1, <1>2, <1>3, <2>3
  <2>5. weth'[Owner] = weth[Owner] + a
    BY <1>3, <1>4, <2>1, <2>4, BackgroundEffect
  <2>6. QED
    BY <1>8, <2>5 DEF Lacks
<1>9. WethComing => WethComing'
  <2>1. CASE weth[Owner] >= Grant
    BY <1>5, <1>6, <2>1 DEF WethComing
  <2>2. ASSUME NEW i \in 1..Len(pool), NEW a \in 0..Grant, pool[i].call = Wrap(Owner, a), Lacks(a)
        PROVE  WethComing'
    <3>1. CASE i = 1
      <4>1. weth'[Owner] >= Grant
        BY <1>2, <1>8, <2>2, <3>1
      <4>2. QED
        BY <4>1 DEF WethComing
    <3>2. CASE i # 1
      <4>1. i \in 2..Len(pool)
        BY <1>3, <3>2
      <4>2. PICK j \in 1..Len(pool') : pool'[j] = pool[i]
        BY <1>3, <4>1
      <4>3. pool'[j].call = Wrap(Owner, a) /\ Lacks(a)'
        BY <1>7, <2>2, <4>2
      <4>4. QED
        BY <4>3 DEF WethComing
    <3>3. QED
      BY <3>1, <3>2
  <2>3. QED
    BY <2>1, <2>2 DEF WethComing
<1>10. \A c : Awaits(p, c) => Awaits(p, c)'
  BY AwaitsStays
<1>11. (weth[Owner] >= Grant => weth'[Owner] >= Grant) /\ (eth[v] >= Grant => eth'[v] >= Grant)
  BY <1>5, <1>6
<1>12. PICK r : r = run[p] /\ r = run'[p]
  OBVIOUS
<1>13. ToPay(p, v) => ToPay(p, v)'
  BY <1>7, <1>9, <1>12 DEF ToPay
<1>14. ToTransfer(p, v) => ToTransfer(p, v)'
  BY <1>9, <1>10, <1>11, <1>12 DEF ToTransfer
<1>15. ToLook(p, v) => ToLook(p, v)'
  BY <1>10, <1>11, <1>12 DEF ToLook
<1>16. ToCreate(p, v) => ToCreate(p, v)'
  BY <1>6, <1>11, <1>12 DEF ToCreate
<1>17. QED
  BY <1>12, <1>13, <1>14, <1>15, <1>16 DEF Follows

LEMMA NextOrder ==
  ASSUME RegistryInv, MoneyInv, WorkInv, WaitInv, RunInv, TodoInv, AloneInv, OrderInv,
         eth[Owner] >= Grant, [Next]_vars
  PROVE  OrderInv'
<1>0. DOMAIN run = Processes /\ NoRun.task # "create-vault" /\ \A q \in Processes : DOMAIN run[q] = RunFields
  BY FundingAssumption DEF WorkInv, RunInv, Named, NoRun, TaskNames
<1>1. SUFFICES ASSUME NEW p \in Processes, Alone(p)', OwnerRun(p)'
               PROVE  Follows(p, Computed(p))'
  BY DEF OrderInv
<1>2. /\ Alone(p) /\ ~Changes
      /\ \A q \in Processes : run[q] # NoRun => q = p
      /\ \A q \in Processes : \A task, user : Begins(q, task, user) => q = p
  BY <1>1, WasAlone
<1>3. PICK v : v = Computed(p)
  OBVIOUS
\* The run goes on: it is the same address.
<1>4. ASSUME SameRun(run'[p], run[p])
      PROVE  /\ OwnerRun(p) /\ Follows(p, v) /\ v \in VaultAddresses
             /\ Follows(p, v)' => Follows(p, Computed(p))'
  <2>1. OwnerRun(p)
    BY <1>1, <1>4 DEF OwnerRun, SameRun
  <2>2. Follows(p, v)
    BY <1>2, <1>3, <2>1 DEF OrderInv
  <2>3. v \in VaultAddresses
    <3>1. run[p] # NoRun
      BY <2>1, <1>0 DEF OwnerRun
    <3>2. run[p].salt \in 1..MaxSalts
      BY <3>1, SaltNumbers DEF RunInv, Named
    <3>3. run[p].salt \in 0..MaxSalts
      BY <3>2, FundingAssumption
    <3>4. QED
      BY <1>3, <3>3, FundingAssumption DEF Computed, VaultAddresses
  <2>4. v = Computed(p)'
    BY <1>3, <1>4 DEF Computed, SameRun
  <2>5. Follows(p, v)' => Follows(p, Computed(p))'
    BY <2>4
  <2>6. QED
    BY <2>1, <2>2, <2>3, <2>5
<1>5. CASE UNCHANGED vaultVars
  <2>1. UNCHANGED <<eth, weth, vaultMap, pool, run>>
    BY <1>5 DEF vaultVars, chainVars
  <2>2. SameRun(run'[p], run[p])
    BY <1>0, <2>1 DEF SameRun
  <2>3. Follows(p, v) => Follows(p, v)'
    BY <2>1 DEF Follows, ToPay, ToTransfer, ToLook, ToCreate, WethComing, Lacks, Awaits, AwaitsAt
  <2>4. QED
    BY <1>4, <2>2, <2>3
<1>6. ASSUME NEW q \in Processes, NEW task \in TaskNames, NEW user \in Users, Begins(q, task, user)
      PROVE  Follows(p, Computed(p))'
  <2>1. PICK r : r = [task |-> task, user |-> user, salt |-> drawn', waiting |-> FALSE,
                      todo |-> TaskSteps(task, user, drawn')]
    OBVIOUS
  <2>2. q = p /\ run' = [run EXCEPT ![q] = r] /\ r.task = task /\ r.user = user
    BY <1>2, <1>6, <2>1 DEF Begins
  <2>3. task = "create-vault" /\ user = Owner
    BY <1>0, <1>1, <2>2 DEF OwnerRun
  <2>4. QED
    BY <1>6, <2>2, <2>3, OrderBegins DEF Follows
<1>7. ASSUME NEW q \in Processes, Asks(q) \/ Sends(q) \/ Emits(q)
      PROVE  Follows(p, Computed(p))'
  <2>1. q = p
    BY <1>2, <1>7, ReadyLive DEF Asks, Sends, Emits
  <2>2. \E r : SameRun(r, run[p]) /\ run' = [run EXCEPT ![p] = r]
    BY <1>0, <1>7, <2>1, ChangedFields DEF Asks, Sends, Emits
  <2>3. SameRun(run'[p], run[p])
    BY <1>0, <2>2
  <2>4. OwnerRun(p) /\ Follows(p, v) /\ v \in VaultAddresses /\ weth9 = Weth
    BY <1>2, <1>4, <2>3 DEF Alone
  <2>5. CASE Asks(p)
    BY <1>3, <1>4, <2>3, <2>4, <2>5, OrderAsks
  <2>6. CASE Sends(p)
    BY <1>4, <2>3, <2>4, <2>6, OrderSends
  <2>7. CASE Emits(p)
    BY <1>4, <2>3, <2>4, <2>7, OrderEmits
  <2>8. QED
    BY <1>7, <2>1, <2>5, <2>6, <2>7
<1>8. ASSUME NEW q \in Processes, Leaves(q) \/ Ends(q)
      PROVE  FALSE
  <2>1. q = p /\ run' = [run EXCEPT ![q] = NoRun]
    BY <1>2, <1>8 DEF Leaves, Ends
  <2>2. QED
    BY <1>0, <1>1, <2>1 DEF OwnerRun
<1>9. ASSUME NEW q, NEW succeeds \in BOOLEAN, Mines(q, succeeds)
      PROVE  Follows(p, Computed(p))'
  <2>1. pool # <<>> /\ pool' = Tail(pool) /\ q = Head(pool).by /\ Answer(q, succeeds)
    BY <1>9 DEF Mines
  <2>2. q = p /\ pool[1].by = p
    BY <1>2, <2>1, PoolShorter DEF AloneInv, WorkInv
  <2>3. CASE AwaitsAt(p, 1)
    <3>1. ~\E i \in 2..Len(pool) : pool[i].by = p
      BY <2>3 DEF AwaitsAt
    <3>2. run' = [run EXCEPT ![p] = IF succeeds THEN [@ EXCEPT !.waiting = FALSE] ELSE NoRun]
      BY <2>1, <2>2, <2>3, <3>1 DEF Answer, AwaitsAt
    <3>3. PICK r : r = [run[p] EXCEPT !.waiting = FALSE]
      OBVIOUS
    <3>4. succeeds = TRUE /\ run'[p] = r
      <4>1. run'[p] = IF succeeds THEN [run[p] EXCEPT !.waiting = FALSE] ELSE NoRun
        BY <1>0, <3>2
      <4>2. succeeds
        BY <1>0, <1>1, <4>1 DEF OwnerRun
      <4>3. QED
        BY <3>3, <4>1, <4>2
    <3>5. SameRun(run'[p], run[p])
      BY <1>0, <3>3, <3>4 DEF SameRun, RunFields
    <3>6. Follows(p, v) /\ v \in VaultAddresses
      BY <1>4, <3>5
    <3>7. Follows(p, v)'
      BY <1>2, <1>9, <2>2, <2>3, <3>4, <3>6, OrderAnswered
    <3>8. QED
      BY <1>4, <3>5, <3>7
  <2>4. CASE ~AwaitsAt(p, 1)
    <3>1. UNCHANGED run
      BY <2>1, <2>2, <2>4 DEF Answer, AwaitsAt
    <3>2. SameRun(run'[p], run[p])
      BY <1>0, <3>1 DEF SameRun
    <3>3. Follows(p, v) /\ v \in VaultAddresses
      BY <1>4, <3>2
    <3>4. Follows(p, v)'
      BY <1>2, <1>9, <2>2, <2>4, <3>1, <3>3, OrderMined
    <3>5. QED
      BY <1>4, <3>2, <3>4
  <2>5. QED
    BY <2>3, <2>4
<1>10. QED
  BY <1>2, <1>5, <1>6, <1>7, <1>8, <1>9, StepForms

\* Whoever runs alone, and has not died: while the owner has the ETH of a grant
\* and the grant pays the refund, nothing in dev:create-vault fails for him but,
\* as long as the protocol has no treasury, createVault itself, on a node that
\* mines at once or later (fund of task-helpers/vault.ts).
OwnerCanGrant == eth[Owner] >= Grant
THEOREM FundingInOrder ==
  ASSUME Refund <= Grant
  PROVE  Spec /\ []OwnerCanGrant => []FundingOrdered
<1>1. Init => WaitInv /\ AloneInv /\ OrderInv
  <2>1. SUFFICES ASSUME Init
                 PROVE  AloneInv /\ OrderInv
    BY InitWaits
  <2>2. \A p \in Processes : run[p] = NoRun
    BY <2>1 DEF Init
  <2>3. NoRun.task # "create-vault"
    BY FundingAssumption DEF NoRun, TaskNames
  <2>4. OrderInv
    BY <2>2, <2>3 DEF OrderInv, OwnerRun
  <2>5. crashes = 0 /\ 1..Len(pool) = {}
    BY <2>1 DEF Init
  <2>6. QED
    BY <2>4, <2>5 DEF AloneInv
<1>2. /\ RegistryInv /\ MoneyInv /\ WorkInv /\ RunInv /\ TodoInv /\ PoolInv
      /\ WaitInv /\ AloneInv /\ OrderInv /\ OwnerCanGrant /\ [Next]_vars
      => WaitInv' /\ AloneInv' /\ OrderInv'
  BY StepWaits, NextAlone, NextOrder DEF OwnerCanGrant
<1>3. RegistryInv /\ MoneyInv /\ WorkInv /\ RunInv /\ OrderInv /\ OwnerCanGrant => FundingOrdered
  <2>1. SUFFICES ASSUME RegistryInv, MoneyInv, WorkInv, RunInv, OrderInv, OwnerCanGrant,
                        crashes = 0, weth9 = Weth, NEW p \in Processes, setting.processes = {p},
                        run[p].task = "create-vault", run[p].user = Owner, Fails(p)
                 PROVE  treasury = Zero /\ NextStep(p).call.fn = "createVault"
    BY DEF FundingOrdered
  <2>2. PICK r, v, k : r = run[p] /\ v = Computed(p) /\ k = NextStep(p).call
    OBVIOUS
  <2>3. Follows(p, v) /\ Ready(p) /\ NextStep(p).op = "send" /\ ~Succeeds(k)
    BY <2>1, <2>2 DEF OrderInv, Alone, OwnerRun, Fails
  <2>4. /\ weth[Owner] \in Nat /\ eth[Owner] \in Nat /\ eth[Owner] >= Grant
        /\ Grant \in Nat /\ Refund \in Nat /\ \A w \in VaultAddresses : eth[w] \in Nat
    BY <2>1, AddressTypes, FundingAssumption DEF MoneyInv, OwnerCanGrant, Addresses
  <2>5. ASSUME NEW a \in 0..Grant, k = Wrap(Owner, a)
        PROVE  FALSE
    <3>1. k.fn = "deposit" /\ k.from = Owner /\ k.amount = a /\ eth[Owner] >= a
      BY <2>4, <2>5 DEF Wrap
    <3>2. QED
      BY <2>3, <3>1 DEF Succeeds
  <2>6. CASE k = Payment(v)
    <3>1. k.fn = "sendETH" /\ k.from = Owner /\ k.amount = Grant
      BY <2>6 DEF Payment, SendETH
    <3>2. QED
      BY <2>3, <2>4, <3>1 DEF Succeeds
  <2>7. CASE k = Transfer(v) /\ weth[Owner] >= Grant
    <3>1. k.fn = "transferFrom" /\ k.from = Owner /\ k.amount = Grant
      BY <2>7 DEF Transfer, TransferFrom
    <3>2. QED
      BY <2>3, <2>7, <3>1 DEF Succeeds
  <2>8. ASSUME k = Creation(r), eth[v] >= Grant, vaultMap[Owner] = Zero
        PROVE  treasury = Zero /\ k.fn = "createVault"
    <3>1. k.fn = "createVault" /\ k.user = Owner /\ k.salt = r.salt
      BY <2>1, <2>2, <2>8 DEF Creation, CreateVault
    <3>2. VaultAt(k.user, k.salt) = v /\ v.user = Owner
      BY <2>1, <2>2, <3>1 DEF VaultAt, Computed
    <3>3. v \notin vaults
      BY <2>1, <2>8, <3>2, FundingAssumption DEF RegistryInv, OneVaultPerOwner
    <3>4. v \in VaultAddresses
      <4>1. r # NoRun
        <5>1. r.task \in TaskNames
          BY <2>1, <2>2 DEF TaskNames
        <5>2. QED
          BY <5>1, TaskNotNone
      <4>2. r.salt \in 0..MaxSalts
        BY <2>1, <2>2, <4>1, SaltNumbers DEF RunInv, Named
      <4>3. QED
        BY <2>2, <4>2, FundingAssumption DEF Computed, VaultAddresses
    <3>5. eth[v] >= Refund
      BY <2>4, <2>8, <3>4
    <3>6. treasury # Zero => MayCreate(k.user, k.salt)
      BY <2>8, <3>1, <3>2, <3>3, <3>5 DEF MayCreate
    <3>7. QED
      BY <2>3, <3>1, <3>6 DEF Succeeds
  <2>9. \/ \E a \in 0..Grant : k = Wrap(Owner, a)
        \/ k = Payment(v)
        \/ k = Transfer(v) /\ weth[Owner] >= Grant
        \/ k = Creation(r) /\ eth[v] >= Grant /\ vaultMap[Owner] = Zero
    BY <2>1, <2>2, <2>3, SendStages
  <2>10. QED
    BY <2>2, <2>5, <2>6, <2>7, <2>8, <2>9
<1>4. QED
  BY <1>1, <1>2, <1>3, WorkHolds, PTL DEF Spec

(***************************************************************************)
(* What dev:bootstrap-user does, in the order it does it, for the user and *)
(* with the salt of m.                                                     *)
(***************************************************************************)
Plan(r) == [user |-> r.user, salt |-> r.salt]
AskETH(m) == Read("eth", m.user, [then |-> "topUpETH", user |-> m.user])
AskWETH(m) == Read("weth", m.user, [then |-> "topUpWETH", user |-> m.user])
AskVault(m) == Read("vault", m.user, [then |-> "fund", sender |-> Owner, sendETH |-> TRUE])
ToMake(m) == (Compute(m) \o Look(m)) \o AskVault(m)
ToTop(m) == AskWETH(m) \o ToMake(m)
Gift(u, d) == SendETH(Owner, u, d)
CheckAmount == Read("weth", Owner, [then |-> "wrap", amount |-> Amount, sender |-> Owner])
Filling(v) == Send(TransferFrom(Owner, v, Amount))
Fillings(v) == Send(SendETH(Owner, v, Amount)) \o Filling(v)

Starts(s, x, t) == IsSeq(s) /\ s # <<>> /\ Head(s) = x /\ Tail(s) = t
Sending(k, await) == [op |-> "send", call |-> k, await |-> await]
Reading(what, of, then) == [op |-> "read", what |-> what, of |-> of, then |-> then]

LEMMA StartsWith ==
  ASSUME NEW t, IsSeq(t)
  PROVE  /\ \A k : Starts(Send(k) \o t, Sending(k, TRUE), t) /\ Starts(SendOnly(k) \o t, Sending(k, FALSE), t)
         /\ \A what, of, then : Starts(Read(what, of, then) \o t, Reading(what, of, then), t)
BY First DEF Starts, Sending, Reading, Send, SendOnly, Read

LEMMA StartsAlone ==
  /\ \A k : Starts(Send(k), Sending(k, TRUE), <<>>) /\ Starts(SendOnly(k), Sending(k, FALSE), <<>>)
  /\ \A what, of, then : Starts(Read(what, of, then), Reading(what, of, then), <<>>)
BY OneStep DEF Starts, Sending, Reading, Send, SendOnly, Read

LEMMA MakePlans ==
  ASSUME NEW m
  PROVE  /\ Starts(Compute(m) \o Look(m), Reading("computed", [user |-> Owner, salt |-> m.salt], [then |-> "grant"]), Look(m))
         /\ Starts(Look(m), Reading("vault", m.user, [then |-> "create", user |-> m.user, salt |-> m.salt]), <<>>)
         /\ Starts(Send(Creation(m)), Sending(Creation(m), TRUE), <<>>)
         /\ \A v : /\ Starts(Check \o Payments(m, v),
                             Reading("weth", Owner, [then |-> "wrap", amount |-> Grant, sender |-> Owner]),
                             Payments(m, v))
                   /\ Starts(Payments(m, v), Sending(Payment(v), TRUE), Transfers(m, v))
                   /\ Starts(Transfers(m, v), Sending(Transfer(v), TRUE), Look(m))
                   /\ \A a : Starts(SendOnly(Wrap(Owner, a)) \o Payments(m, v),
                                    Sending(Wrap(Owner, a), FALSE), Payments(m, v))
<1>1. /\ Starts(Look(m), Reading("vault", m.user, [then |-> "create", user |-> m.user, salt |-> m.salt]), <<>>)
      /\ Starts(Send(Creation(m)), Sending(Creation(m), TRUE), <<>>)
  BY StartsAlone DEF Look
<1>2. IsSeq(Look(m))
  BY <1>1 DEF Starts
<1>3. Starts(Compute(m) \o Look(m), Reading("computed", [user |-> Owner, salt |-> m.salt], [then |-> "grant"]), Look(m))
  BY <1>2, StartsWith DEF Compute
<1>4. \A v : Starts(Transfers(m, v), Sending(Transfer(v), TRUE), Look(m))
  BY <1>2, StartsWith DEF Transfers
<1>5. \A v : IsSeq(Transfers(m, v))
  BY <1>4 DEF Starts
<1>6. \A v : Starts(Payments(m, v), Sending(Payment(v), TRUE), Transfers(m, v))
  BY <1>5, StartsWith DEF Payments
<1>7. \A v : IsSeq(Payments(m, v))
  BY <1>6 DEF Starts
<1>8. \A v : /\ Starts(Check \o Payments(m, v),
                       Reading("weth", Owner, [then |-> "wrap", amount |-> Grant, sender |-> Owner]),
                       Payments(m, v))
             /\ \A a : Starts(SendOnly(Wrap(Owner, a)) \o Payments(m, v),
                              Sending(Wrap(Owner, a), FALSE), Payments(m, v))
  BY <1>7, StartsWith DEF Check
<1>9. QED
  BY <1>1, <1>3, <1>4, <1>6, <1>8

\* The steps before the vault is made.
LEMMA TopPlans ==
  ASSUME NEW m
  PROVE  /\ IsSeq(ToMake(m))
         /\ Starts(AskETH(m) \o ToTop(m), Reading("eth", m.user, [then |-> "topUpETH", user |-> m.user]), ToTop(m))
         /\ Starts(ToTop(m), Reading("weth", m.user, [then |-> "topUpWETH", user |-> m.user]), ToMake(m))
         /\ \A d : /\ Starts(Send(Gift(m.user, d)) \o ToTop(m), Sending(Gift(m.user, d), TRUE), ToTop(m))
                   /\ Starts(Send(Gift(m.user, d)) \o (Send(Wrap(m.user, d)) \o ToMake(m)),
                             Sending(Gift(m.user, d), TRUE), Send(Wrap(m.user, d)) \o ToMake(m))
                   /\ Starts(Send(Wrap(m.user, d)) \o ToMake(m), Sending(Wrap(m.user, d), TRUE), ToMake(m))
<1>1. IsSeq(Compute(m) \o Look(m)) /\ IsSeq(AskVault(m))
  BY MakePlans, StartsAlone DEF Starts, AskVault
<1>2. IsSeq(ToMake(m))
  BY <1>1, ItemsJoined DEF ToMake
<1>3. Starts(ToTop(m), Reading("weth", m.user, [then |-> "topUpWETH", user |-> m.user]), ToMake(m))
  BY <1>2, StartsWith DEF ToTop, AskWETH
<1>4. IsSeq(ToTop(m))
  BY <1>3 DEF Starts
<1>5. /\ Starts(AskETH(m) \o ToTop(m), Reading("eth", m.user, [then |-> "topUpETH", user |-> m.user]), ToTop(m))
      /\ \A d : Starts(Send(Gift(m.user, d)) \o ToTop(m), Sending(Gift(m.user, d), TRUE), ToTop(m))
  BY <1>4, StartsWith DEF AskETH
<1>6. \A d : Starts(Send(Wrap(m.user, d)) \o ToMake(m), Sending(Wrap(m.user, d), TRUE), ToMake(m))
  BY <1>2, StartsWith
<1>7. \A d : IsSeq(Send(Wrap(m.user, d)) \o ToMake(m))
  BY <1>6 DEF Starts
<1>8. \A d : Starts(Send(Gift(m.user, d)) \o (Send(Wrap(m.user, d)) \o ToMake(m)),
                    Sending(Gift(m.user, d), TRUE), Send(Wrap(m.user, d)) \o ToMake(m))
  BY <1>7, StartsWith
<1>9. QED
  BY <1>2, <1>3, <1>5, <1>6, <1>8

\* The steps after it.
LEMMA FillPlans ==
  /\ \A m : Starts(AskVault(m), Reading("vault", m.user, [then |-> "fund", sender |-> Owner, sendETH |-> TRUE]), <<>>)
  /\ \A v : /\ Starts(Filling(v), Sending(TransferFrom(Owner, v, Amount), TRUE), <<>>)
            /\ Starts(Fillings(v), Sending(SendETH(Owner, v, Amount), TRUE), Filling(v))
            /\ Starts(CheckAmount \o Fillings(v),
                      Reading("weth", Owner, [then |-> "wrap", amount |-> Amount, sender |-> Owner]), Fillings(v))
            /\ \A a : Starts(SendOnly(Wrap(Owner, a)) \o Fillings(v), Sending(Wrap(Owner, a), FALSE), Fillings(v))
<1>1. /\ \A m : Starts(AskVault(m), Reading("vault", m.user, [then |-> "fund", sender |-> Owner, sendETH |-> TRUE]), <<>>)
      /\ \A v : Starts(Filling(v), Sending(TransferFrom(Owner, v, Amount), TRUE), <<>>)
  BY StartsAlone DEF AskVault, Filling
<1>2. \A v : IsSeq(Filling(v))
  BY <1>1 DEF Starts
<1>3. \A v : Starts(Fillings(v), Sending(SendETH(Owner, v, Amount), TRUE), Filling(v))
  BY <1>2, StartsWith DEF Fillings
<1>4. \A v : IsSeq(Fillings(v))
  BY <1>3 DEF Starts
<1>5. \A v : /\ Starts(CheckAmount \o Fillings(v),
                      Reading("weth", Owner, [then |-> "wrap", amount |-> Amount, sender |-> Owner]), Fillings(v))
             /\ \A a : Starts(SendOnly(Wrap(Owner, a)) \o Fillings(v), Sending(Wrap(Owner, a), FALSE), Fillings(v))
  BY <1>4, StartsWith DEF CheckAmount
<1>6. QED
  BY <1>1, <1>3, <1>5

LEMMA StartsJoined ==
  ASSUME NEW s, NEW x, NEW t, NEW u, Starts(s, x, t), IsSeq(u)
  PROVE  Starts(s \o u, x, t \o u)
<1>1. PICK S : s \in Seq(S)
  BY DEF Starts, IsSeq
<1>2. PICK U : u \in Seq(U)
  BY DEF IsSeq
<1>3. s \in Seq(S \cup U) /\ u \in Seq(S \cup U) /\ s # <<>>
  BY <1>1, <1>2 DEF Starts
<1>4. /\ s \o u \in Seq(S \cup U) /\ s \o u # <<>> /\ Head(s \o u) = Head(s)
      /\ Tail(s \o u) = Tail(s) \o u
  BY <1>3
<1>5. QED
  BY <1>4 DEF Starts, IsSeq

(***************************************************************************)
(* How far dev:bootstrap-user has come, with these steps left.             *)
(***************************************************************************)
Making(m, s) ==
  \/ s = Compute(m) \o Look(m) \/ s = Look(m) \/ s = Send(Creation(m))
  \/ \E v \in VaultAddresses :
       \/ s = Check \o Payments(m, v) \/ s = Payments(m, v) \/ s = Transfers(m, v)
       \/ \E a \in Nat : s = SendOnly(Wrap(Owner, a)) \o Payments(m, v)

Topped(u) == eth[u] >= Target /\ weth[u] >= Target
NeedsETH(m, todo) ==
  \/ todo = AskETH(m) \o ToTop(m)
  \/ \E d \in Nat : todo = Send(Gift(m.user, d)) \o ToTop(m) /\ eth[m.user] + d = Target
NeedsWETH(m, todo) ==
  /\ eth[m.user] >= Target
  /\ \/ todo = ToTop(m)
     \/ \E d \in Nat : /\ todo = Send(Gift(m.user, d)) \o (Send(Wrap(m.user, d)) \o ToMake(m))
                       /\ weth[m.user] + d = Target
NeedsWrap(m, todo) ==
  \E d \in Nat : /\ todo = Send(Wrap(m.user, d)) \o ToMake(m)
                 /\ weth[m.user] + d = Target /\ eth[m.user] >= Target + d
NeedsVault(m, todo) == Topped(m.user) /\ \E s : Making(m, s) /\ todo = s \o AskVault(m)
NeedsFunds(m, todo) ==
  /\ Topped(m.user) /\ vaultMap[m.user] # Zero
  /\ LET v == vaultMap[m.user]
     IN \/ todo = AskVault(m) \/ todo = CheckAmount \o Fillings(v) \/ todo = Fillings(v)
        \/ \E a \in Nat : todo = SendOnly(Wrap(Owner, a)) \o Fillings(v)
        \/ todo = Filling(v) /\ eth[v] >= Amount
        \/ todo = <<>> /\ eth[v] >= Amount /\ weth[v] >= Amount
BootAt(m, todo) ==
  \/ NeedsETH(m, todo) \/ NeedsWETH(m, todo) \/ NeedsWrap(m, todo)
  \/ NeedsVault(m, todo) \/ NeedsFunds(m, todo)

LEMMA BootstrapPlan ==
  ASSUME NEW m
  PROVE  BootstrapUser(m.user, m.salt) = AskETH(m) \o ToTop(m)
<1>1. PICK a, b, c, d : /\ a = AskETH(m) /\ b = AskWETH(m) /\ c = Compute(m) \o Look(m)
                        /\ d = AskVault(m)
  OBVIOUS
<1>2. IsSeq(a) /\ IsSeq(b) /\ IsSeq(c) /\ IsSeq(d)
  BY <1>1, StartsAlone, MakePlans DEF Starts, AskETH, AskWETH, AskVault
<1>3. IsSeq(a \o b) /\ IsSeq(c \o d)
  BY <1>2, ItemsJoined
<1>4. ((a \o b) \o c) \o d = (a \o b) \o (c \o d)
  <2>1. PICK e : e = a \o b
    OBVIOUS
  <2>2. IsSeq(e)
    BY <1>3, <2>1
  <2>3. (e \o c) \o d = e \o (c \o d)
    BY <1>2, <2>2, Joins
  <2>4. QED
    BY <2>1, <2>3
<1>5. (a \o b) \o (c \o d) = a \o (b \o (c \o d))
  BY <1>2, <1>3, Joins
<1>6. BootstrapUser(m.user, m.salt) = ((a \o b) \o c) \o d
  BY <1>1 DEF BootstrapUser, CreateVaultTask, AskETH, AskWETH, Compute, Look, AskVault
<1>7. QED
  BY <1>1, <1>4, <1>5, <1>6 DEF ToTop, ToMake

\* What follows each read.
LEMMA ToppedUp ==
  ASSUME NEW m, NEW v
  PROVE  /\ After([then |-> "topUpETH", user |-> m.user], v) \o ToTop(m) =
              IF v < Target THEN Send(Gift(m.user, Target - v)) \o ToTop(m) ELSE ToTop(m)
         /\ After([then |-> "topUpWETH", user |-> m.user], v) \o ToMake(m) =
              IF v < Target THEN Send(Gift(m.user, Target - v)) \o (Send(Wrap(m.user, Target - v)) \o ToMake(m))
              ELSE ToMake(m)
<1>0. IsSeq(ToTop(m)) /\ IsSeq(ToMake(m))
  BY TopPlans DEF Starts
<1>1. After([then |-> "topUpETH", user |-> m.user], v) \o ToTop(m) =
        IF v < Target THEN Send(Gift(m.user, Target - v)) \o ToTop(m) ELSE ToTop(m)
  <2>1. After([then |-> "topUpETH", user |-> m.user], v) =
          IF v < Target THEN Send(Gift(m.user, Target - v)) ELSE <<>>
    BY DEF After, When, Gift
  <2>2. QED
    BY <1>0, <2>1, NoneFirst
<1>2. After([then |-> "topUpWETH", user |-> m.user], v) \o ToMake(m) =
        IF v < Target THEN Send(Gift(m.user, Target - v)) \o (Send(Wrap(m.user, Target - v)) \o ToMake(m))
        ELSE ToMake(m)
  <2>1. After([then |-> "topUpWETH", user |-> m.user], v) =
          IF v < Target THEN Send(Gift(m.user, Target - v)) \o Send(Wrap(m.user, Target - v)) ELSE <<>>
    BY DEF After, When, Gift, DepositWETH
  <2>2. PICK a, b, c : a = Send(Gift(m.user, Target - v)) /\ b = Send(Wrap(m.user, Target - v)) /\ c = ToMake(m)
    OBVIOUS
  <2>3. IsSeq(a) /\ IsSeq(b) /\ IsSeq(c)
    BY <1>0, <2>2, StartsAlone DEF Starts
  <2>4. (a \o b) \o c = a \o (b \o c) /\ <<>> \o c = c
    BY <2>3, Joins, NoneFirst
  <2>5. QED
    BY <2>1, <2>2, <2>4
<1>3. QED
  BY <1>1, <1>2

LEMMA FilledUp ==
  ASSUME NEW v
  PROVE  /\ After([then |-> "fund", sender |-> Owner, sendETH |-> TRUE], v) \o <<>> = CheckAmount \o Fillings(v)
         /\ \A x : After([then |-> "wrap", amount |-> Amount, sender |-> Owner], x) \o Fillings(v) =
                     IF x < Amount THEN SendOnly(Wrap(Owner, Amount - x)) \o Fillings(v) ELSE Fillings(v)
<1>1. PICK a, b, c : a = CheckAmount /\ b = Send(SendETH(Owner, v, Amount)) /\ c = Filling(v)
  OBVIOUS
<1>2. IsSeq(a) /\ IsSeq(b) /\ IsSeq(c)
  BY <1>1, StartsAlone DEF Starts, CheckAmount, Filling
<1>3. IsSeq(b \o c) /\ IsSeq(a \o (b \o c))
  BY <1>2, ItemsJoined
<1>4. After([then |-> "fund", sender |-> Owner, sendETH |-> TRUE], v) = (a \o b) \o c
  BY <1>1 DEF After, Fund, When, CheckAmount, Filling
<1>5. (a \o b) \o c = a \o (b \o c)
  BY <1>2, Joins
<1>6. (a \o (b \o c)) \o <<>> = a \o (b \o c)
  <2>1. PICK e : e = a \o (b \o c)
    OBVIOUS
  <2>2. e \o <<>> = e
    BY <1>3, <2>1, NoneFirst
  <2>3. QED
    BY <2>1, <2>2
<1>7. ASSUME NEW x
      PROVE  After([then |-> "wrap", amount |-> Amount, sender |-> Owner], x) \o Fillings(v) =
               IF x < Amount THEN SendOnly(Wrap(Owner, Amount - x)) \o Fillings(v) ELSE Fillings(v)
  <2>1. After([then |-> "wrap", amount |-> Amount, sender |-> Owner], x) =
          IF x < Amount THEN SendOnly(Wrap(Owner, Amount - x)) ELSE <<>>
    BY DEF After, When
  <2>2. <<>> \o Fillings(v) = Fillings(v)
    BY <1>1, <1>3, NoneFirst DEF Fillings
  <2>3. QED
    BY <2>1, <2>2
<1>8. QED
  BY <1>1, <1>4, <1>5, <1>6, <1>7 DEF Fillings

\* What a read is answered with.
Reply(x) == After(x.then, Value(x.what, x.of))

LEMMA ReadFields ==
  ASSUME NEW what, NEW of, NEW then
  PROVE  /\ Reading(what, of, then).op = "read"
         /\ Reply(Reading(what, of, then)) = After(then, Value(what, of))
BY DEF Reading, Reply

LEMMA SendFields ==
  ASSUME NEW k, NEW await
  PROVE  Sending(k, await).op = "send" /\ Sending(k, await).call = k /\ Sending(k, await).await = await
BY DEF Sending

LEMMA OpOf ==
  /\ \A s, k, await, t : Starts(s, Sending(k, await), t) =>
       Head(s).op # "read" /\ Head(s).op = "send" /\ Head(s).call = k
  /\ \A s, what, of, then, t : Starts(s, Reading(what, of, then), t) =>
       Head(s).op # "send" /\ Head(s).op = "read"
BY DEF Starts, Sending, Reading

LEMMA ValueOf ==
  /\ \A u : Value("eth", u) = eth[u] /\ Value("weth", u) = weth[u] /\ Value("vault", u) = vaultMap[u]
  /\ \A u, n : Value("computed", [user |-> u, salt |-> n]) = VaultAt(u, n)
BY DEF Value

LEMMA MakingAsks ==
  ASSUME RegistryInv, MoneyInv, NEW m, m.user \in Users, m.salt \in Salts, NEW s, Making(m, s),
         NEW x, NEW t, Starts(s, x, t), x.op = "read"
  PROVE  Making(m, Reply(x) \o t) \/ (Reply(x) \o t = <<>> /\ vaultMap[m.user] # Zero)
<1>0. x = Head(s) /\ t = Tail(s) /\ weth[Owner] \in Nat /\ Grant \in Nat
  BY AddressTypes DEF Starts, MoneyInv
<1>1. CASE s = Compute(m) \o Look(m)
  <2>1. x = Reading("computed", [user |-> Owner, salt |-> m.salt], [then |-> "grant"]) /\ t = Look(m)
    BY <1>0, <1>1, MakePlans DEF Starts
  <2>2. PICK v \in VaultAddresses : v = VaultAt(Owner, m.salt)
    BY AddressTypes, VaultAtAddress DEF RegistryInv
  <2>3. Reply(x) \o t = Check \o Payments(m, v)
    <3>1. Reply(x) = After([then |-> "grant"], v)
      BY <2>1, <2>2, ReadFields, ValueOf
    <3>2. QED
      BY <2>1, <3>1, Continued
  <2>4. QED
    BY <2>2, <2>3 DEF Making
<1>2. CASE s = Look(m)
  <2>1. x = Reading("vault", m.user, [then |-> "create", user |-> m.user, salt |-> m.salt]) /\ t = <<>>
    BY <1>0, <1>2, MakePlans DEF Starts
  <2>2. Reply(x) \o t = IF vaultMap[m.user] = Zero THEN Send(Creation(m)) ELSE <<>>
    <3>1. Reply(x) = After([then |-> "create", user |-> m.user, salt |-> m.salt], vaultMap[m.user])
      BY <2>1, ReadFields, ValueOf
    <3>2. QED
      BY <2>1, <3>1, Continued
  <2>3. QED
    BY <2>2 DEF Making
<1>3. ASSUME NEW v \in VaultAddresses, s = Check \o Payments(m, v)
      PROVE  Making(m, Reply(x) \o t)
  <2>1. /\ x = Reading("weth", Owner, [then |-> "wrap", amount |-> Grant, sender |-> Owner])
        /\ t = Payments(m, v)
    BY <1>0, <1>3, MakePlans DEF Starts
  <2>2. Reply(x) \o t = IF weth[Owner] < Grant THEN SendOnly(Wrap(Owner, Grant - weth[Owner])) \o Payments(m, v)
                          ELSE Payments(m, v)
    <3>1. Reply(x) = After([then |-> "wrap", amount |-> Grant, sender |-> Owner], weth[Owner])
      BY <2>1, ReadFields, ValueOf
    <3>2. QED
      BY <2>1, <3>1, Continued
  <2>3. weth[Owner] < Grant => Grant - weth[Owner] \in Nat
    BY <1>0
  <2>4. QED
    BY <2>2, <2>3 DEF Making
<1>4. s # Send(Creation(m))
  BY <1>0, MakePlans, OpOf
<1>5. \A v : s # Payments(m, v) /\ s # Transfers(m, v) /\ \A a : s # SendOnly(Wrap(Owner, a)) \o Payments(m, v)
  BY <1>0, MakePlans, OpOf
<1>6. QED
  BY <1>1, <1>2, <1>3, <1>4, <1>5 DEF Making

LEMMA MakingStarts ==
  ASSUME NEW m, NEW s, Making(m, s)
  PROVE  IsSeq(s) /\ s # <<>> /\ Starts(s, Head(s), Tail(s))
<1>1. IsSeq(s) /\ s # <<>>
  BY MakePlans DEF Making, Starts
<1>2. QED
  BY <1>1 DEF Starts

\* A read leads to the next stage.
LEMMA BootAsks ==
  ASSUME RegistryInv, MoneyInv, NEW m, m.user \in Users, m.salt \in Salts, NEW todo, BootAt(m, todo),
         NEW x, NEW t, Starts(todo, x, t), x.op = "read", IsSeq(Reply(x))
  PROVE  BootAt(m, Reply(x) \o t)
<1>0. /\ x = Head(todo) /\ t = Tail(todo) /\ todo # <<>> /\ Owner \in Users
      /\ eth[m.user] \in Nat /\ weth[m.user] \in Nat /\ weth[Owner] \in Nat
      /\ Target \in Nat /\ Amount \in Nat
  BY AddressTypes DEF Starts, MoneyInv
<1>1. CASE NeedsETH(m, todo)
  <2>1. \A d : todo # Send(Gift(m.user, d)) \o ToTop(m)
    BY <1>0, TopPlans, OpOf
  <2>2. todo = AskETH(m) \o ToTop(m)
    BY <1>1, <2>1 DEF NeedsETH
  <2>3. x = Reading("eth", m.user, [then |-> "topUpETH", user |-> m.user]) /\ t = ToTop(m)
    BY <1>0, <2>2, TopPlans DEF Starts
  <2>4. Reply(x) \o t = IF eth[m.user] < Target THEN Send(Gift(m.user, Target - eth[m.user])) \o ToTop(m)
                          ELSE ToTop(m)
    <3>1. Reply(x) = After([then |-> "topUpETH", user |-> m.user], eth[m.user])
      BY <2>3, ReadFields, ValueOf
    <3>2. QED
      BY <2>3, <3>1, ToppedUp
  <2>5. CASE eth[m.user] < Target
    <3>1. Target - eth[m.user] \in Nat /\ eth[m.user] + (Target - eth[m.user]) = Target
      BY <1>0, <2>5
    <3>2. QED
      BY <2>4, <2>5, <3>1 DEF BootAt, NeedsETH
  <2>6. CASE ~(eth[m.user] < Target)
    <3>1. eth[m.user] >= Target
      BY <1>0, <2>6
    <3>2. QED
      BY <2>4, <2>6, <3>1 DEF BootAt, NeedsWETH
  <2>7. QED
    BY <2>5, <2>6
<1>2. CASE NeedsWETH(m, todo)
  <2>1. \A d : todo # Send(Gift(m.user, d)) \o (Send(Wrap(m.user, d)) \o ToMake(m))
    <3>1. TAKE d
    <3>2. PICK s, u : s = Send(Gift(m.user, d)) \o (Send(Wrap(m.user, d)) \o ToMake(m))
                      /\ u = Send(Wrap(m.user, d)) \o ToMake(m)
      OBVIOUS
    <3>3. Starts(s, Sending(Gift(m.user, d), TRUE), u)
      BY <3>2, TopPlans
    <3>4. QED
      BY <1>0, <3>2, <3>3, OpOf
  <2>2. todo = ToTop(m) /\ eth[m.user] >= Target
    BY <1>2, <2>1 DEF NeedsWETH
  <2>3. x = Reading("weth", m.user, [then |-> "topUpWETH", user |-> m.user]) /\ t = ToMake(m)
    BY <1>0, <2>2, TopPlans DEF Starts
  <2>4. PICK d : d = Target - weth[m.user]
    OBVIOUS
  <2>5. Reply(x) \o t = IF weth[m.user] < Target
                          THEN Send(Gift(m.user, d)) \o (Send(Wrap(m.user, d)) \o ToMake(m))
                          ELSE ToMake(m)
    <3>1. Reply(x) = After([then |-> "topUpWETH", user |-> m.user], weth[m.user])
      BY <2>3, ReadFields, ValueOf
    <3>2. QED
      BY <2>3, <2>4, <3>1, ToppedUp
  <2>6. CASE weth[m.user] < Target
    <3>1. d \in Nat /\ weth[m.user] + d = Target
      BY <1>0, <2>4, <2>6
    <3>2. QED
      BY <2>2, <2>5, <2>6, <3>1 DEF BootAt, NeedsWETH
  <2>7. CASE ~(weth[m.user] < Target)
    <3>1. Topped(m.user)
      BY <1>0, <2>2, <2>7 DEF Topped
    <3>2. Making(m, Compute(m) \o Look(m))
      BY DEF Making
    <3>3. QED
      BY <2>5, <2>7, <3>1, <3>2 DEF BootAt, NeedsVault, ToMake
  <2>8. QED
    BY <2>6, <2>7
<1>3. ~NeedsWrap(m, todo)
  BY <1>0, TopPlans, OpOf DEF NeedsWrap
<1>4. CASE NeedsVault(m, todo)
  <2>1. PICK s : Making(m, s) /\ todo = s \o AskVault(m) /\ Topped(m.user)
    BY <1>4 DEF NeedsVault
  <2>2. Starts(s, Head(s), Tail(s)) /\ IsSeq(AskVault(m))
    BY <2>1, MakingStarts, FillPlans DEF Starts
  <2>3. PICK r : r = Tail(s)
    OBVIOUS
  <2>4. Starts(s, x, r) /\ t = r \o AskVault(m) /\ IsSeq(r)
    <3>1. Starts(todo, Head(s), r \o AskVault(m))
      BY <2>1, <2>2, <2>3, StartsJoined
    <3>2. IsSeq(r)
      BY <2>2, <2>3, ItemsTail DEF Starts
    <3>3. QED
      BY <1>0, <2>2, <2>3, <3>1, <3>2 DEF Starts
  <2>5. PICK a : a = Reply(x)
    OBVIOUS
  <2>6. a \o (r \o AskVault(m)) = (a \o r) \o AskVault(m)
    BY <2>2, <2>4, <2>5, Joins
  <2>7. Making(m, a \o r) \/ (a \o r = <<>> /\ vaultMap[m.user] # Zero)
    BY <2>1, <2>4, <2>5, MakingAsks
  <2>8. <<>> \o AskVault(m) = AskVault(m)
    BY <2>2, NoneFirst
  <2>9. CASE Making(m, a \o r)
    BY <2>1, <2>4, <2>5, <2>6, <2>9 DEF BootAt, NeedsVault
  <2>10. CASE a \o r = <<>> /\ vaultMap[m.user] # Zero
    BY <2>1, <2>4, <2>5, <2>6, <2>8, <2>10 DEF BootAt, NeedsFunds
  <2>11. QED
    BY <2>7, <2>9, <2>10
<1>5. CASE NeedsFunds(m, todo)
  <2>1. PICK v : v = vaultMap[m.user]
    OBVIOUS
  <2>2. /\ todo # Fillings(v) /\ todo # Filling(v)
        /\ \A a : todo # SendOnly(Wrap(Owner, a)) \o Fillings(v)
    BY <1>0, FillPlans, OpOf
  <2>3. todo = AskVault(m) \/ todo = CheckAmount \o Fillings(v)
    BY <1>0, <1>5, <2>1, <2>2 DEF NeedsFunds
  <2>4. CASE todo = AskVault(m)
    <3>1. x = Reading("vault", m.user, [then |-> "fund", sender |-> Owner, sendETH |-> TRUE]) /\ t = <<>>
      BY <1>0, <2>4, FillPlans DEF Starts
    <3>2. Reply(x) \o t = CheckAmount \o Fillings(v)
      <4>1. Reply(x) = After([then |-> "fund", sender |-> Owner, sendETH |-> TRUE], v)
        BY <2>1, <3>1, ReadFields, ValueOf
      <4>2. QED
        BY <3>1, <4>1, FilledUp
    <3>3. QED
      BY <1>5, <2>1, <3>2 DEF BootAt, NeedsFunds
  <2>5. CASE todo = CheckAmount \o Fillings(v)
    <3>1. /\ x = Reading("weth", Owner, [then |-> "wrap", amount |-> Amount, sender |-> Owner])
          /\ t = Fillings(v)
      BY <1>0, <2>5, FillPlans DEF Starts
    <3>2. PICK a : a = Amount - weth[Owner]
      OBVIOUS
    <3>3. Reply(x) \o t = IF weth[Owner] < Amount THEN SendOnly(Wrap(Owner, a)) \o Fillings(v)
                            ELSE Fillings(v)
      <4>1. Reply(x) = After([then |-> "wrap", amount |-> Amount, sender |-> Owner], weth[Owner])
        BY <3>1, ReadFields, ValueOf
      <4>2. QED
        BY <3>1, <3>2, <4>1, FilledUp
    <3>4. weth[Owner] < Amount => a \in Nat
      BY <1>0, <3>2
    <3>5. QED
      BY <1>5, <2>1, <3>3, <3>4 DEF BootAt, NeedsFunds
  <2>6. QED
    BY <2>3, <2>4, <2>5
<1>6. QED
  BY <1>1, <1>2, <1>3, <1>4, <1>5 DEF BootAt

\* Calls that leave the money of users other than the owner alone.
QuietCall(k) ==
  \/ k.fn = "createVault"
  \/ k.fn = "deposit" /\ k.from = Owner
  \/ k.fn \in {"sendETH", "transferFrom"} /\ k.from = Owner /\ k.to \notin Users \ {Owner}

LEMMA OwnerCalls ==
  /\ \A v \in VaultAddresses \cup {Zero} : \A a :
       QuietCall(SendETH(Owner, v, a)) /\ QuietCall(TransferFrom(Owner, v, a))
  /\ \A a : QuietCall(Wrap(Owner, a))
  /\ \A u, n : QuietCall(CreateVault(u, n))
BY FundingAssumption DEF QuietCall, SendETH, TransferFrom, Wrap, CreateVault

LEMMA MakingSends ==
  ASSUME NEW m, NEW s, Making(m, s), NEW x, NEW t, Starts(s, x, t), x.op = "send"
  PROVE  QuietCall(x.call) /\ (Making(m, t) \/ (t = <<>> /\ x.call = Creation(m)))
<1>0. x = Head(s) /\ t = Tail(s)
  BY DEF Starts
<1>1. s # Compute(m) \o Look(m) /\ s # Look(m) /\ \A v : s # Check \o Payments(m, v)
  <2>1. ASSUME NEW what, NEW of, NEW then, NEW q, NEW r, Starts(q, Reading(what, of, then), r)
        PROVE  s # q
    BY <1>0, <2>1, OpOf
  <2>2. s # Compute(m) \o Look(m) /\ s # Look(m)
    BY <2>1, MakePlans
  <2>3. \A v : s # Check \o Payments(m, v)
    BY <2>1, MakePlans
  <2>4. QED
    BY <2>2, <2>3
<1>2. CASE s = Send(Creation(m))
  <2>1. x = Sending(Creation(m), TRUE) /\ t = <<>>
    BY <1>0, <1>2, MakePlans DEF Starts
  <2>2. x.call = Creation(m)
    BY <2>1, SendFields
  <2>3. QED
    BY <2>1, <2>2, OwnerCalls DEF Creation
<1>3. ASSUME NEW v \in VaultAddresses, s = Payments(m, v)
      PROVE  QuietCall(x.call) /\ Making(m, t)
  <2>1. x = Sending(Payment(v), TRUE) /\ t = Transfers(m, v)
    BY <1>0, <1>3, MakePlans DEF Starts
  <2>2. QuietCall(x.call)
    <3>1. x.call = Payment(v)
      BY <2>1, SendFields
    <3>2. QuietCall(Payment(v))
      BY OwnerCalls DEF Payment
    <3>3. QED
      BY <3>1, <3>2
  <2>3. QED
    BY <2>1, <2>2 DEF Making
<1>4. ASSUME NEW v \in VaultAddresses, s = Transfers(m, v)
      PROVE  QuietCall(x.call) /\ Making(m, t)
  <2>1. x = Sending(Transfer(v), TRUE) /\ t = Look(m)
    BY <1>0, <1>4, MakePlans DEF Starts
  <2>2. QuietCall(x.call)
    <3>1. x.call = Transfer(v)
      BY <2>1, SendFields
    <3>2. QuietCall(Transfer(v))
      BY OwnerCalls DEF Transfer
    <3>3. QED
      BY <3>1, <3>2
  <2>3. QED
    BY <2>1, <2>2 DEF Making
<1>5. ASSUME NEW v \in VaultAddresses, NEW a \in Nat, s = SendOnly(Wrap(Owner, a)) \o Payments(m, v)
      PROVE  QuietCall(x.call) /\ Making(m, t)
  <2>1. Starts(s, Sending(Wrap(Owner, a), FALSE), Payments(m, v))
    BY <1>5, MakePlans
  <2>2. x = Sending(Wrap(Owner, a), FALSE) /\ t = Payments(m, v)
    BY <1>0, <2>1 DEF Starts
  <2>3. QuietCall(x.call)
    <3>1. x.call = Wrap(Owner, a)
      BY <2>2, SendFields
    <3>2. QuietCall(Wrap(Owner, a))
      BY OwnerCalls
    <3>3. QED
      BY <3>1, <3>2
  <2>4. QED
    BY <2>2, <2>3 DEF Making
<1>6. QED
  BY <1>1, <1>2, <1>3, <1>4, <1>5 DEF Making

\* The calls of dev:bootstrap-user, each at its stage.
GivesETH(m, k, t) == \E d \in Nat : k = Gift(m.user, d) /\ t = ToTop(m) /\ eth[m.user] + d = Target
GivesWETH(m, k, t) ==
  \E d \in Nat : /\ k = Gift(m.user, d) /\ t = Send(Wrap(m.user, d)) \o ToMake(m)
                 /\ eth[m.user] >= Target /\ weth[m.user] + d = Target
Wraps(m, todo, k, t) ==
  \E d \in Nat : /\ todo = Send(Wrap(m.user, d)) \o ToMake(m) /\ k = Wrap(m.user, d) /\ t = ToMake(m)
                 /\ weth[m.user] + d = Target /\ eth[m.user] >= Target + d
GoesOn(m, k, t) ==
  /\ QuietCall(k) /\ Topped(m.user)
  /\ \/ \E s : Making(m, s) /\ t = s \o AskVault(m)
     \/ k = Creation(m) /\ t = AskVault(m)
Fills(m, k, t) ==
  LET v == vaultMap[m.user]
  IN /\ QuietCall(k) /\ Topped(m.user) /\ v # Zero
     /\ \/ t = Fillings(v) /\ \E a \in Nat : k = Wrap(Owner, a)
        \/ t = Filling(v) /\ k = SendETH(Owner, v, Amount)
        \/ t = <<>> /\ k = TransferFrom(Owner, v, Amount) /\ eth[v] >= Amount

LEMMA BootCalls ==
  ASSUME RegistryInv, NEW m, m.user \in Users, NEW todo, BootAt(m, todo),
         NEW x, NEW t, Starts(todo, x, t), x.op = "send", NEW k, k = x.call
  PROVE  \/ GivesETH(m, k, t) \/ GivesWETH(m, k, t) \/ Wraps(m, todo, k, t)
         \/ GoesOn(m, k, t) \/ Fills(m, k, t)
<1>0. x = Head(todo) /\ t = Tail(todo) /\ todo # <<>>
  BY DEF Starts
<1>1. CASE NeedsETH(m, todo)
  <2>1. todo # AskETH(m) \o ToTop(m)
    BY <1>0, TopPlans, OpOf
  <2>2. PICK d \in Nat : todo = Send(Gift(m.user, d)) \o ToTop(m) /\ eth[m.user] + d = Target
    BY <1>1, <2>1 DEF NeedsETH
  <2>3. x = Sending(Gift(m.user, d), TRUE) /\ t = ToTop(m)
    BY <1>0, <2>2, TopPlans DEF Starts
  <2>4. QED
    BY <2>2, <2>3, SendFields DEF GivesETH
<1>2. CASE NeedsWETH(m, todo)
  <2>1. todo # ToTop(m)
    BY <1>0, TopPlans, OpOf
  <2>2. PICK d \in Nat : /\ todo = Send(Gift(m.user, d)) \o (Send(Wrap(m.user, d)) \o ToMake(m))
                         /\ eth[m.user] >= Target /\ weth[m.user] + d = Target
    BY <1>2, <2>1 DEF NeedsWETH
  <2>3. Starts(todo, Sending(Gift(m.user, d), TRUE), Send(Wrap(m.user, d)) \o ToMake(m))
    BY <2>2, TopPlans
  <2>4. x = Sending(Gift(m.user, d), TRUE) /\ t = Send(Wrap(m.user, d)) \o ToMake(m)
    BY <1>0, <2>3 DEF Starts
  <2>5. QED
    BY <2>2, <2>4, SendFields DEF GivesWETH
<1>3. CASE NeedsWrap(m, todo)
  <2>1. PICK d \in Nat : /\ todo = Send(Wrap(m.user, d)) \o ToMake(m)
                         /\ weth[m.user] + d = Target /\ eth[m.user] >= Target + d
    BY <1>3 DEF NeedsWrap
  <2>2. Starts(todo, Sending(Wrap(m.user, d), TRUE), ToMake(m))
    BY <2>1, TopPlans
  <2>3. x = Sending(Wrap(m.user, d), TRUE) /\ t = ToMake(m)
    BY <1>0, <2>2 DEF Starts
  <2>4. QED
    BY <2>1, <2>3, SendFields DEF Wraps
<1>4. CASE NeedsVault(m, todo)
  <2>1. PICK s : Making(m, s) /\ todo = s \o AskVault(m) /\ Topped(m.user)
    BY <1>4 DEF NeedsVault
  <2>2. Starts(s, Head(s), Tail(s)) /\ IsSeq(AskVault(m))
    BY <2>1, MakingStarts, FillPlans DEF Starts
  <2>3. PICK r : r = Tail(s)
    OBVIOUS
  <2>4. Starts(s, x, r) /\ t = r \o AskVault(m)
    <3>1. Starts(todo, Head(s), r \o AskVault(m))
      BY <2>1, <2>2, <2>3, StartsJoined
    <3>2. QED
      BY <1>0, <2>2, <2>3, <3>1 DEF Starts
  <2>5. QuietCall(k) /\ (Making(m, r) \/ (r = <<>> /\ k = Creation(m)))
    BY <2>1, <2>4, MakingSends
  <2>6. <<>> \o AskVault(m) = AskVault(m)
    BY <2>2, NoneFirst
  <2>7. QED
    BY <2>1, <2>4, <2>5, <2>6 DEF GoesOn
<1>5. CASE NeedsFunds(m, todo)
  <2>1. PICK v \in VaultAddresses : v = vaultMap[m.user] /\ v # Zero
    BY <1>5 DEF NeedsFunds, RegistryInv
  <2>2. todo # AskVault(m) /\ todo # CheckAmount \o Fillings(v)
    BY <1>0, FillPlans, OpOf
  <2>3. /\ Topped(m.user)
        /\ \/ todo = Fillings(v) \/ \E a \in Nat : todo = SendOnly(Wrap(Owner, a)) \o Fillings(v)
           \/ todo = Filling(v) /\ eth[v] >= Amount
    BY <1>0, <1>5, <2>1, <2>2 DEF NeedsFunds
  <2>4. CASE todo = Fillings(v)
    <3>1. x = Sending(SendETH(Owner, v, Amount), TRUE) /\ t = Filling(v)
      BY <1>0, <2>4, FillPlans DEF Starts
    <3>2. k = SendETH(Owner, v, Amount) /\ QuietCall(k)
      <4>1. k = SendETH(Owner, v, Amount)
        BY <3>1, SendFields
      <4>2. QuietCall(SendETH(Owner, v, Amount))
        BY OwnerCalls
      <4>3. QED
        BY <4>1, <4>2
    <3>3. QED
      BY <2>1, <2>3, <3>1, <3>2 DEF Fills
  <2>5. ASSUME NEW a \in Nat, todo = SendOnly(Wrap(Owner, a)) \o Fillings(v)
        PROVE  Fills(m, k, t)
    <3>1. Starts(todo, Sending(Wrap(Owner, a), FALSE), Fillings(v))
      BY <2>5, FillPlans
    <3>2. x = Sending(Wrap(Owner, a), FALSE) /\ t = Fillings(v)
      BY <1>0, <3>1 DEF Starts
    <3>3. k = Wrap(Owner, a) /\ QuietCall(k)
      <4>1. k = Wrap(Owner, a)
        BY <3>2, SendFields
      <4>2. QuietCall(Wrap(Owner, a))
        BY OwnerCalls
      <4>3. QED
        BY <4>1, <4>2
    <3>4. QED
      BY <2>1, <2>3, <3>2, <3>3 DEF Fills
  <2>6. CASE todo = Filling(v) /\ eth[v] >= Amount
    <3>1. x = Sending(TransferFrom(Owner, v, Amount), TRUE) /\ t = <<>>
      BY <1>0, <2>6, FillPlans DEF Starts
    <3>2. k = TransferFrom(Owner, v, Amount) /\ QuietCall(k)
      <4>1. k = TransferFrom(Owner, v, Amount)
        BY <3>1, SendFields
      <4>2. QuietCall(TransferFrom(Owner, v, Amount))
        BY OwnerCalls
      <4>3. QED
        BY <4>1, <4>2
    <3>3. QED
      BY <2>1, <2>3, <2>6, <3>1, <3>2 DEF Fills
  <2>7. QED
    BY <2>3, <2>4, <2>5, <2>6
<1>6. QED
  BY <1>1, <1>2, <1>3, <1>4, <1>5 DEF BootAt

(***************************************************************************)
(* What the calls do to users.                                             *)
(***************************************************************************)
LEMMA QuietEffect ==
  ASSUME RegistryInv, MoneyInv, NEW k, SafeCall(k), Execute(k), QuietCall(k), NEW u \in Users \ {Owner}
  PROVE  eth'[u] = eth[u] /\ weth'[u] = weth[u]
<1>0. eth \in [Addresses -> Nat] /\ weth \in [Addresses -> Nat] /\ u \in Addresses
  BY AddressTypes DEF MoneyInv
<1>1. CASE ExecuteSendETH(k)
  BY <1>0, <1>1 DEF ExecuteSendETH, QuietCall
<1>2. CASE ExecuteWETH9(k)
  BY <1>0, <1>2 DEF ExecuteWETH9, QuietCall
<1>3. CASE ExecuteCreateVault(k)
  <2>1. PICK v \in VaultAddresses : v = VaultAt(k.user, k.salt)
    BY <1>3, VaultAtAddress DEF ExecuteCreateVault, SafeCall, RegistryInv
  <2>2. u # v /\ u # Treasury
    BY <2>1, FundingAssumption
  <2>3. eth' = [eth EXCEPT ![v] = @ - Refund, ![Treasury] = @ + Refund] /\ UNCHANGED weth
    BY <1>3, <2>1 DEF ExecuteCreateVault
  <2>4. QED
    BY <1>0, <2>2, <2>3
<1>4. QED
  BY <1>1, <1>2, <1>3 DEF Execute

LEMMA GiftEffect ==
  ASSUME RegistryInv, MoneyInv, NEW w \in Users \ {Owner}, NEW d \in Nat, Execute(Gift(w, d))
  PROVE  /\ eth'[w] = eth[w] + d /\ UNCHANGED <<weth, vaultMap>>
         /\ \A u \in Users \ {Owner, w} : eth'[u] = eth[u]
<1>0. eth \in [Addresses -> Nat] /\ Users \subseteq Addresses /\ Owner \in Users
  BY AddressTypes DEF MoneyInv
<1>1. PICK k : k = Gift(w, d) /\ k.fn = "sendETH" /\ k.from = Owner /\ k.to = w /\ k.amount = d
  BY DEF Gift, SendETH
<1>2. ExecuteSendETH(k)
  BY <1>1 DEF Execute, ExecuteWETH9, ExecuteCreateVault
<1>3. eth' = [eth EXCEPT ![Owner] = @ - d, ![w] = @ + d] /\ UNCHANGED <<weth, vaultMap>>
  BY <1>1, <1>2 DEF ExecuteSendETH
<1>4. QED
  BY <1>0, <1>3

LEMMA WrapEffect ==
  ASSUME RegistryInv, MoneyInv, NEW w \in Users, NEW d \in Nat, Execute(Wrap(w, d))
  PROVE  /\ eth[w] >= d /\ eth'[w] = eth[w] - d /\ weth'[w] = weth[w] + d /\ UNCHANGED vaultMap
         /\ \A u \in Users \ {w} : eth'[u] = eth[u] /\ weth'[u] = weth[u]
<1>0. eth \in [Addresses -> Nat] /\ weth \in [Addresses -> Nat] /\ Users \subseteq Addresses
  BY AddressTypes DEF MoneyInv
<1>1. PICK k : k = Wrap(w, d) /\ k.fn = "deposit" /\ k.from = w /\ k.amount = d
  BY DEF Wrap
<1>2. ExecuteWETH9(k) /\ eth[w] >= d
  BY <1>1 DEF Execute, ExecuteSendETH, ExecuteCreateVault, Succeeds
<1>3. /\ eth' = [eth EXCEPT ![w] = @ - d] /\ weth' = [weth EXCEPT ![w] = @ + d]
      /\ UNCHANGED vaultMap
  BY <1>1, <1>2 DEF ExecuteWETH9
<1>4. QED
  BY <1>0, <1>2, <1>3

\* A vault that is recorded stays, and one that is created is recorded.
LEMMA VaultEffect ==
  ASSUME RegistryInv, NEW k, SafeCall(k), Execute(k)
  PROVE  /\ \A u \in Users : vaultMap[u] # Zero => vaultMap'[u] = vaultMap[u]
         /\ \A u \in Users : \A n : k = CreateVault(u, n) => vaultMap'[u] # Zero
<1>0. vaultMap \in [Users -> VaultAddresses \cup {Zero}]
  BY DEF RegistryInv
<1>1. \A u \in Users : vaultMap[u] # Zero => vaultMap'[u] = vaultMap[u]
  <2>1. CASE Recorded
    BY <1>0, <2>1 DEF Recorded, Registry!Record
  <2>2. QED
    BY <2>1, ExecuteRecords
<1>2. ASSUME NEW u \in Users, NEW n, k = CreateVault(u, n)
      PROVE  vaultMap'[u] # Zero
  <2>1. k.fn = "createVault" /\ k.user = u /\ k.salt = n
    BY <1>2 DEF CreateVault
  <2>2. PICK v \in VaultAddresses : v = VaultAt(k.user, k.salt)
    BY <2>1, VaultAtAddress DEF SafeCall, RegistryInv
  <2>3. vaultMap' = [vaultMap EXCEPT ![u] = v]
    BY <2>1, <2>2 DEF Execute, ExecuteSendETH, ExecuteWETH9, ExecuteCreateVault
  <2>4. v # Zero
    BY <2>2, FundingAssumption
  <2>5. QED
    BY <1>0, <2>3, <2>4
<1>3. QED
  BY <1>1, <1>2

LEMMA BootSends ==
  ASSUME RegistryInv, MoneyInv, NEW m, m.user \in Users \ {Owner}, NEW todo, BootAt(m, todo),
         NEW x, NEW t, Starts(todo, x, t), x.op = "send", NEW k, k = x.call, SafeCall(k), Execute(k)
  PROVE  BootAt(m, t)'
<1>0. PICK u \in Users \ {Owner} : u = m.user
  OBVIOUS
<1>1. /\ eth[u] \in Nat /\ weth[u] \in Nat /\ eth'[u] \in Nat /\ weth'[u] \in Nat
      /\ Target \in Nat /\ Amount \in Nat
      /\ \A v \in VaultAddresses : eth[v] \in Nat /\ weth[v] \in Nat /\ eth'[v] \in Nat /\ weth'[v] \in Nat
  BY ExecuteMoney, AddressTypes DEF MoneyInv, Addresses
<1>2. CASE GivesETH(m, k, t)
  <2>1. PICK d \in Nat : k = Gift(u, d) /\ t = ToTop(m) /\ eth[u] + d = Target
    BY <1>0, <1>2 DEF GivesETH
  <2>2. eth'[u] = Target
    BY <2>1, GiftEffect
  <2>3. NeedsWETH(m, t)'
    BY <1>0, <1>1, <2>1, <2>2 DEF NeedsWETH
  <2>4. QED
    BY <2>3 DEF BootAt
<1>3. CASE GivesWETH(m, k, t)
  <2>1. PICK d \in Nat : /\ k = Gift(u, d) /\ t = Send(Wrap(u, d)) \o ToMake(m)
                         /\ eth[u] >= Target /\ weth[u] + d = Target
    BY <1>0, <1>3 DEF GivesWETH
  <2>2. eth'[u] = eth[u] + d /\ weth'[u] = weth[u]
    BY <2>1, GiftEffect
  <2>3. eth'[u] >= Target + d /\ weth'[u] + d = Target
    BY <1>1, <2>1, <2>2
  <2>4. NeedsWrap(m, t)'
    BY <1>0, <2>1, <2>3 DEF NeedsWrap
  <2>5. QED
    BY <2>4 DEF BootAt
<1>4. CASE Wraps(m, todo, k, t)
  <2>1. PICK d \in Nat : /\ k = Wrap(u, d) /\ t = ToMake(m)
                         /\ weth[u] + d = Target /\ eth[u] >= Target + d
    BY <1>0, <1>4 DEF Wraps
  <2>2. eth'[u] = eth[u] - d /\ weth'[u] = weth[u] + d
    BY <2>1, WrapEffect
  <2>3. Topped(u)'
    BY <1>1, <2>1, <2>2 DEF Topped
  <2>4. Making(m, Compute(m) \o Look(m))
    BY DEF Making
  <2>5. NeedsVault(m, t)'
    BY <1>0, <2>1, <2>3, <2>4 DEF NeedsVault, ToMake, Making
  <2>6. QED
    BY <2>5 DEF BootAt
<1>5. ASSUME QuietCall(k), Topped(m.user)
      PROVE  Topped(m.user)'
  BY <1>0, <1>5, QuietEffect DEF Topped
<1>6. CASE GoesOn(m, k, t)
  <2>1. Topped(m.user)'
    BY <1>5, <1>6 DEF GoesOn
  <2>2. CASE \E s : Making(m, s) /\ t = s \o AskVault(m)
    <3>1. NeedsVault(m, t)'
      BY <2>1, <2>2 DEF NeedsVault, Making
    <3>2. QED
      BY <3>1 DEF BootAt
  <2>3. CASE k = Creation(m) /\ t = AskVault(m)
    <3>1. k = CreateVault(u, m.salt)
      BY <1>0, <2>3 DEF Creation
    <3>2. vaultMap'[m.user] # Zero
      BY <1>0, <3>1, VaultEffect
    <3>3. NeedsFunds(m, t)'
      BY <2>1, <2>3, <3>2 DEF NeedsFunds
    <3>4. QED
      BY <3>3 DEF BootAt
  <2>4. QED
    BY <1>6, <2>2, <2>3 DEF GoesOn
<1>7. CASE Fills(m, k, t)
  <2>1. Topped(m.user)'
    BY <1>5, <1>7 DEF Fills
  <2>2. PICK v \in VaultAddresses : v = vaultMap[u] /\ v # Zero /\ v = vaultMap'[u]
    BY <1>0, <1>7, VaultEffect DEF Fills, RegistryInv
  <2>3. \/ t = Fillings(v) /\ \E a \in Nat : k = Wrap(Owner, a)
        \/ t = Filling(v) /\ k = SendETH(Owner, v, Amount)
        \/ t = <<>> /\ k = TransferFrom(Owner, v, Amount) /\ eth[v] >= Amount
    BY <1>0, <1>7, <2>2 DEF Fills
  <2>4. CASE t = Fillings(v)
    <3>1. NeedsFunds(m, t)'
      BY <1>0, <2>1, <2>2, <2>4 DEF NeedsFunds
    <3>2. QED
      BY <3>1 DEF BootAt
  <2>5. CASE t = Filling(v) /\ k = SendETH(Owner, v, Amount)
    <3>1. k.fn = "sendETH" /\ k.to = v /\ k.amount = Amount
      BY <2>5 DEF SendETH
    <3>2. eth'[v] = eth[v] + Amount
      BY <3>1, EffectOnVault
    <3>3. eth'[v] >= Amount
      BY <1>1, <3>2
    <3>4. NeedsFunds(m, t)'
      BY <1>0, <2>1, <2>2, <2>5, <3>3 DEF NeedsFunds
    <3>5. QED
      BY <3>4 DEF BootAt
  <2>6. CASE t = <<>> /\ k = TransferFrom(Owner, v, Amount) /\ eth[v] >= Amount
    <3>1. k.fn = "transferFrom" /\ k.to = v /\ k.amount = Amount
      BY <2>6 DEF TransferFrom
    <3>2. weth'[v] = weth[v] + Amount /\ eth'[v] >= eth[v]
      BY <3>1, EffectOnVault
    <3>3. eth'[v] >= Amount /\ weth'[v] >= Amount
      BY <1>1, <2>6, <3>2
    <3>4. NeedsFunds(m, t)'
      BY <1>0, <2>1, <2>2, <2>6, <3>3 DEF NeedsFunds
    <3>5. QED
      BY <3>4 DEF BootAt
  <2>7. QED
    BY <2>3, <2>4, <2>5, <2>6
<1>8. QED
  BY <1>0, <1>2, <1>3, <1>4, <1>6, <1>7, BootCalls

(***************************************************************************)
(* One process, on a node that mines at once.                              *)
(***************************************************************************)
LEMMA SingleSteps ==
  ASSUME WorkInv, WaitInv, RunInv, [Next]_vars, NEW p \in Processes, Single(p)'
  PROVE  /\ Single(p) /\ UNCHANGED setting
         /\ \/ UNCHANGED <<eth, weth, vaultMap, run, finished, crashes>>
            \/ \E task \in setting.tasks \cup {"create-vault"}, user \in Users : Begins(p, task, user)
            \/ Asks(p) \/ Sends(p) \/ Leaves(p) \/ Ends(p)
<1>1. UNCHANGED setting
  BY StepForms DEF vaultVars, Begins, Asks, Sends, Emits, Leaves, Ends, Mines, Changes, bookkeeping
<1>2. setting.mining = "auto" /\ setting.processes = {p} /\ Single(p)
  BY <1>1 DEF Single
<1>3. pool = <<>>
  BY <1>2 DEF WaitInv
<1>4. \A q \in Processes : ~Emits(q)
  BY <1>2 DEF Emits
<1>5. \A q, succeeds : ~Mines(q, succeeds)
  BY <1>3 DEF Mines
<1>6. \A q \in Processes : run[q] # NoRun => q = p
  BY <1>2 DEF RunInv
<1>7. \A q \in Processes : Asks(q) \/ Sends(q) \/ Leaves(q) \/ Ends(q) => q = p
  BY <1>6, ReadyLive DEF Asks, Sends, Leaves, Ends
<1>8. \A q \in Processes : \A task, user : Begins(q, task, user) =>
        q = p /\ task \in setting.tasks \cup {"create-vault"}
  BY <1>2 DEF Begins
<1>9. CASE UNCHANGED vaultVars
  BY <1>1, <1>2, <1>9 DEF vaultVars, chainVars, bookkeeping
<1>10. CASE Changes
  BY <1>1, <1>2, <1>10 DEF Changes, chainVars, bookkeeping
<1>11. QED
  BY <1>1, <1>2, <1>4, <1>5, <1>7, <1>8, <1>9, <1>10, StepForms

\* What is left of a run, once it has begun.
LEMMA LeftToDo ==
  ASSUME RegistryInv, MoneyInv, WorkInv, RunInv, TodoInv, NEW p \in Processes, Ready(p)
  PROVE  /\ Starts(run[p].todo, NextStep(p), Tail(run[p].todo)) /\ run[p] # NoRun
         /\ run[p].user \in Users /\ run[p].salt \in Salts
         /\ NextStep(p).op = "read" => Answered(p) = Reply(NextStep(p)) /\ SafeSteps(Answered(p))
         /\ NextStep(p).op = "send" => SafeCall(NextStep(p).call)
<1>1. run[p] # NoRun /\ run[p].user \in Users /\ run[p].salt \in 1..drawn
  BY ReadyLive DEF RunInv, Named
<1>2. 1..drawn \subseteq Salts
  BY SaltNumbers DEF Salts
<1>3. Starts(run[p].todo, NextStep(p), Tail(run[p].todo))
  BY DEF Starts, NextStep, WorkInv, SafeRun, SafeSteps, Ready
<1>4. SafeStep(NextStep(p))
  BY LiveSteps
<1>5. ASSUME NextStep(p).op = "read"
      PROVE  Answered(p) = Reply(NextStep(p)) /\ SafeSteps(Answered(p))
  <2>1. PICK x : x = NextStep(p) /\ SafeThen(x.then) /\ SafeRead(x.what, x.of, x.then.then)
    BY <1>4, <1>5 DEF SafeStep
  <2>2. SafeSteps(After(x.then, Value(x.what, x.of)))
    BY <2>1, ValueTyped, AfterSafe
  <2>3. QED
    BY <2>1, <2>2 DEF Answered, Reply
<1>6. QED
  BY <1>1, <1>2, <1>3, <1>4, <1>5 DEF SafeStep

(***************************************************************************)
(* dev:bootstrap-user, alone.                                              *)
(***************************************************************************)
Funded(u) == Topped(u) /\ eth[vaultMap[u]] >= Amount /\ weth[vaultMap[u]] >= Amount
Bootstraps(r) == r.task = "bootstrap-user" /\ r.user # Owner
BootRun(p) ==
  Bootstraps(run[p]) => \A m, todo : m = Plan(run[p]) /\ todo = run[p].todo => BootAt(m, todo)
BootDone(p) == Bootstraps(finished[p]) => \A u : u = finished[p].user => Funded(u)
BootInv == \A p \in Processes : Single(p) => BootRun(p) /\ BootDone(p)

LEMMA PlanFields == \A r : Plan(r).user = r.user /\ Plan(r).salt = r.salt
BY DEF Plan

LEMMA NoneBootstraps == ~Bootstraps(NoRun)
BY FundingAssumption DEF Bootstraps, NoRun, TaskNames

\* Only at its end is nothing left.
LEMMA BootEnds ==
  ASSUME NEW m, BootAt(m, <<>>)
  PROVE  Funded(m.user)
<1>1. \A s, x, t : Starts(s, x, t) => s # <<>>
  BY DEF Starts
<1>2. ~NeedsETH(m, <<>>) /\ ~NeedsWrap(m, <<>>)
  <2>1. \A todo : NeedsETH(m, todo) \/ NeedsWrap(m, todo) => \E x, t : Starts(todo, x, t)
    BY TopPlans DEF NeedsETH, NeedsWrap
  <2>2. QED
    BY <1>1, <2>1
<1>3. ~NeedsWETH(m, <<>>)
  <2>1. ToTop(m) # <<>>
    BY <1>1, TopPlans
  <2>2. \A d : Send(Gift(m.user, d)) \o (Send(Wrap(m.user, d)) \o ToMake(m)) # <<>>
    <3>1. TAKE d
    <3>2. Starts(Send(Gift(m.user, d)) \o (Send(Wrap(m.user, d)) \o ToMake(m)),
                 Sending(Gift(m.user, d), TRUE), Send(Wrap(m.user, d)) \o ToMake(m))
      BY TopPlans
    <3>3. QED
      BY <1>1, <3>2
  <2>3. QED
    BY <2>1, <2>2 DEF NeedsWETH
<1>4. ~NeedsVault(m, <<>>)
  <2>1. ASSUME NEW s, Making(m, s)
        PROVE  s \o AskVault(m) # <<>>
    <3>1. Starts(s, Head(s), Tail(s)) /\ IsSeq(AskVault(m))
      BY <2>1, MakingStarts, FillPlans DEF Starts
    <3>2. Starts(s \o AskVault(m), Head(s), Tail(s) \o AskVault(m))
      BY <3>1, StartsJoined
    <3>3. QED
      BY <1>1, <3>2
  <2>2. QED
    BY <2>1 DEF NeedsVault
<1>5. NeedsFunds(m, <<>>)
  BY <1>2, <1>3, <1>4 DEF BootAt
<1>6. PICK v : v = vaultMap[m.user]
  OBVIOUS
<1>7. /\ AskVault(m) # <<>> /\ CheckAmount \o Fillings(v) # <<>> /\ Fillings(v) # <<>> /\ Filling(v) # <<>>
      /\ \A a : SendOnly(Wrap(Owner, a)) \o Fillings(v) # <<>>
  BY <1>1, FillPlans
<1>8. QED
  BY <1>5, <1>6, <1>7 DEF NeedsFunds, Funded

LEMMA BootGoesOn ==
  ASSUME RegistryInv, MoneyInv, WorkInv, RunInv, TodoInv,
         NEW p \in Processes, Asks(p) \/ Sends(p), BootRun(p)
  PROVE  BootRun(p)'
<1>1. SUFFICES ASSUME Bootstraps(run'[p]), NEW m, m = Plan(run'[p]), NEW todo, todo = run'[p].todo
               PROVE  BootAt(m, todo)'
  BY DEF BootRun
<1>2. /\ Ready(p) /\ DOMAIN run = Processes /\ DOMAIN run[p] = RunFields
      /\ run' = [run EXCEPT ![p] = [run[p] EXCEPT !.todo = run'[p].todo]]
  <2>1. DOMAIN run = Processes /\ DOMAIN run[p] = RunFields
    BY DEF WorkInv, RunInv, Named
  <2>2. PICK d : d = IF Asks(p) THEN Answered(p) \o Tail(run[p].todo) ELSE Tail(run[p].todo)
    OBVIOUS
  <2>3. Ready(p) /\ run' = [run EXCEPT ![p] = [run[p] EXCEPT !.todo = d]]
    BY <2>2 DEF Asks, Sends
  <2>4. run'[p].todo = d
    BY <2>1, <2>3 DEF RunFields
  <2>5. QED
    BY <2>1, <2>3, <2>4
<1>3. PICK x, r, t : x = NextStep(p) /\ r = run[p] /\ t = Tail(r.todo)
  OBVIOUS
<1>4. /\ Starts(r.todo, x, t) /\ r.user \in Users /\ r.salt \in Salts
      /\ x.op = "read" => Answered(p) = Reply(x) /\ SafeSteps(Answered(p))
      /\ x.op = "send" => SafeCall(x.call)
  BY <1>2, <1>3, LeftToDo
<1>a. DOMAIN r = RunFields
  BY <1>2, <1>3
<1>5. SameRun(run'[p], r)
  <2>1. run'[p] = [r EXCEPT !.todo = todo]
    BY <1>1, <1>2, <1>3
  <2>2. QED
    BY <1>a, <2>1 DEF SameRun, RunFields
<1>6. m = Plan(r) /\ m.user = r.user /\ m.salt = r.salt
  <2>1. m = Plan(r)
    BY <1>1, <1>5 DEF Plan, SameRun
  <2>2. QED
    BY <2>1, PlanFields
<1>7. BootAt(m, r.todo) /\ m.user \in Users \ {Owner} /\ m.salt \in Salts
  <2>1. Bootstraps(r)
    BY <1>1, <1>5 DEF Bootstraps, SameRun
  <2>2. QED
    BY <1>3, <1>4, <1>6, <2>1 DEF Bootstraps, BootRun
<1>8. CASE Asks(p)
  <2>1. x.op = "read" /\ UNCHANGED <<eth, weth, vaultMap>>
    BY <1>3, <1>8 DEF Asks, chainVars
  <2>2. todo = Reply(x) \o t
    <3>1. PICK d : d = Answered(p) \o t
      OBVIOUS
    <3>2. run'[p] = [r EXCEPT !.todo = d]
      BY <1>2, <1>3, <1>8, <3>1 DEF Asks
    <3>3. todo = d
      BY <1>1, <1>a, <3>2 DEF RunFields
    <3>4. QED
      BY <1>4, <2>1, <3>1, <3>3
  <2>3. IsSeq(Reply(x))
    BY <1>4, <2>1 DEF SafeSteps
  <2>4. BootAt(m, todo)
    BY <1>4, <1>7, <2>1, <2>2, <2>3, BootAsks
  <2>5. QED
    BY <2>1, <2>4 DEF BootAt, NeedsETH, NeedsWETH, NeedsWrap, NeedsVault, NeedsFunds, Topped, Making
<1>9. CASE Sends(p)
  <2>1. x.op = "send" /\ Execute(x.call)
    BY <1>3, <1>9 DEF Sends
  <2>2. todo = t
    <3>1. run'[p] = [r EXCEPT !.todo = t]
      BY <1>2, <1>3, <1>9 DEF Sends
    <3>2. QED
      BY <1>1, <1>a, <3>1 DEF RunFields
  <2>3. BootAt(m, t)'
    BY <1>4, <1>7, <2>1, BootSends
  <2>4. QED
    BY <2>2, <2>3
<1>10. QED
  BY <1>8, <1>9

LEMMA NextBoot ==
  ASSUME RegistryInv, MoneyInv, WorkInv, WaitInv, RunInv, TodoInv, BootInv, [Next]_vars
  PROVE  BootInv'
<1>1. SUFFICES ASSUME NEW p \in Processes, Single(p)'
               PROVE  BootRun(p)' /\ BootDone(p)'
  BY DEF BootInv
<1>2. Single(p) /\ BootRun(p) /\ BootDone(p) /\ DOMAIN run = Processes /\ DOMAIN finished = Processes
  BY <1>1, SingleSteps DEF BootInv, WorkInv, RunInv
<1>3. CASE UNCHANGED <<eth, weth, vaultMap, run, finished, crashes>>
  <2>1. SUFFICES ASSUME Bootstraps(run'[p]), NEW m, m = Plan(run'[p]), NEW todo, todo = run'[p].todo
                 PROVE  BootAt(m, todo)'
    <3>1. BootDone(p)'
      BY <1>2, <1>3 DEF BootDone, Funded, Topped
    <3>2. QED
      BY <3>1 DEF BootRun
  <2>2. BootAt(m, todo)
    BY <1>2, <1>3, <2>1 DEF BootRun
  <2>3. QED
    BY <1>3, <2>2 DEF BootAt, NeedsETH, NeedsWETH, NeedsWrap, NeedsVault, NeedsFunds, Topped, Making
<1>4. ASSUME NEW task, NEW user \in Users, Begins(p, task, user)
      PROVE  BootRun(p)' /\ BootDone(p)'
  <2>1. PICK s, n, todo : s = run'[p] /\ n = drawn' /\ todo = TaskSteps(task, user, n)
    OBVIOUS
  <2>2. s = [task |-> task, user |-> user, salt |-> n, waiting |-> FALSE, todo |-> todo]
    BY <1>2, <1>4, <2>1 DEF Begins
  <2>3. s.task = task /\ s.user = user /\ s.salt = n /\ s.todo = todo
    BY <2>2
  <2>4. finished'[p] = NoRun
    BY <1>2, <1>4 DEF Begins
  <2>5. ASSUME Bootstraps(s), NEW m, m = Plan(s)
        PROVE  BootAt(m, s.todo)'
    <3>1. m.user = user /\ m.salt = n
      BY <2>3, <2>5, PlanFields
    <3>2. s.todo = BootstrapUser(m.user, m.salt)
      BY <2>1, <2>3, <2>5, <3>1 DEF Bootstraps, TaskSteps
    <3>3. s.todo = AskETH(m) \o ToTop(m)
      BY <3>2, BootstrapPlan
    <3>4. BootAt(m, s.todo)'
      BY <3>3 DEF BootAt, NeedsETH
    <3>5. QED
      BY <3>4
  <2>6. BootRun(p)'
    BY <2>1, <2>5 DEF BootRun
  <2>7. BootDone(p)'
    BY <2>4, NoneBootstraps DEF BootDone
  <2>8. QED
    BY <2>6, <2>7
<1>5. CASE Asks(p) \/ Sends(p)
  <2>1. BootRun(p)'
    BY <1>2, <1>5, BootGoesOn
  <2>2. UNCHANGED finished /\ finished[p] = NoRun
    BY <1>5, ReadyLive DEF Asks, Sends, bookkeeping, RunInv
  <2>3. QED
    BY <2>1, <2>2, NoneBootstraps DEF BootDone
<1>6. CASE Leaves(p)
  <2>1. run'[p] = NoRun /\ finished'[p] = NoRun
    BY <1>2, <1>6 DEF Leaves, RunInv
  <2>2. QED
    BY <2>1, NoneBootstraps DEF BootRun, BootDone
<1>7. CASE Ends(p)
  <2>1. /\ run'[p] = NoRun /\ finished'[p] = run[p] /\ run[p].todo = <<>>
        /\ UNCHANGED <<eth, weth, vaultMap>>
    BY <1>2, <1>7 DEF Ends, chainVars
  <2>2. PICK r, m : r = run[p] /\ m = Plan(r)
    OBVIOUS
  <2>3. Bootstraps(r) => Funded(r.user)
    BY <1>2, <2>1, <2>2, PlanFields, BootEnds DEF BootRun
  <2>4. \A u : Funded(u) => Funded(u)'
    BY <2>1 DEF Funded, Topped
  <2>5. QED
    BY <2>1, <2>2, <2>3, <2>4, NoneBootstraps DEF BootRun, BootDone
<1>8. QED
  BY <1>1, <1>3, <1>4, <1>5, <1>6, <1>7, SingleSteps

\* A finished dev:bootstrap-user leaves a user other than the owner with the
\* target balances and the vault funded, whatever was there when it started.
THEOREM BootstrapReaches == Spec => []BootstrapTopsUp
<1>1. Init => WaitInv /\ BootInv
  <2>1. Init => BootInv
    BY NoneBootstraps DEF Init, BootInv, BootRun, BootDone
  <2>2. QED
    BY <2>1, InitWaits
<1>2. RegistryInv /\ MoneyInv /\ WorkInv /\ RunInv /\ TodoInv /\ PoolInv /\ WaitInv /\ BootInv /\ [Next]_vars
      => WaitInv' /\ BootInv'
  BY StepWaits, NextBoot
<1>3. BootInv => BootstrapTopsUp
  BY DEF BootInv, BootDone, Bootstraps, Funded, Topped, BootstrapTopsUp
<1>4. QED
  BY <1>1, <1>2, <1>3, WorkHolds, PTL DEF Spec

(***************************************************************************)
(* Steps that leave the money of users other than the owner alone.         *)
(***************************************************************************)
QuietThen(then) ==
  \/ then.then \in {"grant", "create"}
  \/ then.then \in {"wrap", "fund"} /\ then.sender = Owner
  \/ then.then \in {"topUpETH", "topUpWETH"} /\ then.user = Owner
QuietStep(x) ==
  /\ x.op = "send" => QuietCall(x.call)
  /\ x.op = "read" => QuietThen(x.then)
QuietSteps(s) == IsSeq(s) /\ \A x \in Items(s) : QuietStep(x)

LEMMA QuietJoined ==
  ASSUME NEW s, NEW t, QuietSteps(s), QuietSteps(t)
  PROVE  QuietSteps(s \o t)
BY ItemsJoined DEF QuietSteps

LEMMA QuietWhen ==
  ASSUME NEW condition, NEW s, condition => QuietSteps(s)
  PROVE  QuietSteps(When(condition, s))
<1>1. QuietSteps(<<>>)
  BY OwnNone, ItemsNone DEF OwnSteps, QuietSteps
<1>2. QED
  BY <1>1 DEF When

LEMMA QuietSend ==
  ASSUME NEW k, QuietCall(k)
  PROVE  QuietSteps(Send(k)) /\ QuietSteps(SendOnly(k))
<1>1. QuietStep([op |-> "send", call |-> k, await |-> TRUE]) /\ QuietStep([op |-> "send", call |-> k, await |-> FALSE])
  BY DEF QuietStep
<1>2. ASSUME NEW x, QuietStep(x)
      PROVE  QuietSteps(<<x>>)
  BY <1>2, ItemsOne DEF QuietSteps
<1>3. QED
  BY <1>1, <1>2 DEF Send, SendOnly

LEMMA QuietRead ==
  ASSUME NEW what, NEW of, NEW then, QuietThen(then)
  PROVE  QuietSteps(Read(what, of, then))
<1>1. QuietStep([op |-> "read", what |-> what, of |-> of, then |-> then])
  BY DEF QuietStep
<1>2. QED
  BY <1>1, ItemsOne DEF QuietSteps, Read

LEMMA QuietFund ==
  ASSUME NEW v \in VaultAddresses \cup {Zero}, NEW amount, NEW sendETH
  PROVE  QuietSteps(Fund(v, amount, Owner, sendETH))
<1>1. QuietCall(SendETH(Owner, v, amount)) /\ QuietCall(TransferFrom(Owner, v, amount))
  BY OwnerCalls
<1>2. QuietThen([then |-> "wrap", amount |-> amount, sender |-> Owner])
  BY DEF QuietThen
<1>3. QuietSteps(Read("weth", Owner, [then |-> "wrap", amount |-> amount, sender |-> Owner]))
  BY <1>2, QuietRead
<1>4. QuietSteps(When(sendETH, Send(SendETH(Owner, v, amount))))
  BY <1>1, QuietSend, QuietWhen
<1>5. QuietSteps(Send(TransferFrom(Owner, v, amount)))
  BY <1>1, QuietSend
<1>6. QED
  BY <1>3, <1>4, <1>5, QuietJoined DEF Fund

\* The owner's money, and vaults created for anybody.
LEMMA QuietTasks ==
  /\ \A user, salt : QuietSteps(CreateVaultTask(user, salt))
  /\ \A salt : QuietSteps(BootstrapUser(Owner, salt))
<1>1. ASSUME NEW user, NEW salt
      PROVE  QuietSteps(CreateVaultTask(user, salt))
  <2>1. QuietThen([then |-> "grant"]) /\ QuietThen([then |-> "create", user |-> user, salt |-> salt])
    BY DEF QuietThen
  <2>2. /\ QuietSteps(Read("computed", [user |-> Owner, salt |-> salt], [then |-> "grant"]))
        /\ QuietSteps(Read("vault", user, [then |-> "create", user |-> user, salt |-> salt]))
    BY <2>1, QuietRead
  <2>3. QED
    BY <2>2, QuietJoined DEF CreateVaultTask
<1>2. ASSUME NEW salt
      PROVE  QuietSteps(BootstrapUser(Owner, salt))
  <2>1. /\ QuietThen([then |-> "topUpETH", user |-> Owner]) /\ QuietThen([then |-> "topUpWETH", user |-> Owner])
        /\ QuietThen([then |-> "fund", sender |-> Owner, sendETH |-> TRUE])
    BY DEF QuietThen
  <2>2. /\ QuietSteps(Read("eth", Owner, [then |-> "topUpETH", user |-> Owner]))
        /\ QuietSteps(Read("weth", Owner, [then |-> "topUpWETH", user |-> Owner]))
        /\ QuietSteps(Read("vault", Owner, [then |-> "fund", sender |-> Owner, sendETH |-> TRUE]))
    BY <2>1, QuietRead
  <2>3. QuietSteps(CreateVaultTask(Owner, salt))
    BY <1>1
  <2>4. QED
    BY <2>2, <2>3, QuietJoined DEF BootstrapUser
<1>3. QED
  BY <1>1, <1>2

LEMMA QuietAfter ==
  ASSUME RegistryInv, NEW x, SafeStep(x), x.op = "read", QuietThen(x.then)
  PROVE  QuietSteps(Reply(x))
<1>1. PICK name, v : name = x.then.then /\ v = Value(x.what, x.of)
  OBVIOUS
<1>2. SafeRead(x.what, x.of, name)
  BY <1>1 DEF SafeStep
<1>3. name \in {"grant", "fund"} => v \in VaultAddresses \cup {Zero}
  BY <1>1, <1>2, VaultAtAddress DEF SafeRead, OfNumber, Value, RegistryInv
<1>4. CASE name = "grant"
  <2>1. Reply(x) = Fund(v, Grant, Owner, TRUE)
    BY <1>1, <1>4 DEF Reply, After
  <2>2. QED
    BY <1>3, <1>4, <2>1, QuietFund
<1>5. CASE name = "create"
  <2>1. PICK u, n : u = x.then.user /\ n = x.then.salt
    OBVIOUS
  <2>2. Reply(x) = When(v = Zero, Send(CreateVault(u, n)))
    BY <1>1, <1>5, <2>1 DEF Reply, After, CreateIfNone
  <2>3. QuietSteps(Send(CreateVault(u, n)))
    BY OwnerCalls, QuietSend
  <2>4. QED
    BY <2>2, <2>3, QuietWhen
<1>6. CASE name = "wrap"
  <2>1. PICK a : a = x.then.amount - v
    OBVIOUS
  <2>2. x.then.sender = Owner
    BY <1>1, <1>6 DEF QuietThen
  <2>3. Reply(x) = When(v < x.then.amount, SendOnly(Wrap(Owner, a)))
    BY <1>1, <1>6, <2>1, <2>2 DEF Reply, After
  <2>4. QuietSteps(SendOnly(Wrap(Owner, a)))
    BY OwnerCalls, QuietSend
  <2>5. QED
    BY <2>3, <2>4, QuietWhen
<1>7. CASE name = "fund"
  <2>1. x.then.sender = Owner
    BY <1>1, <1>7 DEF QuietThen
  <2>2. Reply(x) = Fund(v, Amount, Owner, x.then.sendETH)
    BY <1>1, <1>7, <2>1 DEF Reply, After
  <2>3. QED
    BY <1>3, <1>7, <2>2, QuietFund
<1>8. \A d : QuietSteps(Send(SendETH(Owner, Owner, d))) /\ QuietSteps(Send(Wrap(Owner, d)))
  <2>1. \A d : QuietCall(SendETH(Owner, Owner, d)) /\ QuietCall(Wrap(Owner, d))
    BY DEF QuietCall, SendETH, Wrap
  <2>2. QED
    BY <2>1, QuietSend
<1>9. CASE name = "topUpETH"
  <2>1. x.then.user = Owner
    BY <1>1, <1>9 DEF QuietThen
  <2>2. Reply(x) = When(v < Target, Send(SendETH(Owner, Owner, Target - v)))
    BY <1>1, <1>9, <2>1 DEF Reply, After
  <2>3. QED
    BY <1>8, <2>2, QuietWhen
<1>10. CASE name = "topUpWETH"
  <2>1. x.then.user = Owner
    BY <1>1, <1>10 DEF QuietThen
  <2>2. Reply(x) = When(v < Target, Send(SendETH(Owner, Owner, Target - v)) \o Send(Wrap(Owner, Target - v)))
    BY <1>1, <1>10, <2>1 DEF Reply, After, DepositWETH
  <2>3. QuietSteps(Send(SendETH(Owner, Owner, Target - v)) \o Send(Wrap(Owner, Target - v)))
    BY <1>8, QuietJoined
  <2>4. QED
    BY <2>2, <2>3, QuietWhen
<1>11. QED
  BY <1>1, <1>4, <1>5, <1>6, <1>7, <1>9, <1>10 DEF QuietThen

(***************************************************************************)
(* How far dev:poc has come, with these steps left: it wraps only for a    *)
(* vault that it created, so once.                                         *)
(***************************************************************************)
PocLook == Read("vault", Bob, [then |-> "pocVault", salt |-> Fixed])
PocBegin == Read("computed", [user |-> Bob, salt |-> Fixed], [then |-> "firstPayment"]) \o PocLook
PocSpend(v) == SendOnly(SendETH(Bob, v, Amount)) \o PocLook
PocPay(v) == Send(SendETH(Owner, v, Grant)) \o PocSpend(v)
PocAsk == Read("vault", Bob, [then |-> "pocFill"])
PocMake == Send(CreateVault(Bob, Fixed)) \o PocAsk
PocFill(v) == SendOnly(TransferFrom(Bob, v, Amount))
PocWrap(v) == SendOnly(Wrap(Bob, PocDeposit)) \o PocFill(v)

PocPays(todo) ==
  \/ todo = PocBegin \/ todo = PocLook
  \/ \E v \in VaultAddresses : todo = PocPay(v) \/ todo = PocSpend(v)
PocMakes(todo) ==
  /\ weth[Bob] <= Target
  /\ \/ todo = PocMake
     \/ /\ vaultMap[Bob] # Zero
        /\ todo = PocAsk \/ \E v \in VaultAddresses \cup {Zero} : todo = PocWrap(v)
PocEnds(todo) == todo = <<>> \/ \E v \in VaultAddresses \cup {Zero} : todo = PocFill(v)
PocAt(todo) == PocPays(todo) \/ PocMakes(todo) \/ PocEnds(todo)
\* Bob has more WETH than dev:bootstrap-user gives him only after that.
Once == vaultMap[Bob] = Zero => weth[Bob] <= Target

LEMMA PocPlans ==
  /\ Starts(PocLook, Reading("vault", Bob, [then |-> "pocVault", salt |-> Fixed]), <<>>)
  /\ Starts(PocBegin, Reading("computed", [user |-> Bob, salt |-> Fixed], [then |-> "firstPayment"]), PocLook)
  /\ Starts(PocAsk, Reading("vault", Bob, [then |-> "pocFill"]), <<>>)
  /\ Starts(PocMake, Sending(CreateVault(Bob, Fixed), TRUE), PocAsk)
  /\ \A v : /\ Starts(PocSpend(v), Sending(SendETH(Bob, v, Amount), FALSE), PocLook)
            /\ Starts(PocPay(v), Sending(SendETH(Owner, v, Grant), TRUE), PocSpend(v))
            /\ Starts(PocFill(v), Sending(TransferFrom(Bob, v, Amount), FALSE), <<>>)
            /\ Starts(PocWrap(v), Sending(Wrap(Bob, PocDeposit), FALSE), PocFill(v))
<1>1. /\ Starts(PocLook, Reading("vault", Bob, [then |-> "pocVault", salt |-> Fixed]), <<>>)
      /\ Starts(PocAsk, Reading("vault", Bob, [then |-> "pocFill"]), <<>>)
      /\ \A v : Starts(PocFill(v), Sending(TransferFrom(Bob, v, Amount), FALSE), <<>>)
  BY StartsAlone DEF PocLook, PocAsk, PocFill
<1>2. IsSeq(PocLook) /\ IsSeq(PocAsk) /\ \A v : IsSeq(PocFill(v))
  BY <1>1 DEF Starts
<1>3. /\ Starts(PocBegin, Reading("computed", [user |-> Bob, salt |-> Fixed], [then |-> "firstPayment"]), PocLook)
      /\ Starts(PocMake, Sending(CreateVault(Bob, Fixed), TRUE), PocAsk)
  BY <1>2, StartsWith DEF PocBegin, PocMake
<1>4. \A v : /\ Starts(PocSpend(v), Sending(SendETH(Bob, v, Amount), FALSE), PocLook)
             /\ Starts(PocWrap(v), Sending(Wrap(Bob, PocDeposit), FALSE), PocFill(v))
  BY <1>2, StartsWith DEF PocSpend, PocWrap
<1>5. \A v : IsSeq(PocSpend(v))
  BY <1>4 DEF Starts
<1>6. \A v : Starts(PocPay(v), Sending(SendETH(Owner, v, Grant), TRUE), PocSpend(v))
  BY <1>5, StartsWith DEF PocPay
<1>7. QED
  BY <1>1, <1>3, <1>4, <1>6

LEMMA PocAfter ==
  /\ \A v : After([then |-> "firstPayment"], v) \o PocLook = PocPay(v)
  /\ \A v : After([then |-> "pocVault", salt |-> Fixed], v) \o <<>> = IF v = Zero THEN PocMake ELSE <<>>
  /\ \A v : After([then |-> "pocFill"], v) \o <<>> = PocWrap(v)
<1>1. IsSeq(PocLook) /\ IsSeq(PocMake) /\ IsSeq(<<>>) /\ \A v : IsSeq(PocWrap(v))
  BY PocPlans, OwnNone DEF Starts, OwnSteps
<1>2. ASSUME NEW v
      PROVE  After([then |-> "firstPayment"], v) \o PocLook = PocPay(v)
  <2>1. PICK a, b, c : a = Send(SendETH(Owner, v, Grant)) /\ b = SendOnly(SendETH(Bob, v, Amount)) /\ c = PocLook
    OBVIOUS
  <2>2. After([then |-> "firstPayment"], v) = a \o b
    BY <2>1 DEF After
  <2>3. IsSeq(a) /\ IsSeq(b) /\ IsSeq(c)
    BY <1>1, <2>1, StartsAlone DEF Starts
  <2>4. (a \o b) \o c = a \o (b \o c)
    BY <2>3, Joins
  <2>5. QED
    BY <2>1, <2>2, <2>4 DEF PocPay, PocSpend
<1>3. ASSUME NEW v
      PROVE  After([then |-> "pocVault", salt |-> Fixed], v) \o <<>> = IF v = Zero THEN PocMake ELSE <<>>
  <2>1. After([then |-> "pocVault", salt |-> Fixed], v) = IF v = Zero THEN PocMake ELSE <<>>
    BY DEF After, When, PocMake, PocAsk
  <2>2. PocMake \o <<>> = PocMake /\ <<>> \o <<>> = <<>>
    BY <1>1, NoneFirst
  <2>3. QED
    BY <2>1, <2>2
<1>4. ASSUME NEW v
      PROVE  After([then |-> "pocFill"], v) \o <<>> = PocWrap(v)
  <2>1. After([then |-> "pocFill"], v) = PocWrap(v)
    BY DEF After, PocWrap, PocFill
  <2>2. PICK s : s = PocWrap(v) /\ IsSeq(s)
    BY <1>1
  <2>3. s \o <<>> = s
    BY <2>2, NoneFirst
  <2>4. QED
    BY <2>1, <2>2, <2>3
<1>5. QED
  BY <1>2, <1>3, <1>4

LEMMA PocAsks ==
  ASSUME RegistryInv, Once, NEW todo, PocAt(todo), NEW x, NEW t, Starts(todo, x, t), x.op = "read"
  PROVE  PocAt(Reply(x) \o t)
<1>0. x = Head(todo) /\ t = Tail(todo) /\ todo # <<>> /\ Bob \in Users /\ Fixed \in Salts
  BY AddressTypes DEF Starts
<1>1. /\ \A v : todo # PocPay(v) /\ todo # PocSpend(v) /\ todo # PocFill(v) /\ todo # PocWrap(v)
      /\ todo # PocMake
  <2>1. ASSUME NEW q, NEW k, NEW await, NEW r, Starts(q, Sending(k, await), r)
        PROVE  todo # q
    BY <1>0, <2>1, OpOf
  <2>2. \A v : todo # PocPay(v) /\ todo # PocSpend(v) /\ todo # PocFill(v) /\ todo # PocWrap(v)
    BY <2>1, PocPlans
  <2>3. todo # PocMake
    BY <2>1, PocPlans
  <2>4. QED
    BY <2>2, <2>3
<1>2. CASE todo = PocBegin
  <2>1. x = Reading("computed", [user |-> Bob, salt |-> Fixed], [then |-> "firstPayment"]) /\ t = PocLook
    BY <1>0, <1>2, PocPlans DEF Starts
  <2>2. PICK v \in VaultAddresses : v = VaultAt(Bob, Fixed)
    BY <1>0, VaultAtAddress DEF RegistryInv
  <2>3. Reply(x) = After([then |-> "firstPayment"], v)
    BY <2>1, <2>2, ReadFields, ValueOf
  <2>4. Reply(x) \o t = PocPay(v)
    BY <2>1, <2>3, PocAfter
  <2>5. QED
    BY <2>2, <2>4 DEF PocAt, PocPays
<1>3. CASE todo = PocLook
  <2>1. x = Reading("vault", Bob, [then |-> "pocVault", salt |-> Fixed]) /\ t = <<>>
    BY <1>0, <1>3, PocPlans DEF Starts
  <2>2. Reply(x) = After([then |-> "pocVault", salt |-> Fixed], vaultMap[Bob])
    BY <2>1, ReadFields, ValueOf
  <2>3. Reply(x) \o t = IF vaultMap[Bob] = Zero THEN PocMake ELSE <<>>
    BY <2>1, <2>2, PocAfter
  <2>4. QED
    BY <2>3 DEF PocAt, PocMakes, PocEnds, Once
<1>4. CASE todo = PocAsk /\ weth[Bob] <= Target /\ vaultMap[Bob] # Zero
  <2>1. x = Reading("vault", Bob, [then |-> "pocFill"]) /\ t = <<>>
    BY <1>0, <1>4, PocPlans DEF Starts
  <2>2. Reply(x) = After([then |-> "pocFill"], vaultMap[Bob])
    BY <2>1, ReadFields, ValueOf
  <2>3. Reply(x) \o t = PocWrap(vaultMap[Bob])
    BY <2>1, <2>2, PocAfter
  <2>4. vaultMap[Bob] \in VaultAddresses \cup {Zero}
    BY <1>0 DEF RegistryInv
  <2>5. QED
    BY <1>4, <2>3, <2>4 DEF PocAt, PocMakes
<1>5. QED
  BY <1>0, <1>1, <1>2, <1>3, <1>4 DEF PocAt, PocPays, PocMakes, PocEnds

\* What Bob spends on a vault.
LEMMA SpendEffect ==
  ASSUME RegistryInv, MoneyInv, NEW v \in VaultAddresses \cup {Zero}, NEW k, SafeCall(k), Execute(k),
         k = SendETH(Bob, v, Amount) \/ k = TransferFrom(Bob, v, Amount), NEW u \in Users \ {Owner}
  PROVE  eth'[u] <= eth[u] /\ weth'[u] <= weth[u]
<1>0. /\ eth \in [Addresses -> Nat] /\ weth \in [Addresses -> Nat] /\ u \in Addresses /\ Bob \in Addresses
      /\ v \in Addresses /\ u # v /\ eth[u] \in Nat /\ weth[u] \in Nat /\ Amount \in Nat
  BY AddressTypes, FundingAssumption DEF MoneyInv, Addresses
<1>1. k.fn \in {"sendETH", "transferFrom"} /\ k.from = Bob /\ k.to = v /\ k.amount = Amount
  BY DEF SendETH, TransferFrom
<1>2. CASE k.fn = "sendETH"
  <2>1. eth' = [eth EXCEPT ![Bob] = @ - Amount, ![v] = @ + Amount] /\ UNCHANGED weth
    BY <1>1, <1>2 DEF Execute, ExecuteSendETH, ExecuteWETH9, ExecuteCreateVault
  <2>2. eth'[u] = IF u = Bob THEN eth[u] - Amount ELSE eth[u]
    BY <1>0, <2>1
  <2>3. QED
    BY <1>0, <2>1, <2>2
<1>3. CASE k.fn = "transferFrom"
  <2>1. weth' = [weth EXCEPT ![Bob] = @ - Amount, ![v] = @ + Amount] /\ UNCHANGED eth
    BY <1>1, <1>3 DEF Execute, ExecuteSendETH, ExecuteWETH9, ExecuteCreateVault
  <2>2. weth'[u] = IF u = Bob THEN weth[u] - Amount ELSE weth[u]
    BY <1>0, <2>1
  <2>3. QED
    BY <1>0, <2>1, <2>2
<1>4. QED
  BY <1>1, <1>2, <1>3

\* A call leaves users with no more than they had, or is the one deposit.
Spends(u) == eth'[u] <= eth[u] /\ weth'[u] <= weth[u]
Deposits(u) == /\ u = Bob /\ vaultMap'[Bob] # Zero /\ eth'[u] <= eth[u]
               /\ weth'[u] <= Target + PocDeposit
LEMMA PocSends ==
  ASSUME RegistryInv, MoneyInv, NEW todo, PocAt(todo), NEW x, NEW t, Starts(todo, x, t), x.op = "send",
         NEW k, k = x.call, SafeCall(k), Execute(k)
  PROVE  PocAt(t)' /\ \A u \in Users \ {Owner} : Spends(u) \/ Deposits(u)
<1>0. /\ x = Head(todo) /\ t = Tail(todo) /\ todo # <<>> /\ Bob \in Users \ {Owner}
      /\ PocDeposit \in Nat /\ Target \in Nat
      /\ \A u \in Users : eth[u] \in Nat /\ weth[u] \in Nat
  BY AddressTypes, FundingAssumption DEF Starts, MoneyInv, Addresses
<1>1. \A u \in Users \ {Owner} : eth'[u] = eth[u] /\ weth'[u] = weth[u] => Spends(u)
  BY <1>0 DEF Spends
<1>2. todo # PocBegin /\ todo # PocLook /\ todo # PocAsk
  <2>1. ASSUME NEW q, NEW what, NEW of, NEW then, NEW r, Starts(q, Reading(what, of, then), r)
        PROVE  todo # q
    BY <1>0, <2>1, OpOf
  <2>2. QED
    BY <2>1, PocPlans
<1>3. ASSUME NEW v \in VaultAddresses, todo = PocPay(v)
      PROVE  PocAt(t)' /\ \A u \in Users \ {Owner} : Spends(u)
  <2>1. x = Sending(SendETH(Owner, v, Grant), TRUE) /\ t = PocSpend(v)
    BY <1>0, <1>3, PocPlans DEF Starts
  <2>2. k = SendETH(Owner, v, Grant)
    BY <2>1, SendFields
  <2>3. QuietCall(k)
    BY <2>2, OwnerCalls
  <2>4. \A u \in Users \ {Owner} : Spends(u)
    BY <1>1, <2>3, QuietEffect
  <2>5. QED
    BY <2>1, <2>4 DEF PocAt, PocPays
<1>4. ASSUME NEW v \in VaultAddresses, todo = PocSpend(v)
      PROVE  PocAt(t)' /\ \A u \in Users \ {Owner} : Spends(u)
  <2>1. x = Sending(SendETH(Bob, v, Amount), FALSE) /\ t = PocLook
    BY <1>0, <1>4, PocPlans DEF Starts
  <2>2. k = SendETH(Bob, v, Amount)
    BY <2>1, SendFields
  <2>3. \A u \in Users \ {Owner} : Spends(u)
    BY <2>2, SpendEffect DEF Spends
  <2>4. QED
    BY <2>1, <2>3 DEF PocAt, PocPays
<1>5. CASE todo = PocMake /\ weth[Bob] <= Target
  <2>1. x = Sending(CreateVault(Bob, Fixed), TRUE) /\ t = PocAsk
    BY <1>0, <1>5, PocPlans DEF Starts
  <2>2. k = CreateVault(Bob, Fixed)
    BY <2>1, SendFields
  <2>3. QuietCall(k)
    BY <2>2, OwnerCalls
  <2>4. \A u \in Users \ {Owner} : eth'[u] = eth[u] /\ weth'[u] = weth[u]
    BY <2>3, QuietEffect
  <2>5. vaultMap'[Bob] # Zero /\ weth'[Bob] <= Target
    BY <1>0, <1>5, <2>2, <2>4, VaultEffect
  <2>6. QED
    BY <1>1, <2>1, <2>4, <2>5 DEF PocAt, PocMakes
<1>6. ASSUME NEW v \in VaultAddresses \cup {Zero}, todo = PocWrap(v), weth[Bob] <= Target, vaultMap[Bob] # Zero
      PROVE  PocAt(t)' /\ \A u \in Users \ {Owner} : Spends(u) \/ Deposits(u)
  <2>1. x = Sending(Wrap(Bob, PocDeposit), FALSE) /\ t = PocFill(v)
    BY <1>0, <1>6, PocPlans DEF Starts
  <2>2. k = Wrap(Bob, PocDeposit)
    BY <2>1, SendFields
  <2>3. /\ eth'[Bob] = eth[Bob] - PocDeposit /\ weth'[Bob] = weth[Bob] + PocDeposit /\ UNCHANGED vaultMap
        /\ \A u \in Users \ {Bob} : eth'[u] = eth[u] /\ weth'[u] = weth[u]
    BY <1>0, <2>2, WrapEffect
  <2>4. eth'[Bob] <= eth[Bob] /\ weth'[Bob] <= Target + PocDeposit
    BY <1>0, <1>6, <2>3
  <2>5. Deposits(Bob)
    BY <1>6, <2>3, <2>4 DEF Deposits
  <2>6. QED
    BY <1>1, <2>1, <2>3, <2>5 DEF PocAt, PocEnds
<1>7. ASSUME NEW v \in VaultAddresses \cup {Zero}, todo = PocFill(v)
      PROVE  PocAt(t)' /\ \A u \in Users \ {Owner} : Spends(u)
  <2>1. x = Sending(TransferFrom(Bob, v, Amount), FALSE) /\ t = <<>>
    BY <1>0, <1>7, PocPlans DEF Starts
  <2>2. k = TransferFrom(Bob, v, Amount)
    BY <2>1, SendFields
  <2>3. \A u \in Users \ {Owner} : Spends(u)
    BY <2>2, SpendEffect DEF Spends
  <2>4. QED
    BY <2>1, <2>3 DEF PocAt, PocEnds
<1>8. QED
  BY <1>0, <1>2, <1>3, <1>4, <1>5, <1>6, <1>7 DEF PocAt, PocPays, PocMakes, PocEnds

(***************************************************************************)
(* What a user other than the owner can have. For each crash a target more *)
(* than before: the ETH that was sent to be wrapped and was not.           *)
(***************************************************************************)
Extra == crashes * Target
Held(u) == eth[u] <= Had(u) + Extra
Due(u, todo) ==
  \E m : \E d \in Nat :
    /\ m.user = u /\ todo = Send(Wrap(u, d)) \o ToMake(m)
    /\ weth[u] + d = Target /\ eth[u] >= d /\ eth[u] <= Had(u) + Extra + d
Within(u, todo) == weth[u] <= Target + Wrapped(u) /\ (Held(u) \/ Due(u, todo))

LEMMA Limits ==
  ASSUME crashes \in Nat, NEW u \in Users
  PROVE  /\ Target \in Nat /\ Had(u) \in Nat /\ Had(u) >= Target /\ Wrapped(u) \in Nat /\ Extra \in Nat
         /\ u = Bob => Wrapped(u) = PocDeposit
         /\ crashes' = crashes + 1 => Extra' = Extra + Target
<1>1. Target \in Nat /\ BobETH \in Nat /\ PocDeposit \in Nat
  BY FundingAssumption
<1>2. Had(u) \in Nat /\ Had(u) >= Target /\ Wrapped(u) \in Nat
  BY <1>1 DEF Had, Wrapped
<1>3. crashes * Target \in Nat /\ (crashes + 1) * Target = crashes * Target + Target
  BY <1>1
<1>4. QED
  BY <1>1, <1>2, <1>3 DEF Extra, Wrapped

LEMMA DueWraps ==
  ASSUME NEW u, NEW todo, Due(u, todo)
  PROVE  \E d \in Nat : /\ \E t : Starts(todo, Sending(Wrap(u, d), TRUE), t)
                        /\ weth[u] + d = Target /\ eth[u] >= d /\ eth[u] <= Had(u) + Extra + d
<1>1. PICK m, d : /\ d \in Nat /\ m.user = u /\ todo = Send(Wrap(u, d)) \o ToMake(m)
                  /\ weth[u] + d = Target /\ eth[u] >= d /\ eth[u] <= Had(u) + Extra + d
  BY DEF Due
<1>2. Starts(todo, Sending(Wrap(u, d), TRUE), ToMake(m))
  BY <1>1, TopPlans
<1>3. QED
  BY <1>1, <1>2

\* What a call leaves a user with, when the steps t are left.
Reaches(u) == eth'[u] = Target /\ weth'[u] = weth[u]
Receives(u, t) ==
  \E m : \E d \in Nat :
    /\ m.user = u /\ t = Send(Wrap(u, d)) \o ToMake(m)
    /\ weth[u] + d = Target /\ eth'[u] = eth[u] + d /\ weth'[u] = weth[u]
Converts(u) == eth'[u] <= eth[u] /\ weth'[u] = Target
Outcome(u, t) == Spends(u) \/ Deposits(u) \/ Reaches(u) \/ Receives(u, t) \/ Converts(u)

LEMMA QuietOutcome ==
  ASSUME RegistryInv, MoneyInv, NEW k, SafeCall(k), Execute(k), QuietCall(k), NEW u \in Users \ {Owner}
  PROVE  Spends(u)
<1>1. eth[u] \in Nat /\ weth[u] \in Nat
  BY AddressTypes DEF MoneyInv
<1>2. QED
  BY <1>1, QuietEffect DEF Spends

LEMMA BootOutcome ==
  ASSUME RegistryInv, MoneyInv, NEW m, m.user \in Users \ {Owner}, NEW todo, BootAt(m, todo),
         NEW x, NEW t, Starts(todo, x, t), x.op = "send", NEW k, k = x.call, SafeCall(k), Execute(k),
         NEW u \in Users \ {Owner}
  PROVE  Outcome(u, t)
<1>0. PICK w \in Users \ {Owner} : w = m.user
  OBVIOUS
<1>1. /\ Target \in Nat /\ eth[u] \in Nat /\ weth[u] \in Nat /\ eth[w] \in Nat /\ weth[w] \in Nat
      /\ eth'[u] = eth[u] /\ weth'[u] = weth[u] => Spends(u)
  BY <1>0, AddressTypes DEF MoneyInv, Spends
<1>2. CASE GivesETH(m, k, t)
  <2>1. PICK d \in Nat : k = Gift(w, d) /\ eth[w] + d = Target
    BY <1>0, <1>2 DEF GivesETH
  <2>2. eth'[w] = Target /\ UNCHANGED weth /\ \A q \in Users \ {Owner, w} : eth'[q] = eth[q]
    BY <2>1, GiftEffect
  <2>3. QED
    BY <1>1, <2>2 DEF Outcome, Reaches
<1>3. CASE GivesWETH(m, k, t)
  <2>1. PICK d \in Nat : k = Gift(w, d) /\ t = Send(Wrap(w, d)) \o ToMake(m) /\ weth[w] + d = Target
    BY <1>0, <1>3 DEF GivesWETH
  <2>2. eth'[w] = eth[w] + d /\ UNCHANGED weth /\ \A q \in Users \ {Owner, w} : eth'[q] = eth[q]
    BY <2>1, GiftEffect
  <2>3. CASE u = w
    <3>1. Receives(u, t)
      BY <1>0, <2>1, <2>2, <2>3 DEF Receives
    <3>2. QED
      BY <3>1 DEF Outcome
  <2>4. CASE u # w
    BY <1>1, <2>2, <2>4 DEF Outcome
  <2>5. QED
    BY <2>3, <2>4
<1>4. CASE Wraps(m, todo, k, t)
  <2>1. PICK d \in Nat : k = Wrap(w, d) /\ weth[w] + d = Target
    BY <1>0, <1>4 DEF Wraps
  <2>2. /\ eth'[w] = eth[w] - d /\ weth'[w] = weth[w] + d
        /\ \A q \in Users \ {w} : eth'[q] = eth[q] /\ weth'[q] = weth[q]
    BY <2>1, WrapEffect
  <2>3. eth'[w] <= eth[w] /\ weth'[w] = Target
    BY <1>1, <2>1, <2>2
  <2>4. QED
    BY <1>1, <2>2, <2>3 DEF Outcome, Converts
<1>5. CASE GoesOn(m, k, t) \/ Fills(m, k, t)
  <2>1. QuietCall(k)
    BY <1>5 DEF GoesOn, Fills
  <2>2. QED
    BY <2>1, QuietOutcome DEF Outcome
<1>6. QED
  BY <1>0, <1>2, <1>3, <1>4, <1>5, BootCalls

\* A call keeps the limits.
LEMMA OutcomeKeeps ==
  ASSUME RegistryInv, MoneyInv, crashes \in Nat, UNCHANGED crashes,
         NEW todo, NEW x, NEW t, Starts(todo, x, t), x.op = "send", NEW k, k = x.call,
         SafeCall(k), Execute(k), NEW u \in Users \ {Owner}, Within(u, todo), Outcome(u, t)
  PROVE  Within(u, t)'
<1>0. /\ eth[u] \in Nat /\ weth[u] \in Nat /\ eth'[u] \in Nat /\ weth'[u] \in Nat
      /\ u = Bob => Wrapped(u) = PocDeposit
  BY ExecuteMoney, AddressTypes, Limits DEF MoneyInv, Addresses
<1>1. PICK h, w, e : /\ h = Had(u) /\ w = Wrapped(u) /\ e = Extra /\ h \in Nat /\ w \in Nat /\ e \in Nat
                     /\ h >= Target /\ Target \in Nat
  BY Limits
<1>2. Had(u)' = h /\ Wrapped(u)' = w /\ Extra' = e
  BY <1>1 DEF Had, Wrapped, Extra
<1>3. CASE Due(u, todo)
  <2>1. PICK d \in Nat : /\ \E r : Starts(todo, Sending(Wrap(u, d), TRUE), r)
                         /\ weth[u] + d = Target /\ eth[u] >= d /\ eth[u] <= h + e + d
    BY <1>1, <1>3, DueWraps
  <2>2. x = Sending(Wrap(u, d), TRUE)
    BY <2>1 DEF Starts
  <2>3. k = Wrap(u, d)
    BY <2>2, SendFields
  <2>4. eth'[u] = eth[u] - d /\ weth'[u] = weth[u] + d
    BY <2>3, WrapEffect
  <2>5. weth'[u] <= Target + w /\ eth'[u] <= h + e
    BY <1>0, <1>1, <2>1, <2>4
  <2>6. QED
    BY <1>2, <2>5 DEF Within, Held
<1>4. CASE Held(u)
  <2>1. weth[u] <= Target + w /\ eth[u] <= h + e
    BY <1>1, <1>4 DEF Held, Within
  <2>2. CASE Spends(u) \/ Deposits(u) \/ Reaches(u) \/ Converts(u)
    <3>1. weth'[u] <= Target + w /\ eth'[u] <= h + e
      BY <1>0, <1>1, <2>1, <2>2 DEF Spends, Deposits, Reaches, Converts
    <3>2. QED
      BY <1>2, <3>1 DEF Within, Held
  <2>3. CASE Receives(u, t)
    <3>1. PICK m, d : /\ d \in Nat /\ m.user = u /\ t = Send(Wrap(u, d)) \o ToMake(m)
                      /\ weth[u] + d = Target /\ eth'[u] = eth[u] + d /\ weth'[u] = weth[u]
      BY <2>3 DEF Receives
    <3>2. /\ weth'[u] + d = Target /\ eth'[u] >= d /\ eth'[u] <= h + e + d
          /\ weth'[u] <= Target + w
      BY <1>0, <1>1, <2>1, <3>1
    <3>3. Due(u, t)'
      BY <1>2, <3>1, <3>2 DEF Due
    <3>4. QED
      BY <1>2, <3>2, <3>3 DEF Within
  <2>4. QED
    BY <2>2, <2>3 DEF Outcome
<1>5. QED
  BY <1>3, <1>4 DEF Within

LEMMA OutcomeOnce ==
  ASSUME RegistryInv, MoneyInv, NEW k, SafeCall(k), Execute(k), Once, NEW t, Outcome(Bob, t)
  PROVE  Once'
<1>1. SUFFICES ASSUME vaultMap'[Bob] = Zero
               PROVE  weth'[Bob] <= Target
  BY DEF Once
<1>2. Bob \in Users /\ weth[Bob] \in Nat /\ weth'[Bob] \in Nat /\ Target \in Nat
  BY ExecuteMoney, AddressTypes DEF MoneyInv, Addresses
<1>3. weth[Bob] <= Target
  BY <1>1, <1>2, VaultEffect DEF Once
<1>4. weth'[Bob] <= weth[Bob] \/ weth'[Bob] = Target
  BY <1>1, <1>2 DEF Outcome, Spends, Deposits, Reaches, Receives, Converts
<1>5. QED
  BY <1>2, <1>3, <1>4

Giving(p) == Single(p) /\ setting.tasks \subseteq {"create-vault", "poc", "bootstrap-user"}
Kind(r, todo) == PocAt(todo) \/ QuietSteps(todo) \/ Bootstraps(r)
CapInv ==
  /\ crashes \in Nat
  /\ \A p \in Processes : Giving(p) =>
       /\ Once
       /\ \A todo : todo = run[p].todo => /\ Kind(run[p], todo)
                                          /\ \A u \in Users \ {Owner} : Within(u, todo)

LEMMA NothingLeft == PocAt(<<>>) /\ NoRun.todo = <<>>
BY DEF PocAt, PocEnds, NoRun

LEMMA QuietTail ==
  ASSUME NEW todo, NEW x, NEW t, Starts(todo, x, t), QuietSteps(todo)
  PROVE  QuietStep(x) /\ QuietSteps(t)
BY ItemsTail DEF Starts, QuietSteps

\* A task begins.
LEMMA BeginsKind ==
  ASSUME NEW p \in Processes, Giving(p), NEW task \in setting.tasks \cup {"create-vault"}, NEW user \in Users,
         NEW n, NEW r, r.task = task, r.user = user
  PROVE  Kind(r, TaskSteps(task, user, n))
<1>1. task \in {"create-vault", "poc", "bootstrap-user"}
  BY DEF Giving
<1>2. CASE task = "create-vault"
  <2>1. TaskSteps(task, user, n) = CreateVaultTask(user, n)
    BY <1>2 DEF TaskSteps
  <2>2. QED
    BY <2>1, QuietTasks DEF Kind
<1>3. CASE task = "poc"
  <2>1. TaskSteps(task, user, n) = PocBegin
    BY <1>3 DEF TaskSteps, Poc, PocBegin, PocLook
  <2>2. QED
    BY <2>1 DEF Kind, PocAt, PocPays
<1>4. CASE task = "bootstrap-user" /\ user = Owner
  <2>1. TaskSteps(task, user, n) = BootstrapUser(Owner, n)
    BY <1>4 DEF TaskSteps
  <2>2. QED
    BY <2>1, QuietTasks DEF Kind
<1>5. CASE task = "bootstrap-user" /\ user # Owner
  BY <1>5 DEF Kind, Bootstraps
<1>6. QED
  BY <1>1, <1>2, <1>3, <1>4, <1>5

\* The limits hold where nothing is due.
LEMMA KeptIfHeld ==
  ASSUME NEW u, NEW todo, Within(u, todo), ~Due(u, todo), NEW t, UNCHANGED <<eth, weth, crashes>>
  PROVE  Within(u, t)'
<1>1. weth[u] <= Target + Wrapped(u) /\ eth[u] <= Had(u) + Extra
  BY DEF Within, Held
<1>2. QED
  BY <1>1 DEF Within, Held, Had, Wrapped, Extra

\* A run ends early.
LEMMA KeptWhenLeft ==
  ASSUME MoneyInv, crashes \in Nat, NEW p \in Processes,
         NEW u \in Users \ {Owner}, NEW todo, todo = run[p].todo, Within(u, todo), NEW t,
         crashes' = crashes + 1 \/ (Fails(p) /\ UNCHANGED crashes), UNCHANGED <<eth, weth>>
  PROVE  Within(u, t)'
<1>0. eth[u] \in Nat /\ weth[u] \in Nat
  BY AddressTypes DEF MoneyInv
<1>1. PICK h, w, e : /\ h = Had(u) /\ w = Wrapped(u) /\ e = Extra /\ h \in Nat /\ w \in Nat /\ e \in Nat
                     /\ h >= Target /\ Target \in Nat
  BY Limits
<1>2. Had(u)' = h /\ Wrapped(u)' = w /\ weth[u] <= Target + w
  BY <1>1 DEF Had, Wrapped, Within
<1>3. CASE crashes' = crashes + 1
  <2>1. Extra' = e + Target
    BY <1>1, <1>3, Limits
  <2>2. eth[u] <= h + e + Target
    <3>1. CASE Held(u)
      BY <1>0, <1>1, <3>1 DEF Held
    <3>2. CASE Due(u, todo)
      <4>1. PICK d \in Nat : weth[u] + d = Target /\ eth[u] <= h + e + d
        BY <1>1, <3>2, DueWraps
      <4>2. QED
        BY <1>0, <1>1, <4>1
    <3>3. QED
      BY <3>1, <3>2 DEF Within
  <2>3. eth'[u] <= h + (e + Target) /\ weth'[u] <= Target + w
    BY <1>0, <1>1, <1>2, <2>2
  <2>4. QED
    BY <1>2, <2>1, <2>3 DEF Within, Held
<1>4. CASE Fails(p) /\ UNCHANGED crashes
  <2>1. ~Due(u, todo)
    <3>1. SUFFICES ASSUME Due(u, todo)
                   PROVE  FALSE
      OBVIOUS
    <3>2. PICK d \in Nat : (\E t1 : Starts(todo, Sending(Wrap(u, d), TRUE), t1)) /\ eth[u] >= d
      BY <3>1, DueWraps
    <3>3. PICK x, k : x = NextStep(p) /\ k = Wrap(u, d)
      OBVIOUS
    <3>4. x.call = k
      <4>1. x = Sending(k, TRUE)
        BY <3>2, <3>3 DEF Starts, NextStep
      <4>2. QED
        BY <4>1, SendFields
    <3>5. Succeeds(Wrap(u, d))
      BY <3>2 DEF Succeeds, Wrap
    <3>6. QED
      BY <1>4, <3>3, <3>4, <3>5 DEF Fails
  <2>2. QED
    BY <1>4, <2>1, KeptIfHeld
<1>5. QED
  BY <1>3, <1>4

LEMMA DueSends ==
  ASSUME NEW u, NEW todo, Due(u, todo)
  PROVE  todo # <<>> /\ Head(todo).op # "read"
BY DueWraps, OpOf DEF Starts

LEMMA CrashesCount ==
  ASSUME WorkInv, RunInv, crashes \in Nat, [Next]_vars
  PROVE  crashes' \in Nat
<1>1. UNCHANGED crashes \/ crashes' = crashes + 1
  BY StepForms DEF vaultVars, bookkeeping, Begins, Asks, Sends, Emits, Leaves, Ends, Mines, Changes, Crash
<1>2. QED
  BY <1>1

\* What is true of a run with these steps left.
Capped(r, todo) == Once /\ Kind(r, todo) /\ \A u \in Users \ {Owner} : Within(u, todo)

LEMMA CappedAsks ==
  ASSUME RegistryInv, MoneyInv, WorkInv, RunInv, TodoInv, NEW p \in Processes, Asks(p),
         NEW r, r = run[p], Capped(r, r.todo), NEW q, q = run'[p]
  PROVE  Capped(q, q.todo)'
<1>1. PICK x, t : x = NextStep(p) /\ t = Tail(r.todo)
  OBVIOUS
<1>2. Ready(p) /\ x.op = "read" /\ UNCHANGED <<eth, weth, vaultMap, crashes>>
  BY <1>1 DEF Asks, chainVars, bookkeeping
<1>3. Starts(r.todo, x, t) /\ Answered(p) = Reply(x) /\ SafeSteps(Answered(p))
  BY <1>1, <1>2, LeftToDo
<1>4. SafeStep(x)
  BY <1>1, <1>2, LiveSteps
<1>5. q.todo = Reply(x) \o t /\ q.task = r.task /\ q.user = r.user
  <2>1. DOMAIN run = Processes /\ DOMAIN r = RunFields
    BY DEF WorkInv, RunInv, Named
  <2>2. PICK d : d = Answered(p) \o t
    OBVIOUS
  <2>3. q = [r EXCEPT !.todo = d]
    BY <1>1, <2>1, <2>2 DEF Asks
  <2>4. q.todo = d /\ q.task = r.task /\ q.user = r.user
    BY <2>1, <2>3 DEF RunFields
  <2>5. QED
    BY <1>3, <2>2, <2>4
<1>6. Kind(q, q.todo)
  <2>1. CASE PocAt(r.todo)
    BY <1>2, <1>3, <1>5, <2>1, PocAsks DEF Capped, Kind
  <2>2. CASE QuietSteps(r.todo)
    <3>1. QuietThen(x.then) /\ QuietSteps(t)
      BY <1>2, <1>3, <2>2, QuietTail DEF QuietStep
    <3>2. QuietSteps(Reply(x))
      BY <1>2, <1>4, <3>1, QuietAfter
    <3>3. QED
      BY <1>5, <3>1, <3>2, QuietJoined DEF Kind
  <2>3. CASE Bootstraps(r)
    BY <1>5, <2>3 DEF Kind, Bootstraps
  <2>4. QED
    BY <2>1, <2>2, <2>3 DEF Capped, Kind
<1>7. Kind(q, q.todo)' /\ Once'
  BY <1>2, <1>6 DEF Capped, Once, Kind, PocAt, PocPays, PocMakes, PocEnds
<1>8. ASSUME NEW u \in Users \ {Owner}
      PROVE  Within(u, q.todo)'
  <2>1. ~Due(u, r.todo)
    <3>1. Head(r.todo).op = "read"
      BY <1>2, <1>3 DEF Starts
    <3>2. QED
      BY <3>1, DueSends
  <2>2. PICK d : d = q.todo
    OBVIOUS
  <2>3. Within(u, d)'
    BY <1>2, <2>1, KeptIfHeld DEF Capped
  <2>4. QED
    BY <2>2, <2>3
<1>9. QED
  BY <1>7, <1>8 DEF Capped

LEMMA CappedSends ==
  ASSUME RegistryInv, MoneyInv, WorkInv, RunInv, TodoInv, crashes \in Nat, NEW p \in Processes, Sends(p),
         BootRun(p), NEW r, r = run[p], Capped(r, r.todo), NEW q, q = run'[p]
  PROVE  Capped(q, q.todo)'
<1>1. PICK x, t, k : x = NextStep(p) /\ t = Tail(r.todo) /\ k = x.call
  OBVIOUS
<1>2. Ready(p) /\ x.op = "send" /\ Execute(k) /\ UNCHANGED crashes
  BY <1>1 DEF Sends, bookkeeping
<1>3. Starts(r.todo, x, t) /\ SafeCall(k) /\ r.user \in Users
  BY <1>1, <1>2, LeftToDo
<1>4. q.todo = t /\ q.task = r.task /\ q.user = r.user
  <2>1. DOMAIN run = Processes /\ DOMAIN r = RunFields
    BY DEF WorkInv, RunInv, Named
  <2>2. q = [r EXCEPT !.todo = t]
    BY <1>1, <2>1 DEF Sends
  <2>3. QED
    BY <2>1, <2>2 DEF RunFields
<1>5. Kind(q, t)' /\ \A u \in Users \ {Owner} : Outcome(u, t)
  <2>1. CASE PocAt(r.todo)
    <3>1. PocAt(t)' /\ \A u \in Users \ {Owner} : Spends(u) \/ Deposits(u)
      BY <1>1, <1>2, <1>3, <2>1, PocSends
    <3>2. QED
      BY <3>1 DEF Kind, Outcome
  <2>2. CASE QuietSteps(r.todo)
    <3>1. QuietCall(k) /\ QuietSteps(t)
      BY <1>1, <1>2, <1>3, <2>2, QuietTail DEF QuietStep
    <3>2. QED
      BY <1>2, <1>3, <3>1, QuietOutcome DEF Kind, Outcome
  <2>3. CASE Bootstraps(r)
    <3>1. PICK m : m = Plan(r)
      OBVIOUS
    <3>2. BootAt(m, r.todo) /\ m.user \in Users \ {Owner}
      BY <1>3, <2>3, <3>1, PlanFields DEF BootRun, Bootstraps
    <3>3. \A u \in Users \ {Owner} : Outcome(u, t)
      BY <1>1, <1>2, <1>3, <3>2, BootOutcome
    <3>4. Bootstraps(q)
      BY <1>4, <2>3 DEF Bootstraps
    <3>5. QED
      BY <3>3, <3>4 DEF Kind
  <2>4. QED
    BY <2>1, <2>2, <2>3 DEF Capped, Kind
<1>6. Once'
  BY <1>2, <1>3, <1>5, OutcomeOnce, FundingAssumption DEF Capped
<1>7. \A u \in Users \ {Owner} : Within(u, t)'
  BY <1>1, <1>2, <1>3, <1>5, OutcomeKeeps DEF Capped
<1>8. QED
  BY <1>4, <1>5, <1>6, <1>7 DEF Capped

LEMMA NextCap ==
  ASSUME RegistryInv, MoneyInv, WorkInv, WaitInv, RunInv, TodoInv, BootInv, CapInv, [Next]_vars
  PROVE  CapInv'
<1>0. crashes \in Nat /\ crashes' \in Nat /\ DOMAIN run = Processes
  BY CrashesCount DEF CapInv, WorkInv
<1>1. SUFFICES ASSUME NEW p \in Processes, Giving(p)', NEW q, q = run'[p]
               PROVE  Capped(q, q.todo)'
  BY <1>0 DEF CapInv, Capped
<1>2. Single(p)' /\ Giving(p) /\ BootRun(p)
  BY <1>1, SingleSteps DEF Giving, BootInv
<1>3. PICK r : r = run[p]
  OBVIOUS
<1>4. Capped(r, r.todo)
  BY <1>2, <1>3 DEF CapInv, Capped
<1>5. CASE UNCHANGED <<eth, weth, vaultMap, run, finished, crashes>>
  <2>1. q = r
    BY <1>1, <1>3, <1>5
  <2>2. QED
    BY <1>4, <1>5, <2>1
      DEF Capped, Once, Kind, PocAt, PocPays, PocMakes, PocEnds, Within, Held, Due, Had, Wrapped, Extra
<1>6. ASSUME NEW t, q.todo = t, UNCHANGED <<eth, weth, vaultMap, crashes>>, Kind(q, t), r.todo = <<>>
      PROVE  Capped(q, q.todo)'
  <2>1. \A u \in Users \ {Owner} : Within(u, t)'
    BY <1>4, <1>6, DueSends, KeptIfHeld DEF Capped
  <2>2. Once' /\ Kind(q, t)'
    BY <1>4, <1>6 DEF Capped, Once, Kind, PocAt, PocPays, PocMakes, PocEnds
  <2>3. QED
    BY <1>6, <2>1, <2>2 DEF Capped
<1>7. ASSUME NEW task \in setting.tasks \cup {"create-vault"}, NEW user \in Users, Begins(p, task, user)
      PROVE  Capped(q, q.todo)'
  <2>1. PICK n, t : n = drawn' /\ t = TaskSteps(task, user, n)
    OBVIOUS
  <2>2. q = [task |-> task, user |-> user, salt |-> n, waiting |-> FALSE, todo |-> t]
    BY <1>0, <1>1, <1>7, <2>1 DEF Begins
  <2>3. q.task = task /\ q.user = user /\ q.todo = t
    BY <2>2
  <2>4. Kind(q, t)
    BY <1>2, <2>1, <2>3, BeginsKind
  <2>5. r.todo = <<>> /\ UNCHANGED <<eth, weth, vaultMap, crashes>>
    BY <1>3, <1>7, NothingLeft DEF Begins, chainVars
  <2>6. QED
    BY <1>6, <2>3, <2>4, <2>5
<1>8. CASE Asks(p)
  BY <1>1, <1>3, <1>4, <1>8, CappedAsks
<1>9. CASE Sends(p)
  BY <1>0, <1>1, <1>2, <1>3, <1>4, <1>9, CappedSends
<1>10. CASE Ends(p)
  <2>1. q = NoRun /\ r.todo = <<>> /\ UNCHANGED <<eth, weth, vaultMap, crashes>>
    BY <1>0, <1>1, <1>3, <1>10 DEF Ends, chainVars
  <2>2. q.todo = <<>> /\ Kind(q, <<>>)
    BY <2>1, NothingLeft DEF Kind
  <2>3. QED
    BY <1>6, <2>1, <2>2
<1>11. CASE Leaves(p)
  <2>1. /\ q = NoRun /\ UNCHANGED <<eth, weth, vaultMap>>
        /\ crashes' = crashes + 1 \/ (Fails(p) /\ UNCHANGED crashes)
    BY <1>0, <1>1, <1>11 DEF Leaves, Crash, chainVars
  <2>2. q.todo = <<>> /\ Kind(q, <<>>)'
    BY <2>1, NothingLeft DEF Kind, PocAt, PocEnds
  <2>3. \A u \in Users \ {Owner} : Within(u, <<>>)'
    BY <1>0, <1>3, <1>4, <2>1, KeptWhenLeft DEF Capped
  <2>4. Once'
    BY <1>4, <2>1 DEF Capped, Once
  <2>5. QED
    BY <2>2, <2>3, <2>4 DEF Capped
<1>12. QED
  BY <1>2, <1>5, <1>7, <1>8, <1>9, <1>10, <1>11, SingleSteps

LEMMA InitCap ==
  ASSUME Init
  PROVE  CapInv
<1>1. /\ crashes = 0 /\ \A p \in Processes : run[p] = NoRun
      /\ \A u \in Users \ {Owner} : eth[u] = (IF u = Bob THEN BobETH ELSE 0) /\ weth[u] = 0
  BY AddressTypes DEF Init
<1>2. /\ Target \in Nat /\ Extra = 0 /\ BobETH \in Nat
      /\ \A u \in Users : Had(u) \in Nat /\ Wrapped(u) \in Nat /\ (u = Bob => Had(u) >= BobETH)
  BY <1>1, FundingAssumption DEF Extra, Had, Wrapped
<1>3. Once
  BY <1>1, <1>2, FundingAssumption DEF Once
<1>4. \A u \in Users \ {Owner} : \A todo : Within(u, todo)
  BY <1>1, <1>2 DEF Within, Held
<1>5. Kind(NoRun, <<>>)
  BY NothingLeft DEF Kind
<1>6. QED
  BY <1>1, <1>3, <1>4, <1>5, NothingLeft DEF CapInv

\* However often it is broken off and repeated, dev:bootstrap-user gives a
\* user no more than the targets and one of them again for each crash.
THEOREM BootstrapGives == Spec => []BootstrapGivesOnce
<1>1. Init => WaitInv /\ BootInv /\ CapInv
  <2>1. Init => BootInv
    BY NoneBootstraps DEF Init, BootInv, BootRun, BootDone
  <2>2. QED
    BY <2>1, InitWaits, InitCap
<1>2. RegistryInv /\ MoneyInv /\ WorkInv /\ RunInv /\ TodoInv /\ PoolInv /\ WaitInv /\ BootInv /\ CapInv /\ [Next]_vars
      => WaitInv' /\ BootInv' /\ CapInv'
  BY StepWaits, NextBoot, NextCap
<1>3. MoneyInv /\ CapInv => BootstrapGivesOnce
  <2>1. SUFFICES ASSUME MoneyInv, CapInv, NEW p \in Processes, NEW u \in Users \ {Owner}, Giving(p)
                 PROVE  eth[u] + weth[u] <= Had(u) + (1 + crashes) * Target + Wrapped(u)
    BY DEF BootstrapGivesOnce, Giving
  <2>2. crashes \in Nat /\ \E todo : Within(u, todo)
    BY <2>1 DEF CapInv
  <2>3. PICK h, w, e : /\ h = Had(u) /\ w = Wrapped(u) /\ e = Extra /\ h \in Nat /\ w \in Nat /\ e \in Nat
                       /\ Target \in Nat /\ eth[u] \in Nat /\ weth[u] \in Nat
    BY <2>1, <2>2, Limits, AddressTypes DEF MoneyInv
  <2>4. (1 + crashes) * Target = Target + e
    BY <2>2, <2>3 DEF Extra
  <2>5. eth[u] + weth[u] <= h + (Target + e) + w
    <3>1. CASE Held(u)
      BY <2>2, <2>3, <3>1 DEF Within, Held
    <3>2. ASSUME NEW todo, Due(u, todo)
          PROVE  eth[u] + weth[u] <= h + (Target + e) + w
      <4>1. PICK d \in Nat : weth[u] + d = Target /\ eth[u] <= h + e + d
        BY <2>3, <3>2, DueWraps
      <4>2. QED
        BY <2>3, <4>1
    <3>3. QED
      BY <2>2, <3>1, <3>2 DEF Within
  <2>6. QED
    BY <2>3, <2>4, <2>5
<1>4. QED
  BY <1>1, <1>2, <1>3, WorkHolds, PTL DEF Spec

\* What the tasks promise of accounts: what dev:bootstrap-user promises always,
\* and that dev:create-vault fails only for want of a treasury, as long as the
\* refund is no more than the grant and its owner can pay the grant.
THEOREM TasksSuffice ==
  ASSUME Refund <= Grant
  PROVE  Spec /\ []OwnerCanGrant => []AccountsSuffice
<1>1. BootstrapTopsUp /\ BootstrapGivesOnce /\ FundingOrdered => AccountsSuffice
  BY DEF AccountsSuffice
<1>2. QED
  BY <1>1, BootstrapReaches, BootstrapGives, FundingInOrder, PTL
=============================================================================
