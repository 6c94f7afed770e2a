-------------------------- MODULE ReserveSetupProofs --------------------------
(***************************************************************************)
(* The tasks and scripts that set up reserves, for any collections,        *)
(* amounts and selections of scripts: a reserve that was activated by a    *)
(* run of its own has its terms, what has ended has set up its reserve,    *)
(* and a run of all scripts finds what it builds on.                       *)
(***************************************************************************)
EXTENDS ReserveSetup, NumberLemmas

(***************************************************************************)
(* What the second rests on: a deactivation still pending when its process *)
(* died undoes what a later run has read as done.                          *)
(***************************************************************************)
NoLateDeactivation == \A m \in Mining : m = "auto" \/ "deactivate" \notin Manual[m]

-----------------------------------------------------------------------------
(***************************************************************************)
(* Types.                                                                  *)
(***************************************************************************)
Terms == {"bonus", "income", "loan"}
Reserve == [initialized : BOOLEAN, active : BOOLEAN, bare : BOOLEAN, set : SUBSET Fields]
Chains ==
  [reserves : [Collections -> Reserve], treasury : Treasuries \cup {None},
   twap : SUBSET (Collections \cup {"other"}), configurator : BOOLEAN, weth : Nat,
   approved : BOOLEAN, tranches : [Collections -> [Tranches -> Nat]]]

OfReserve == {"initReserve", "initReserves", "set", "activateReserve", "deactivateReserve", "deposit"}
Awaited == {"initReserve", "wrap", "approve", "deposit", "transfer"}
GoodCall(k) ==
  /\ k.fn \in OfReserve => k.c \in Collections
  /\ k.fn = "set" => k.x \in Fields
  /\ k.fn \in {"wrap", "transfer"} => k.x \in Nat
  /\ k.fn = "deposit" => k.x.amount \in Nat /\ k.x.tranche \in Tranches
  /\ k.fn \in {"updateProtocolFee", "initReserves"} => k.x \in Treasuries
  /\ k.fn = "updateTwap" => k.c \in Collections \cup {"other"}
StatusTasks == {"initialize-reserve", "configurator-initialize-reserve", "create_reserve"}
GoodStep(x) ==
  /\ x.op \in {"send", "wrapMissing", "approveOnce", "status", "needs"}
  /\ x.op = "send" => /\ GoodCall(x.call) /\ x.await \in BOOLEAN
                      /\ x.call.fn \in Awaited => x.await
  /\ x.op = "wrapMissing" => x.amount \in Nat
  /\ x.op = "status" => x.c \in Collections /\ x.task \in StatusTasks

IsSeq(s) == \E S : s \in Seq(S)
Items(s) == {s[i] : i \in 1..Len(s)}
GoodSteps(s) == IsSeq(s) /\ \A x \in Items(s) : GoodStep(x)

Typed ==
  /\ chain \in Chains
  /\ IsSeq(pool) /\ \A k \in Items(pool) : GoodCall(k)
  /\ mining \in Mining
  /\ DOMAIN run = {"task", "on", "todo", "waiting"} /\ run.waiting \in BOOLEAN
  /\ GoodSteps(run.todo)
  /\ run.task = None => run.todo = <<>> /\ ~run.waiting
  /\ mining = "auto" => pool = <<>> /\ ~run.waiting
  /\ run.waiting => pool # <<>>

(***************************************************************************)
(* Terms before activation: in a process, in the pool, on chain.           *)
(***************************************************************************)
\* The calls a step, or all the steps of a process, will make.
Adds(x) == IF x.op = "send" THEN {x.call} ELSE {}
SentOf(I) == UNION {Adds(x) : x \in I}
Sent(s) == SentOf(Items(s))
Before(s, i) == UNION {Adds(s[j]) : j \in 1..i - 1}

Readied(B, c) == \A f \in Terms : SetField(c, f) \in B
\* An activation that comes from setting up the reserve it activates.
Proper(k) == k.fn = "activateReserve" /\ k.x = k.c
Activation(x) == x.op = "send" /\ Proper(x.call)
Prepares(s, B) ==
  \A i \in 1..Len(s) : Activation(s[i]) => Readied(B \cup Before(s, i), s[i].call.c)
Orders(q, B) ==
  \A i \in 1..Len(q) : Proper(q[i]) => Readied(B \cup {q[j] : j \in 1..i - 1}, q[i].c)

Have(ch) == UNION {{SetField(c, f) : f \in ch.reserves[c].set} : c \in Collections}
Ordered ==
  /\ \A c \in Collections : chain.reserves[c].active /\ ~chain.reserves[c].bare => Readied(Have(chain), c)
  /\ Orders(pool, Have(chain))
  /\ Prepares(run.todo, Have(chain) \cup Items(pool))

(***************************************************************************)
(* What dev:initialize-reserve and dev:bootstrap have done or still will.  *)
(***************************************************************************)
Complete == {"initialize-reserve", "bootstrap"}
Goals ==
  {Call("initReserve", Crab, None), Call("activateReserve", Crab, Crab),
   Call("updateProtocolFee", None, "owner"), Call("updateTwap", Crab, None)}
    \cup {SetField(Crab, f) : f \in Fields}
Done(g, ch) ==
  CASE g.fn = "initReserve" -> ch.reserves[Crab].initialized
    [] g.fn = "activateReserve" -> ch.reserves[Crab].active
    [] g.fn = "set" -> g.x \in ch.reserves[Crab].set
    [] g.fn = "updateProtocolFee" -> ch.treasury # None
    [] g.fn = "updateTwap" -> Crab \in ch.twap
AmountOf(t) == IF t = "junior" THEN Junior ELSE Senior
DepositOf(t) == Call("deposit", Crab, [tranche |-> t, amount |-> AmountOf(t)])
Funded(t, ch) == ch.tranches[Crab][t] >= AmountOf(t)

\* The process waits for this call.
Awaits(k) == run.waiting /\ pool[Len(pool)] = k
EndsAwaited(s) ==
  s # <<>> => \/ s[Len(s)].op = "status"
              \/ s[Len(s)].op = "send" /\ s[Len(s)].await
StatusLeft(s) == \E x \in Items(s) : x.op = "status"
Working ==
  run.task \in Complete /\ run.on = Crab =>
    /\ EndsAwaited(run.todo)
    /\ run.todo = <<>> /\ ~run.waiting => pool = <<>>
    /\ \A x \in Items(run.todo) : x.op = "status" => x.task = "initialize-reserve" /\ x.c = Crab
    /\ \/ StatusLeft(run.todo)
       \/ \A g \in Goals : Done(g, chain) \/ g \in Sent(run.todo) \cup Items(pool)
    /\ run.task = "bootstrap" =>
         \A t \in Tranches : Funded(t, chain) \/ DepositOf(t) \in Sent(run.todo) \/ Awaits(DepositOf(t))
Quiet ==
  /\ \A k \in Sent(run.todo) : k.fn = "deactivateReserve" => run.task = "deactivate"
  /\ run.task = "deactivate" => "deactivate" \in Manual[mining]
  /\ \A k \in Items(pool) : k.fn # "deactivateReserve"
Closed ==
  finished # None =>
    /\ run.task = None
    /\ finished.task \in Complete /\ finished.on = Crab =>
         /\ pool = <<>>
         /\ \A g \in Goals : Done(g, chain)
         /\ finished.task = "bootstrap" => \A t \in Tranches : Funded(t, chain)

(***************************************************************************)
(* A run of all scripts.                                                   *)
(***************************************************************************)
WrapCall == Call("wrap", None, 4 * Junior)
ApproveCall == Call("approve", None, None)
FixedInit == Call("initReserve", Fixed, None)
FixedDeposit(t) == Call("deposit", Fixed, [tranche |-> t, amount |-> Junior])
TransferCall == Call("transfer", None, Junior)
Spending == {FixedDeposit("junior"), FixedDeposit("senior"), TransferCall}
Spends(k) == k.fn \in {"deposit", "transfer"}

CallRank(k) ==
  CASE k.fn \in {"initReserve", "set", "activateReserve"} -> 1
    [] k.fn = "wrap" -> 2
    [] k.fn = "approve" -> 3
    [] k.fn = "deposit" -> IF k.x.tranche = "junior" THEN 4 ELSE 5
    [] k.fn = "transfer" -> 7
    [] OTHER -> 6
Rank(x) ==
  CASE x.op = "status" -> 1
    [] x.op = "needs" -> IF x.what = "nft" THEN 1 ELSE 6
    [] OTHER -> CallRank(x.call)
ScriptCall(k) ==
  /\ k.fn = "initReserve" => k = FixedInit
  /\ k.fn = "wrap" => k = WrapCall
  /\ k.fn = "approve" => k = ApproveCall
  /\ Spends(k) => k \in Spending
ScriptStep(x) ==
  /\ x.op \in {"status", "needs", "send"}
  /\ x.op = "status" => x.task = "create_reserve" /\ x.c = Fixed
  /\ x.op = "send" => ScriptCall(x.call)
\* Steps in order, with ranks from lo to hi; only ranks 1 and 6 have several.
Phase(s, lo, hi) ==
  /\ IsSeq(s)
  /\ \A i \in 1..Len(s) : ScriptStep(s[i]) /\ lo <= Rank(s[i]) /\ Rank(s[i]) <= hi
  /\ \A i, j \in 1..Len(s) :
       i < j => Rank(s[i]) <= Rank(s[j]) /\ (Rank(s[i]) = Rank(s[j]) => Rank(s[i]) \in {1, 6})

Left(s) ==
  (IF FixedDeposit("junior") \in Sent(s) THEN Junior ELSE 0)
    + (IF FixedDeposit("senior") \in Sent(s) THEN Junior ELSE 0)
    + (IF TransferCall \in Sent(s) THEN Junior ELSE 0)
Enough ==
  /\ \A i \in 1..Len(pool) : Spends(pool[i]) => i = Len(pool) /\ run.waiting /\ pool[i] \in Spending
  /\ chain.weth >= Left(run.todo) + (IF run.waiting /\ Spends(pool[Len(pool)]) THEN Junior ELSE 0)
Serial ==
  run.task = "runner" /\ run.on = {} =>
    /\ Phase(run.todo, 1, 7)
    /\ \/ chain.reserves[Fixed].initialized \/ StatusLeft(run.todo)
       \/ FixedInit \in Sent(run.todo) \/ Awaits(FixedInit)
    /\ chain.approved \/ ApproveCall \in Sent(run.todo) \/ Awaits(ApproveCall)
    /\ WrapCall \in Sent(run.todo) \/ Awaits(WrapCall) \/ Enough

-----------------------------------------------------------------------------
(***************************************************************************)
(* Sequences.                                                              *)
(***************************************************************************)
Joined(s, t) == s \o t

LEMMA SeqTail ==
  ASSUME NEW s, IsSeq(s), s # <<>>
  PROVE  /\ IsSeq(Tail(s)) /\ Len(s) \in Nat /\ Len(s) > 0 /\ Len(Tail(s)) = Len(s) - 1 /\ Head(s) = s[1]
         /\ \A i \in 1..Len(Tail(s)) : Tail(s)[i] = s[i + 1] /\ i + 1 \in 1..Len(s)
         /\ Items(s) = {Head(s)} \cup Items(Tail(s))
<1>1. PICK S : s \in Seq(S)
  BY DEF IsSeq
<1>2. /\ Tail(s) \in Seq(S) /\ Len(s) \in Nat /\ Len(s) > 0 /\ Len(Tail(s)) = Len(s) - 1
      /\ Head(s) = s[1] /\ \A i \in 1..Len(Tail(s)) : Tail(s)[i] = s[i + 1]
  BY <1>1
<1>3. IsSeq(Tail(s))
  BY <1>2 DEF IsSeq
<1>4. \A i \in 1..Len(Tail(s)) : i + 1 \in 1..Len(s)
  BY <1>2
<1>5. \A i \in 1..Len(s) : i = 1 \/ i - 1 \in 1..Len(Tail(s))
  BY <1>2
<1>6. ASSUME NEW y \in Items(s)
      PROVE  y \in {Head(s)} \cup Items(Tail(s))
  <2>1. PICK i \in 1..Len(s) : y = s[i]
    BY <1>6 DEF Items
  <2>2. CASE i = 1
    BY <2>1, <2>2, <1>2
  <2>3. CASE i # 1
    <3>1. i - 1 \in 1..Len(Tail(s)) /\ (i - 1) + 1 = i
      BY <2>3, <1>5, <1>2
    <3>2. y = Tail(s)[i - 1]
      BY <2>1, <3>1, <1>2
    <3>3. QED
      BY <3>1, <3>2 DEF Items
  <2>4. QED
    BY <2>2, <2>3
<1>7. Head(s) \in Items(s)
  <2>1. 1 \in 1..Len(s)
    BY <1>2
  <2>2. QED
    BY <2>1, <1>2 DEF Items
<1>8. \A y \in Items(Tail(s)) : y \in Items(s)
  BY <1>2, <1>4 DEF Items
<1>9. QED
  BY <1>2, <1>3, <1>4, <1>6, <1>7, <1>8

LEMMA SeqJoined ==
  ASSUME NEW s, NEW t, IsSeq(s), IsSeq(t)
  PROVE  /\ IsSeq(Joined(s, t)) /\ Len(s) \in Nat /\ Len(t) \in Nat /\ Len(Joined(s, t)) = Len(s) + Len(t)
         /\ \A i \in 1..Len(s) : Joined(s, t)[i] = s[i] /\ i \in 1..Len(Joined(s, t))
         /\ \A i \in 1..Len(t) : Joined(s, t)[Len(s) + i] = t[i] /\ Len(s) + i \in 1..Len(Joined(s, t))
         /\ \A i \in 1..Len(Joined(s, t)) :
              i \in 1..Len(s) \/ (i - Len(s) \in 1..Len(t) /\ Joined(s, t)[i] = t[i - Len(s)])
         /\ Items(Joined(s, t)) = Items(s) \cup Items(t)
<1>1. PICK S : s \in Seq(S)
  BY DEF IsSeq
<1>2. PICK T : t \in Seq(T)
  BY DEF IsSeq
<1>3. PICK U : s \in Seq(U) /\ t \in Seq(U)
  <2>1. s \in Seq(S \cup T) /\ t \in Seq(S \cup T)
    BY <1>1, <1>2
  <2>2. QED
    BY <2>1
<1>4. PICK k \in Nat : k = Len(s)
  BY <1>1
<1>5. PICK l \in Nat : l = Len(t)
  BY <1>2
<1>6. PICK u : u = s \o t
  OBVIOUS
<1>7. /\ u \in Seq(U) /\ Len(u) = k + l
      /\ \A i \in 1..k : u[i] = s[i] /\ i \in 1..Len(u)
      /\ \A i \in 1..l : u[k + i] = t[i] /\ k + i \in 1..Len(u)
      /\ \A i \in 1..Len(u) : i \in 1..k \/ (i - k \in 1..l /\ u[i] = t[i - k])
  BY <1>3, <1>4, <1>5, <1>6
<1>8. IsSeq(u)
  BY <1>7 DEF IsSeq
<1>9. ASSUME NEW y \in Items(u)
      PROVE  y \in Items(s) \cup Items(t)
  <2>1. PICK i \in 1..Len(u) : y = u[i]
    BY <1>9 DEF Items
  <2>2. CASE i \in 1..k
    BY <2>1, <2>2, <1>4, <1>7 DEF Items
  <2>3. CASE i - k \in 1..l /\ u[i] = t[i - k]
    BY <2>1, <2>3, <1>5 DEF Items
  <2>4. QED
    BY <2>2, <2>3, <1>7
<1>10. \A y \in Items(s) \cup Items(t) : y \in Items(u)
  BY <1>4, <1>5, <1>7 DEF Items
<1>11. Joined(s, t) = u
  BY <1>6 DEF Joined
<1>12. QED
  BY <1>4, <1>5, <1>7, <1>8, <1>9, <1>10, <1>11

LEMMA SeqOne ==
  ASSUME NEW x
  PROVE  IsSeq(<<x>>) /\ Len(<<x>>) = 1 /\ <<x>>[1] = x /\ Items(<<x>>) = {x}
<1>1. PICK q : q = <<x>>
  OBVIOUS
<1>2. q \in Seq({x}) /\ Len(q) = 1 /\ q[1] = x
  BY <1>1
<1>3. 1..1 = {1}
  OBVIOUS
<1>4. Items(q) = {x}
  BY <1>2, <1>3 DEF Items
<1>5. IsSeq(q)
  BY <1>2 DEF IsSeq
<1>6. QED
  BY <1>1, <1>2, <1>4, <1>5

LEMMA SeqNone ==
  IsSeq(<<>>) /\ Len(<<>>) = 0 /\ Items(<<>>) = {} /\ Sent(<<>>) = {}
<1>1. <<>> \in Seq({}) /\ Len(<<>>) = 0
  OBVIOUS
<1>2. Items(<<>>) = {}
  BY <1>1 DEF Items
<1>3. QED
  BY <1>1, <1>2 DEF IsSeq, SentOf, Sent

LEMMA SeqAppend ==
  ASSUME NEW s, NEW x, IsSeq(s)
  PROVE  /\ IsSeq(Append(s, x)) /\ Len(s) \in Nat /\ Len(Append(s, x)) = Len(s) + 1
         /\ Append(s, x)[Len(s) + 1] = x /\ Append(s, x) # <<>>
         /\ \A i \in 1..Len(s) : Append(s, x)[i] = s[i] /\ i \in 1..Len(Append(s, x))
         /\ Items(Append(s, x)) = Items(s) \cup {x}
<1>1. PICK S : s \in Seq(S)
  BY DEF IsSeq
<1>2. PICK T : x \in T /\ s \in Seq(T)
  <2>1. s \in Seq(S \cup {x})
    BY <1>1
  <2>2. QED
    BY <2>1
<1>3. PICK k \in Nat : k = Len(s)
  BY <1>1
<1>4. PICK u : u = Append(s, x)
  OBVIOUS
<1>5. /\ u \in Seq(T) /\ Len(u) = k + 1 /\ u[k + 1] = x
      /\ \A i \in 1..k : u[i] = s[i] /\ i \in 1..Len(u)
  BY <1>2, <1>3, <1>4
<1>6. \A i \in 1..Len(u) : i \in 1..k \/ i = k + 1
  BY <1>5
<1>7. k + 1 \in 1..Len(u)
  BY <1>5
<1>8. Items(u) = Items(s) \cup {x}
  BY <1>3, <1>5, <1>6, <1>7 DEF Items
<1>9. IsSeq(u) /\ u # <<>>
  BY <1>5 DEF IsSeq
<1>10. QED
  BY <1>3, <1>4, <1>5, <1>8, <1>9

\* What the steps of a process will send.
LEMMA SentTail ==
  ASSUME NEW s, IsSeq(s), s # <<>>
  PROVE  Sent(s) = Adds(Head(s)) \cup Sent(Tail(s))
BY SeqTail DEF SentOf, Sent

LEMMA SentJoined ==
  ASSUME NEW s, NEW t, IsSeq(s), IsSeq(t)
  PROVE  Sent(Joined(s, t)) = Sent(s) \cup Sent(t)
BY SeqJoined DEF SentOf, Sent

(***************************************************************************)
(* Sequences that activate only what has its terms.                        *)
(***************************************************************************)
LEMMA ReadiedMore ==
  ASSUME NEW B, NEW D, NEW c, Readied(B, c), \A f \in Terms : SetField(c, f) \in B => SetField(c, f) \in D
  PROVE  Readied(D, c)
BY DEF Readied

LEMMA PreparesMore ==
  ASSUME NEW s, NEW B, NEW D, Prepares(s, B), \A c : \A f \in Terms : SetField(c, f) \in B => SetField(c, f) \in D
  PROVE  Prepares(s, D)
<1>1. SUFFICES ASSUME NEW i \in 1..Len(s), Activation(s[i])
               PROVE  Readied(D \cup Before(s, i), s[i].call.c)
  BY DEF Prepares
<1>2. Readied(B \cup Before(s, i), s[i].call.c)
  BY <1>1 DEF Prepares
<1>3. QED
  BY <1>2 DEF Readied

LEMMA PreparesNone ==
  ASSUME NEW s, NEW B, \A x \in Items(s) : ~Activation(x)
  PROVE  Prepares(s, B)
BY DEF Prepares, Items

LEMMA PreparesTail ==
  ASSUME NEW s, NEW B, IsSeq(s), s # <<>>, Prepares(s, B)
  PROVE  Prepares(Tail(s), B \cup Adds(Head(s)))
<1>1. SUFFICES ASSUME NEW i \in 1..Len(Tail(s)), Activation(Tail(s)[i])
               PROVE  Readied((B \cup Adds(Head(s))) \cup Before(Tail(s), i), Tail(s)[i].call.c)
  BY DEF Prepares
<1>2. Tail(s)[i] = s[i + 1] /\ i + 1 \in 1..Len(s)
  BY SeqTail
<1>3. Readied(B \cup Before(s, i + 1), Tail(s)[i].call.c)
  BY <1>1, <1>2 DEF Prepares
<1>4. ASSUME NEW k \in Before(s, i + 1)
      PROVE  k \in Adds(Head(s)) \cup Before(Tail(s), i)
  <2>1. PICK j \in 1..i : k \in Adds(s[j])
    <3>1. (i + 1) - 1 = i
      OBVIOUS
    <3>2. QED
      BY <1>4, <3>1 DEF Before
  <2>2. CASE j = 1
    BY <2>1, <2>2, SeqTail
  <2>3. CASE j # 1
    <3>1. j - 1 \in 1..i - 1 /\ j - 1 \in 1..Len(Tail(s)) /\ (j - 1) + 1 = j
      BY <2>3, SeqTail
    <3>2. Tail(s)[j - 1] = s[j]
      BY <3>1, SeqTail
    <3>3. QED
      BY <2>1, <3>1, <3>2 DEF Before
  <2>4. QED
    BY <2>2, <2>3
<1>5. QED
  BY <1>3, <1>4 DEF Readied

LEMMA PreparesJoined ==
  ASSUME NEW s, NEW t, NEW B, IsSeq(s), IsSeq(t), Prepares(s, B), Prepares(t, B \cup Sent(s))
  PROVE  Prepares(Joined(s, t), B)
<1>1. PICK u : u = Joined(s, t)
  OBVIOUS
<1>2. PICK k \in Nat : k = Len(s)
  BY SeqJoined
<1>3. PICK l \in Nat : l = Len(t)
  BY SeqJoined
<1>4. /\ Len(u) = k + l
      /\ \A i \in 1..k : u[i] = s[i]
      /\ \A i \in 1..l : u[k + i] = t[i]
      /\ \A i \in 1..Len(u) : i \in 1..k \/ (i - k \in 1..l /\ u[i] = t[i - k])
  BY <1>1, <1>2, <1>3, SeqJoined
<1>5. SUFFICES ASSUME NEW i \in 1..Len(u), Activation(u[i])
               PROVE  Readied(B \cup Before(u, i), u[i].call.c)
  BY <1>1 DEF Prepares
<1>6. CASE i \in 1..k
  <2>1. u[i] = s[i]
    BY <1>4, <1>6
  <2>2. Readied(B \cup Before(s, i), u[i].call.c)
    BY <1>2, <1>5, <1>6, <2>1 DEF Prepares
  <2>3. \A j \in 1..i - 1 : j \in 1..k
    BY <1>6
  <2>4. Before(s, i) = Before(u, i)
    BY <1>4, <2>3 DEF Before
  <2>5. QED
    BY <2>2, <2>4
<1>7. CASE i - k \in 1..l /\ u[i] = t[i - k]
  <2>1. Readied((B \cup Sent(s)) \cup Before(t, i - k), u[i].call.c)
    BY <1>3, <1>5, <1>7 DEF Prepares
  <2>2. Sent(s) \subseteq Before(u, i)
    <3>1. ASSUME NEW y \in Sent(s)
          PROVE  y \in Before(u, i)
      <4>1. PICK j \in 1..k : y \in Adds(s[j])
        BY <1>2, <3>1 DEF Sent, SentOf, Items
      <4>2. j \in 1..i - 1 /\ u[j] = s[j]
        BY <1>4, <1>7
      <4>3. QED
        BY <4>1, <4>2 DEF Before
    <3>2. QED
      BY <3>1
  <2>3. Before(t, i - k) \subseteq Before(u, i)
    <3>1. ASSUME NEW y \in Before(t, i - k)
          PROVE  y \in Before(u, i)
      <4>1. PICK j \in 1..(i - k) - 1 : y \in Adds(t[j])
        BY <3>1 DEF Before
      <4>2. j \in 1..l /\ k + j \in 1..i - 1
        BY <1>7, <4>1
      <4>3. u[k + j] = t[j]
        BY <1>4, <4>2
      <4>4. QED
        BY <4>1, <4>2, <4>3 DEF Before
    <3>2. QED
      BY <3>1
  <2>4. QED
    BY <2>1, <2>2, <2>3 DEF Readied
<1>8. QED
  BY <1>4, <1>6, <1>7

(***************************************************************************)
(* Orders on the pool.                                                     *)
(***************************************************************************)
LEMMA OrdersTail ==
  ASSUME NEW q, NEW B, IsSeq(q), q # <<>>, Orders(q, B)
  PROVE  Orders(Tail(q), B \cup {Head(q)})
<1>1. SUFFICES ASSUME NEW i \in 1..Len(Tail(q)), Proper(Tail(q)[i])
               PROVE  Readied((B \cup {Head(q)}) \cup {Tail(q)[j] : j \in 1..i - 1}, Tail(q)[i].c)
  BY DEF Orders
<1>2. Tail(q)[i] = q[i + 1] /\ i + 1 \in 1..Len(q) /\ (i + 1) - 1 = i
  BY SeqTail
<1>3. Readied(B \cup {q[j] : j \in 1..(i + 1) - 1}, Tail(q)[i].c)
  BY <1>1, <1>2 DEF Orders
<1>4. ASSUME NEW k \in {q[j] : j \in 1..(i + 1) - 1}
      PROVE  k \in {Head(q)} \cup {Tail(q)[j] : j \in 1..i - 1}
  <2>1. PICK j \in 1..i : k = q[j]
    BY <1>2, <1>4
  <2>2. CASE j = 1
    BY <2>1, <2>2, SeqTail
  <2>3. CASE j # 1
    <3>1. j - 1 \in 1..i - 1 /\ j - 1 \in 1..Len(Tail(q)) /\ (j - 1) + 1 = j
      BY <2>3, SeqTail
    <3>2. Tail(q)[j - 1] = q[j]
      BY <3>1, SeqTail
    <3>3. QED
      BY <2>1, <3>1, <3>2
  <2>4. QED
    BY <2>2, <2>3
<1>5. QED
  BY <1>3, <1>4 DEF Readied

LEMMA OrdersMore ==
  ASSUME NEW q, NEW B, NEW D, Orders(q, B), \A c : \A f \in Terms : SetField(c, f) \in B => SetField(c, f) \in D
  PROVE  Orders(q, D)
<1>1. SUFFICES ASSUME NEW i \in 1..Len(q), Proper(q[i])
               PROVE  Readied(D \cup {q[j] : j \in 1..i - 1}, q[i].c)
  BY DEF Orders
<1>2. Readied(B \cup {q[j] : j \in 1..i - 1}, q[i].c)
  BY <1>1 DEF Orders
<1>3. QED
  BY <1>2 DEF Readied

LEMMA OrdersAppend ==
  ASSUME NEW q, NEW B, NEW k, IsSeq(q), Orders(q, B),
         Proper(k) => Readied(B \cup Items(q), k.c)
  PROVE  Orders(Append(q, k), B)
<1>1. PICK u : u = Append(q, k)
  OBVIOUS
<1>2. PICK n \in Nat : n = Len(q)
  BY SeqAppend
<1>3. /\ Len(u) = n + 1 /\ u[n + 1] = k /\ \A i \in 1..n : u[i] = q[i]
  BY <1>1, <1>2, SeqAppend
<1>4. SUFFICES ASSUME NEW i \in 1..n + 1, Proper(u[i])
               PROVE  Readied(B \cup {u[j] : j \in 1..i - 1}, u[i].c)
  BY <1>1, <1>3 DEF Orders
<1>5. \A j \in 1..i - 1 : j \in 1..n /\ u[j] = q[j]
  BY <1>3
<1>6. {u[j] : j \in 1..i - 1} = {q[j] : j \in 1..i - 1}
  BY <1>5
<1>7. CASE i \in 1..n
  <2>1. u[i] = q[i]
    BY <1>3, <1>7
  <2>2. Readied(B \cup {q[j] : j \in 1..i - 1}, u[i].c)
    BY <1>2, <1>4, <1>7, <2>1 DEF Orders
  <2>3. QED
    BY <1>6, <2>2
<1>8. CASE i = n + 1
  <2>1. i - 1 = n
    BY <1>8
  <2>2. Items(q) = {q[j] : j \in 1..i - 1}
    BY <1>2, <2>1 DEF Items
  <2>3. QED
    BY <1>3, <1>4, <1>6, <1>8, <2>2
<1>9. QED
  BY <1>7, <1>8

-----------------------------------------------------------------------------
(***************************************************************************)
(* Calls.                                                                  *)
(***************************************************************************)
LEMMA ChainKnown ==
  ASSUME NEW ch \in Chains
  PROVE  /\ ch.reserves \in [Collections -> Reserve] /\ ch.tranches \in [Collections -> [Tranches -> Nat]]
         /\ ch.weth \in Nat
         /\ \A c \in Collections : ch.reserves[c] \in Reserve /\ ch.reserves[c].set \subseteq Fields
         /\ \A c \in Collections : \A t \in Tranches : ch.tranches[c][t] \in Nat
BY DEF Chains, Reserve

\* A call changes at most the reserve it names; SetField for each field, by
\* one call or by all of them.
After(k, ch) == IF Succeeds(k, ch) THEN Result(k, ch) ELSE ch

LEMMA ResultTyped ==
  ASSUME NEW k, NEW ch \in Chains, GoodCall(k), Succeeds(k, ch)
  PROVE  Result(k, ch) \in Chains
<1>1. /\ ch.reserves \in [Collections -> Reserve] /\ ch.tranches \in [Collections -> [Tranches -> Nat]]
      /\ ch.weth \in Nat
  BY ChainKnown
<1>2. CASE k.fn = "initReserve"
  <2>1. k.c \in Collections
    BY <1>2 DEF GoodCall, OfReserve
  <2>2. [ch.reserves EXCEPT ![k.c].initialized = TRUE] \in [Collections -> Reserve]
    BY <1>1, <2>1 DEF Reserve
  <2>3. QED
    BY <1>2, <2>2 DEF Result, Chains
<1>3. CASE k.fn = "initReserves"
  <2>1. k.c \in Collections /\ k.x \in Treasuries
    BY <1>3 DEF GoodCall, OfReserve
  <2>2. [ch.reserves EXCEPT ![k.c] = [initialized |-> TRUE, active |-> TRUE, bare |-> FALSE, set |-> Fields]]
          \in [Collections -> Reserve]
    BY <1>1, <2>1 DEF Reserve
  <2>3. QED
    BY <1>3, <2>1, <2>2 DEF Result, Chains
<1>4. CASE k.fn = "set"
  <2>1. k.c \in Collections /\ k.x \in Fields
    BY <1>4 DEF GoodCall, OfReserve
  <2>2. [ch.reserves EXCEPT ![k.c].set = @ \cup {k.x}] \in [Collections -> Reserve]
    BY <1>1, <2>1 DEF Reserve
  <2>3. QED
    BY <1>4, <2>2 DEF Result, Chains
<1>5. CASE k.fn = "activateReserve"
  <2>1. k.c \in Collections
    BY <1>5 DEF GoodCall, OfReserve
  <2>2. PICK b \in BOOLEAN : b = (k.x # k.c /\ (ch.reserves[k.c].bare \/ ~ch.reserves[k.c].active))
    OBVIOUS
  <2>3. [ch.reserves EXCEPT ![k.c].active = TRUE, ![k.c].bare = b] \in [Collections -> Reserve]
    BY <1>1, <2>1 DEF Reserve
  <2>4. Result(k, ch) = [ch EXCEPT !.reserves = [ch.reserves EXCEPT ![k.c].active = TRUE, ![k.c].bare = b]]
    BY <1>1, <1>5, <2>1, <2>2 DEF Result, Chains, Reserve
  <2>5. QED
    BY <2>3, <2>4 DEF Chains
<1>6. CASE k.fn = "deactivateReserve"
  <2>1. k.c \in Collections
    BY <1>6 DEF GoodCall, OfReserve
  <2>2. [ch.reserves EXCEPT ![k.c].active = FALSE] \in [Collections -> Reserve]
    BY <1>1, <2>1 DEF Reserve
  <2>3. QED
    BY <1>6, <2>2 DEF Result, Chains
<1>7. CASE k.fn = "updateProtocolFee"
  BY <1>7 DEF Result, Chains, GoodCall
<1>8. CASE k.fn = "updateTwap"
  BY <1>8 DEF Result, Chains, GoodCall
<1>9. CASE k.fn = "authorizeConfigurator"
  BY <1>9 DEF Result, Chains
<1>10. CASE k.fn = "wrap"
  <2>1. ch.weth + k.x \in Nat
    BY <1>1, <1>10 DEF GoodCall
  <2>2. QED
    BY <1>10, <2>1 DEF Result, Chains
<1>11. CASE k.fn = "transfer"
  <2>1. ch.weth - k.x \in Nat
    BY <1>1, <1>11 DEF GoodCall, Succeeds
  <2>2. QED
    BY <1>11, <2>1 DEF Result, Chains
<1>12. CASE k.fn = "approve"
  BY <1>12 DEF Result, Chains
<1>13. CASE k.fn = "deposit"
  <2>1. /\ k.c \in Collections /\ k.x.amount \in Nat /\ k.x.tranche \in Tranches
        /\ ch.weth >= k.x.amount
    BY <1>13 DEF GoodCall, Succeeds, OfReserve
  <2>2. PICK n \in Nat : n = k.x.amount
    BY <2>1
  <2>3. ch.weth - n \in Nat
    BY <1>1, <2>1, <2>2
  <2>4. [ch.tranches EXCEPT ![k.c][k.x.tranche] = @ + n] \in [Collections -> [Tranches -> Nat]]
    BY <1>1, <2>1
  <2>5. Result(k, ch) = [ch EXCEPT !.weth = @ - n, !.tranches[k.c][k.x.tranche] = @ + n]
    BY <1>13, <2>2 DEF Result
  <2>6. QED
    BY <2>3, <2>4, <2>5 DEF Chains
<1>14. CASE k.fn \notin {"initReserve", "initReserves", "set", "activateReserve", "deactivateReserve",
                        "updateProtocolFee", "updateTwap", "authorizeConfigurator", "wrap", "transfer",
                        "approve", "deposit"}
  <2>1. Result(k, ch) = ch
    BY <1>14 DEF Result
  <2>2. QED
    BY <2>1
<1>15. QED
  BY <1>2, <1>3, <1>4, <1>5, <1>6, <1>7, <1>8, <1>9, <1>10, <1>11, <1>12, <1>13, <1>14

LEMMA AfterTyped ==
  ASSUME NEW k, NEW ch \in Chains, GoodCall(k)
  PROVE  After(k, ch) \in Chains
BY ResultTyped DEF After

\* What a call does to the reserves.
LEMMA ReservesAfter ==
  ASSUME NEW k, NEW ch \in Chains, GoodCall(k), NEW c \in Collections
  PROVE  LET old == ch.reserves[c]
             new == After(k, ch).reserves[c]
         IN /\ old.initialized => new.initialized
            /\ old.set \subseteq new.set
            /\ new.active /\ ~new.bare =>
                 (old.active /\ ~old.bare) \/ new.set = Fields \/ (Proper(k) /\ k.c = c)
            /\ old.active /\ k.fn # "deactivateReserve" => new.active
            /\ k.fn = "set" /\ k.c = c => k.x \in new.set
            /\ k.fn = "activateReserve" /\ k.c = c => new.active
            /\ k.fn = "initReserve" /\ k.c = c => new.initialized
<1>1. /\ ch.reserves \in [Collections -> Reserve] /\ ch.reserves[c].set \subseteq Fields
  BY ChainKnown
<1>0. DOMAIN ch = {"reserves", "treasury", "twap", "configurator", "weth", "approved", "tranches"}
  BY DEF Chains
<1>a. \A d \in Collections : DOMAIN ch.reserves[d] = {"initialized", "active", "bare", "set"}
  BY <1>1 DEF Reserve
<1>2. CASE k.fn = "initReserve"
  <2>1. Succeeds(k, ch) <=> ~ch.reserves[k.c].initialized
    BY <1>2 DEF Succeeds
  <2>2. Result(k, ch) = [ch EXCEPT !.reserves[k.c].initialized = TRUE]
    BY <1>2 DEF Result
  <2>3. QED
    BY <1>0, <1>a, <1>1, <1>2, <2>1, <2>2 DEF After
<1>3. CASE k.fn = "initReserves"
  <2>1. Result(k, ch).reserves = [ch.reserves EXCEPT ![k.c] = [initialized |-> TRUE, active |-> TRUE, bare |-> FALSE, set |-> Fields]]
    BY <1>0, <1>3 DEF Result
  <2>2. QED
    BY <1>1, <1>3, <2>1 DEF After
<1>4. CASE k.fn = "set"
  <2>1. Succeeds(k, ch)
    BY <1>4 DEF Succeeds
  <2>2. Result(k, ch).reserves = [ch.reserves EXCEPT ![k.c].set = @ \cup {k.x}]
    BY <1>0, <1>4 DEF Result
  <2>3. QED
    BY <1>a, <1>1, <1>4, <2>1, <2>2 DEF After
<1>5. CASE k.fn = "activateReserve"
  <2>1. Succeeds(k, ch)
    BY <1>5 DEF Succeeds
  <2>2. PICK b : b = (k.x # k.c /\ (ch.reserves[k.c].bare \/ ~ch.reserves[k.c].active))
    OBVIOUS
  <2>3. Result(k, ch).reserves = [ch.reserves EXCEPT ![k.c].active = TRUE, ![k.c].bare = b]
    BY <1>0, <1>a, <1>1, <1>5, <2>2 DEF Result
  <2>4. CASE k.c # c
    BY <1>a, <1>1, <1>5, <2>1, <2>3, <2>4 DEF After
  <2>5. CASE k.c = c
    <3>1. Result(k, ch).reserves[c] = [ch.reserves[c] EXCEPT !.active = TRUE, !.bare = b]
      BY <1>1, <2>3, <2>5
    <3>2. PICK new : new = After(k, ch).reserves[c]
      OBVIOUS
    <3>3. /\ new.initialized = ch.reserves[c].initialized /\ new.set = ch.reserves[c].set
          /\ new.active = TRUE /\ new.bare = b
      BY <1>a, <2>1, <3>1, <3>2 DEF After
    <3>4. ~b => k.x = k.c \/ (~ch.reserves[c].bare /\ ch.reserves[c].active)
      BY <2>2, <2>5
    <3>5. QED
      BY <1>1, <1>5, <2>5, <3>2, <3>3, <3>4 DEF Proper
  <2>6. QED
    BY <2>4, <2>5
<1>6. CASE k.fn = "deactivateReserve"
  <2>1. Succeeds(k, ch)
    BY <1>6 DEF Succeeds
  <2>2. Result(k, ch).reserves = [ch.reserves EXCEPT ![k.c].active = FALSE]
    BY <1>0, <1>6 DEF Result
  <2>3. QED
    BY <1>a, <1>1, <1>6, <2>1, <2>2 DEF After
<1>7. CASE k.fn \notin {"initReserve", "initReserves", "set", "activateReserve", "deactivateReserve"}
  <2>1. Result(k, ch).reserves = ch.reserves
    BY <1>0, <1>7 DEF Result
  <2>2. QED
    BY <1>7, <2>1 DEF After
<1>8. QED
  BY <1>2, <1>3, <1>4, <1>5, <1>6, <1>7

LEMMA HaveMeans ==
  ASSUME NEW ch, NEW c, NEW f
  PROVE  SetField(c, f) \in Have(ch) <=> c \in Collections /\ f \in ch.reserves[c].set
<1>1. \A d, g : SetField(c, f) = SetField(d, g) => c = d /\ f = g
  BY DEF SetField, Call
<1>2. QED
  BY <1>1 DEF Have

LEMMA HaveAfter ==
  ASSUME NEW k, NEW ch \in Chains, GoodCall(k), NEW c, NEW f, SetField(c, f) \in Have(ch) \cup {k}
  PROVE  SetField(c, f) \in Have(After(k, ch))
<1>1. CASE SetField(c, f) \in Have(ch)
  BY <1>1, HaveMeans, ReservesAfter
<1>2. CASE SetField(c, f) = k
  <2>1. k.fn = "set" /\ k.c = c /\ k.x = f /\ c \in Collections
    BY <1>2 DEF SetField, Call, GoodCall, OfReserve
  <2>2. QED
    BY <2>1, HaveMeans, ReservesAfter
<1>3. QED
  BY <1>1, <1>2

\* What it does to the rest.
LEMMA OthersAfter ==
  ASSUME NEW k, NEW ch \in Chains, GoodCall(k)
  PROVE  /\ ch.treasury # None => After(k, ch).treasury # None
         /\ k.fn = "updateProtocolFee" => After(k, ch).treasury # None
         /\ ch.twap \subseteq After(k, ch).twap
         /\ k.fn = "updateTwap" => k.c \in After(k, ch).twap
         /\ ch.approved => After(k, ch).approved
         /\ k.fn = "approve" => After(k, ch).approved
<1>0. DOMAIN ch = {"reserves", "treasury", "twap", "configurator", "weth", "approved", "tranches"}
  BY DEF Chains
<1>1. k.fn \in {"updateProtocolFee", "initReserves"} => k.x # None
  BY NamesAssumption DEF GoodCall
<1>2. /\ Result(k, ch).treasury = IF k.fn \in {"updateProtocolFee", "initReserves"} THEN k.x ELSE ch.treasury
      /\ Result(k, ch).twap = IF k.fn = "updateTwap" THEN ch.twap \cup {k.c} ELSE ch.twap
      /\ Result(k, ch).approved = IF k.fn = "approve" THEN TRUE ELSE ch.approved
  BY <1>0 DEF Result
<1>3. k.fn \in {"updateProtocolFee", "updateTwap", "approve"} => Succeeds(k, ch)
  BY DEF Succeeds
<1>4. QED
  BY <1>1, <1>2, <1>3 DEF After

LEMMA MoneyAfter ==
  ASSUME NEW k, NEW ch \in Chains, GoodCall(k)
  PROVE  /\ ~Spends(k) => After(k, ch).weth >= ch.weth
         /\ k.fn = "wrap" => After(k, ch).weth = ch.weth + k.x
         /\ k.fn = "transfer" /\ Succeeds(k, ch) => After(k, ch).weth = ch.weth - k.x
         /\ k.fn = "deposit" /\ Succeeds(k, ch) => After(k, ch).weth = ch.weth - k.x.amount
<1>0. DOMAIN ch = {"reserves", "treasury", "twap", "configurator", "weth", "approved", "tranches"}
  BY DEF Chains
<1>1. ch.weth \in Nat
  BY ChainKnown
<1>2. CASE k.fn = "wrap"
  <2>1. Succeeds(k, ch) /\ Result(k, ch).weth = ch.weth + k.x
    BY <1>0, <1>2 DEF Succeeds, Result
  <2>2. k.x \in Nat
    BY <1>2 DEF GoodCall
  <2>3. QED
    BY <1>1, <1>2, <2>1, <2>2 DEF After
<1>3. CASE k.fn = "transfer"
  <2>1. Result(k, ch).weth = ch.weth - k.x
    BY <1>0, <1>3 DEF Result
  <2>2. QED
    BY <1>3, <2>1 DEF After, Spends
<1>4. CASE k.fn = "deposit"
  <2>1. Result(k, ch).weth = ch.weth - k.x.amount
    BY <1>0, <1>4 DEF Result
  <2>2. QED
    BY <1>4, <2>1 DEF After, Spends
<1>5. CASE k.fn \notin {"wrap", "transfer", "deposit"}
  <2>1. Result(k, ch).weth = ch.weth
    BY <1>0, <1>5 DEF Result
  <2>2. QED
    BY <1>1, <1>5, <2>1 DEF After
<1>6. QED
  BY <1>2, <1>3, <1>4, <1>5

LEMMA TranchesAfter ==
  ASSUME NEW k, NEW ch \in Chains, GoodCall(k), NEW c \in Collections, NEW t \in Tranches
  PROVE  /\ After(k, ch).tranches[c][t] >= ch.tranches[c][t]
         /\ k.fn = "deposit" /\ k.c = c /\ k.x.tranche = t /\ Succeeds(k, ch)
              => After(k, ch).tranches[c][t] >= k.x.amount
<1>0. DOMAIN ch = {"reserves", "treasury", "twap", "configurator", "weth", "approved", "tranches"}
  BY DEF Chains
<1>1. ch.tranches \in [Collections -> [Tranches -> Nat]] /\ ch.tranches[c][t] \in Nat
  BY ChainKnown
<1>2. CASE k.fn = "deposit"
  <2>1. k.c \in Collections /\ k.x.amount \in Nat /\ k.x.tranche \in Tranches
    BY <1>2 DEF GoodCall, OfReserve
  <2>2. PICK n \in Nat : n = k.x.amount
    BY <2>1
  <2>3. Result(k, ch).tranches = [ch.tranches EXCEPT ![k.c][k.x.tranche] = @ + n]
    BY <1>0, <1>2, <2>2 DEF Result
  <2>4. \/ Result(k, ch).tranches[c][t] = ch.tranches[c][t] /\ ~(k.c = c /\ k.x.tranche = t)
        \/ Result(k, ch).tranches[c][t] = ch.tranches[c][t] + n
    BY <1>1, <2>1, <2>3
  <2>5. QED
    BY <1>1, <1>2, <2>2, <2>4 DEF After
<1>3. CASE k.fn # "deposit"
  <2>1. Result(k, ch).tranches = ch.tranches
    BY <1>0, <1>3 DEF Result
  <2>2. QED
    BY <1>1, <1>3, <2>1 DEF After
<1>4. QED
  BY <1>2, <1>3

\* The calls of a set-up reach what they are for, and nothing else undoes it.
LEMMA GoalsKnown ==
  ASSUME NEW g \in Goals
  PROVE  /\ GoodCall(g)
         /\ \/ g.fn \in {"initReserve", "activateReserve"} /\ g.c = Crab
            \/ g.fn = "set" /\ g.c = Crab /\ g.x \in Fields
            \/ g.fn = "updateProtocolFee"
            \/ g.fn = "updateTwap" /\ g.c = Crab
<1>1. Crab \in Collections /\ "owner" \in Treasuries
  BY SetupAssumption DEF Treasuries
<1>2. QED
  BY <1>1 DEF Goals, Call, SetField, GoodCall, OfReserve

LEMMA GoalKept ==
  ASSUME NEW g \in Goals, NEW k, NEW ch \in Chains, GoodCall(k), k.fn # "deactivateReserve", Done(g, ch)
  PROVE  Done(g, After(k, ch))
<1>1. Crab \in Collections
  BY SetupAssumption
<1>2. PICK old : old = ch.reserves[Crab]
  OBVIOUS
<1>3. PICK new : new = After(k, ch).reserves[Crab]
  OBVIOUS
<1>4. /\ old.initialized => new.initialized
      /\ old.set \subseteq new.set
      /\ old.active => new.active
  BY <1>1, <1>2, <1>3, ReservesAfter
<1>5. /\ ch.treasury # None => After(k, ch).treasury # None
      /\ ch.twap \subseteq After(k, ch).twap
  BY OthersAfter
<1>6. QED
  BY <1>2, <1>3, <1>4, <1>5, GoalsKnown DEF Done

LEMMA GoalReached ==
  ASSUME NEW g \in Goals, NEW ch \in Chains
  PROVE  Done(g, After(g, ch))
<1>1. Crab \in Collections /\ GoodCall(g)
  BY SetupAssumption, GoalsKnown
<1>2. PICK new : new = After(g, ch).reserves[Crab]
  OBVIOUS
<1>3. g.c = Crab => /\ g.fn = "initReserve" => new.initialized
                    /\ g.fn = "activateReserve" => new.active
                    /\ g.fn = "set" => g.x \in new.set
  BY <1>1, <1>2, ReservesAfter
<1>4. /\ g.fn = "updateProtocolFee" => After(g, ch).treasury # None
      /\ g.fn = "updateTwap" => g.c \in After(g, ch).twap
  BY <1>1, OthersAfter
<1>5. QED
  BY <1>2, <1>3, <1>4, GoalsKnown DEF Done

LEMMA FundedKept ==
  ASSUME NEW t \in Tranches, NEW k, NEW ch \in Chains, GoodCall(k), Funded(t, ch)
  PROVE  Funded(t, After(k, ch))
<1>1. Crab \in Collections
  BY SetupAssumption
<1>2. AmountOf(t) \in Nat
  BY AmountsAssumption DEF AmountOf
<1>3. ch.tranches[Crab][t] \in Nat /\ After(k, ch).tranches[Crab][t] \in Nat
  BY <1>1, AfterTyped, ChainKnown
<1>4. After(k, ch).tranches[Crab][t] >= ch.tranches[Crab][t]
  BY <1>1, TranchesAfter
<1>5. QED
  BY <1>2, <1>3, <1>4 DEF Funded

LEMMA FundedReached ==
  ASSUME NEW t \in Tranches, NEW ch \in Chains, Succeeds(DepositOf(t), ch)
  PROVE  Funded(t, After(DepositOf(t), ch))
<1>1. PICK k : k = DepositOf(t)
  OBVIOUS
<1>2. Crab \in Collections /\ AmountOf(t) \in Nat
  BY SetupAssumption, AmountsAssumption DEF AmountOf
<1>3. k.fn = "deposit" /\ k.c = Crab /\ k.x.tranche = t /\ k.x.amount = AmountOf(t)
  BY <1>1 DEF DepositOf, Call
<1>4. GoodCall(k)
  BY <1>2, <1>3 DEF GoodCall, OfReserve
<1>5. QED
  BY <1>1, <1>2, <1>3, <1>4, TranchesAfter DEF Funded

-----------------------------------------------------------------------------
(***************************************************************************)
(* Tasks: a plan has good steps, is prepared given B, and has the steps I. *)
(***************************************************************************)
Plan(s, B, I) == GoodSteps(s) /\ Prepares(s, B) /\ Items(s) = I
Await(k) == [op |-> "send", call |-> k, await |-> TRUE]
Only(k) == [op |-> "send", call |-> k, await |-> FALSE]

LEMMA PlanOne ==
  ASSUME NEW x, NEW B, GoodStep(x), Activation(x) => Readied(B, x.call.c)
  PROVE  Plan(<<x>>, B, {x})
<1>1. PICK q : q = <<x>>
  OBVIOUS
<1>2. IsSeq(q) /\ Len(q) = 1 /\ q[1] = x /\ Items(q) = {x}
  BY <1>1, SeqOne
<1>3. ASSUME NEW i \in 1..Len(q), Activation(q[i])
      PROVE  Readied(B \cup Before(q, i), q[i].call.c)
  <2>1. i = 1
    BY <1>2
  <2>2. Readied(B, q[i].call.c)
    BY <1>2, <1>3, <2>1
  <2>3. QED
    BY <2>2 DEF Readied
<1>4. QED
  BY <1>1, <1>2, <1>3 DEF Plan, GoodSteps, Prepares

LEMMA PlanNone ==
  ASSUME NEW B
  PROVE  Plan(<<>>, B, {})
BY SeqNone DEF Plan, GoodSteps, Prepares

LEMMA PlanNext ==
  ASSUME NEW s, NEW t, NEW B, NEW I, NEW J, Plan(s, B, I), Plan(t, B \cup SentOf(I), J)
  PROVE  Plan(Joined(s, t), B, I \cup J)
<1>1. IsSeq(s) /\ IsSeq(t) /\ Sent(s) = SentOf(I)
  BY DEF Plan, GoodSteps, Sent
<1>2. IsSeq(Joined(s, t)) /\ Items(Joined(s, t)) = I \cup J
  BY <1>1, SeqJoined DEF Plan
<1>3. Prepares(Joined(s, t), B)
  BY <1>1, PreparesJoined DEF Plan
<1>4. QED
  BY <1>2, <1>3 DEF Plan, GoodSteps

LEMMA PlanMore ==
  ASSUME NEW s, NEW B, NEW D, NEW I, Plan(s, B, I), B \subseteq D
  PROVE  Plan(s, D, I)
<1>1. Prepares(s, D)
  BY PreparesMore DEF Plan
<1>2. QED
  BY <1>1 DEF Plan

LEMMA PlanThen ==
  ASSUME NEW s, NEW t, NEW B, NEW I, NEW J, Plan(s, B, I), Plan(t, B, J)
  PROVE  Plan(Joined(s, t), B, I \cup J)
<1>1. Plan(t, B \cup SentOf(I), J)
  BY PlanMore
<1>2. QED
  BY <1>1, PlanNext

LEMMA PlanAside ==
  ASSUME NEW k, NEW B, GoodCall(k), ~Proper(k)
  PROVE  Plan(Send(k), B, {Await(k)})
<1>1. GoodStep(Await(k)) /\ ~Activation(Await(k))
  BY DEF GoodStep, Await, Activation
<1>2. QED
  BY <1>1, PlanOne DEF Send, Await

LEMMA PlanSend ==
  ASSUME NEW k, NEW B, GoodCall(k), k.fn # "activateReserve"
  PROVE  Plan(Send(k), B, {Await(k)})
BY PlanAside DEF Proper

LEMMA PlanSendOnly ==
  ASSUME NEW k, NEW B, GoodCall(k), k.fn # "activateReserve", k.fn \notin Awaited
  PROVE  Plan(SendOnly(k), B, {Only(k)})
<1>1. GoodStep(Only(k)) /\ ~Activation(Only(k))
  BY DEF GoodStep, Only, Activation, Proper
<1>2. QED
  BY <1>1, PlanOne DEF SendOnly, Only

LEMMA PlanActivate ==
  ASSUME NEW c \in Collections, NEW for, NEW B, for = c => Readied(B, c)
  PROVE  Plan(Send(Call("activateReserve", c, for)), B, {Await(Call("activateReserve", c, for))})
<1>1. PICK k : k = Call("activateReserve", c, for)
  OBVIOUS
<1>2. k.fn = "activateReserve" /\ k.c = c /\ k.x = for
  BY <1>1 DEF Call
<1>3. GoodCall(k) /\ k.fn \notin Awaited
  BY <1>2 DEF GoodCall, OfReserve, Awaited
<1>4. GoodStep(Await(k)) /\ (Activation(Await(k)) => Readied(B, Await(k).call.c))
  BY <1>2, <1>3 DEF GoodStep, Await, Activation, Proper
<1>5. Plan(<<Await(k)>>, B, {Await(k)})
  BY <1>4, PlanOne
<1>6. QED
  BY <1>1, <1>5 DEF Send, Await

LEMMA PlanWhen ==
  ASSUME NEW condition \in BOOLEAN, NEW s, NEW B, NEW I, condition => Plan(s, B, I)
  PROVE  Plan(When(condition, s), B, IF condition THEN I ELSE {})
BY PlanNone DEF When

\* The last step of the whole is that of its last part.
LEMMA EndsJoined ==
  ASSUME NEW s, NEW t, IsSeq(s), IsSeq(t), t # <<>>, EndsAwaited(t)
  PROVE  EndsAwaited(Joined(s, t)) /\ Joined(s, t) # <<>>
<1>1. PICK u : u = Joined(s, t)
  OBVIOUS
<1>2. Len(t) \in Nat /\ Len(t) > 0
  BY SeqTail
<1>3. Len(u) = Len(s) + Len(t) /\ Len(s) \in Nat /\ u[Len(s) + Len(t)] = t[Len(t)]
  <2>1. Len(t) \in 1..Len(t)
    BY <1>2
  <2>2. QED
    BY <1>1, <2>1, SeqJoined
<1>4. u # <<>>
  BY <1>2, <1>3, SeqNone
<1>5. QED
  BY <1>1, <1>3, <1>4 DEF EndsAwaited

LEMMA EndsSend ==
  ASSUME NEW k
  PROVE  EndsAwaited(Send(k)) /\ Send(k) # <<>> /\ IsSeq(Send(k)) /\ Items(Send(k)) = {Await(k)}
<1>1. PICK x : x = Await(k)
  OBVIOUS
<1>2. PICK q : q = <<x>>
  OBVIOUS
<1>3. IsSeq(q) /\ Len(q) = 1 /\ q[1] = x /\ Items(q) = {x}
  BY <1>2, SeqOne
<1>4. q # <<>>
  BY <1>3, SeqNone
<1>5. x.op = "send" /\ x.await
  BY <1>1 DEF Await
<1>6. EndsAwaited(q)
  BY <1>3, <1>5 DEF EndsAwaited
<1>7. Send(k) = q
  BY <1>1, <1>2 DEF Send, Await
<1>8. QED
  BY <1>1, <1>3, <1>4, <1>6, <1>7

LEMMA EndsTail ==
  ASSUME NEW s, IsSeq(s), s # <<>>, EndsAwaited(s)
  PROVE  EndsAwaited(Tail(s))
<1>1. SUFFICES ASSUME Tail(s) # <<>>
               PROVE  EndsAwaited(Tail(s))
  BY DEF EndsAwaited
<1>2. IsSeq(Tail(s)) /\ Len(Tail(s)) \in Nat /\ Len(Tail(s)) > 0 /\ Len(Tail(s)) = Len(s) - 1 /\ Len(s) \in Nat
  BY <1>1, SeqTail
<1>3. Len(Tail(s)) \in 1..Len(Tail(s))
  BY <1>2
<1>4. Tail(s)[Len(Tail(s))] = s[Len(Tail(s)) + 1]
  BY <1>3, SeqTail
<1>5. Len(Tail(s)) + 1 = Len(s)
  BY <1>2
<1>6. QED
  BY <1>4, <1>5 DEF EndsAwaited

(***************************************************************************)
(* What follows the reading of the status of a reserve.                    *)
(***************************************************************************)
Statuses == [initialized : BOOLEAN, active : BOOLEAN, bare : BOOLEAN, set : SUBSET Fields]
InitializeItems(c, status) ==
  (IF ~status.initialized THEN {Await(Call("initReserve", c, None))} ELSE {})
    \cup {Await(SetField(c, "bonus")), Await(SetField(c, "income")), Await(SetField(c, "loan")),
          Await(SetField(c, "liquidity")), Only(SetField(c, "staleness")), Only(SetField(c, "tolerance"))}
    \cup (IF ~status.active THEN {Await(Call("activateReserve", Crab, c))} ELSE {})
    \cup {Await(Call("updateProtocolFee", None, "owner")), Await(Call("updateTwap", c, None))}

LEMMA SetFieldGood ==
  ASSUME NEW c \in Collections, NEW f \in Fields
  PROVE  GoodCall(SetField(c, f)) /\ SetField(c, f).fn = "set"
BY DEF GoodCall, SetField, Call, OfReserve

LEMMA InitializePlan ==
  ASSUME NEW c \in Collections, NEW status \in Statuses, NEW B
  PROVE  /\ Plan(InitializeReserve(c, status), B, InitializeItems(c, status))
         /\ EndsAwaited(InitializeReserve(c, status)) /\ InitializeReserve(c, status) # <<>>
<1>0. status.initialized \in BOOLEAN /\ status.active \in BOOLEAN /\ Crab \in Collections
  BY SetupAssumption DEF Statuses
<1> PICK a1 : a1 = When(~status.initialized, Send(Call("initReserve", c, None)))
  OBVIOUS
<1> PICK a2 : a2 = Send(SetField(c, "bonus"))
  OBVIOUS
<1> PICK a3 : a3 = Send(SetField(c, "income"))
  OBVIOUS
<1> PICK a4 : a4 = Send(SetField(c, "loan"))
  OBVIOUS
<1> PICK a5 : a5 = Send(SetField(c, "liquidity"))
  OBVIOUS
<1> PICK a6 : a6 = SendOnly(SetField(c, "staleness"))
  OBVIOUS
<1> PICK a7 : a7 = SendOnly(SetField(c, "tolerance"))
  OBVIOUS
<1> PICK a8 : a8 = When(~status.active, Send(Call("activateReserve", Crab, c)))
  OBVIOUS
<1> PICK a9 : a9 = Send(Call("updateProtocolFee", None, "owner"))
  OBVIOUS
<1> PICK a10 : a10 = Send(Call("updateTwap", c, None))
  OBVIOUS
<1> DEFINE I1 == IF ~status.initialized THEN {Await(Call("initReserve", c, None))} ELSE {}
           I8 == IF ~status.active THEN {Await(Call("activateReserve", Crab, c))} ELSE {}
           J3 == (I1 \cup {Await(SetField(c, "bonus"))}) \cup {Await(SetField(c, "income"))}
           J7 == (((J3 \cup {Await(SetField(c, "loan"))}) \cup {Await(SetField(c, "liquidity"))})
                   \cup {Only(SetField(c, "staleness"))}) \cup {Only(SetField(c, "tolerance"))}
<1>1. Plan(a1, B, I1)
  <2>1. Call("initReserve", c, None).fn = "initReserve" /\ Call("initReserve", c, None).c = c
    BY DEF Call
  <2>2. GoodCall(Call("initReserve", c, None))
    BY <2>1 DEF GoodCall, OfReserve
  <2>3. Plan(Send(Call("initReserve", c, None)), B, {Await(Call("initReserve", c, None))})
    BY <2>1, <2>2, PlanSend
  <2>4. QED
    BY <1>0, <2>3, PlanWhen
<1>2. \A f \in Fields : Plan(Send(SetField(c, f)), B, {Await(SetField(c, f))})
  BY SetFieldGood, PlanSend
<1>3. \A f \in Fields : Plan(SendOnly(SetField(c, f)), B, {Only(SetField(c, f))})
  <2>1. "set" \notin Awaited
    BY DEF Awaited
  <2>2. QED
    BY <2>1, SetFieldGood, PlanSendOnly
<1>4. Plan(a2, B, {Await(SetField(c, "bonus"))}) /\ Plan(a3, B, {Await(SetField(c, "income"))})
        /\ Plan(a4, B, {Await(SetField(c, "loan"))}) /\ Plan(a5, B, {Await(SetField(c, "liquidity"))})
        /\ Plan(a6, B, {Only(SetField(c, "staleness"))}) /\ Plan(a7, B, {Only(SetField(c, "tolerance"))})
  <2>1. {"bonus", "income", "loan", "liquidity", "staleness", "tolerance"} \subseteq Fields
    BY DEF Fields
  <2>2. QED
    BY <1>2, <1>3, <2>1
<1>5. Plan(Joined(Joined(a1, a2), a3), B, J3)
  <2> HIDE DEF I1
  <2>1. Plan(Joined(a1, a2), B, I1 \cup {Await(SetField(c, "bonus"))})
    BY <1>1, <1>4, PlanThen
  <2>2. QED
    BY <2>1, <1>4, PlanThen
<1> PICK b3 : b3 = Joined(Joined(a1, a2), a3)
  OBVIOUS
<1>6. Plan(Joined(Joined(Joined(Joined(b3, a4), a5), a6), a7), B, J7)
  <2> HIDE DEF J3
  <2>0. Plan(b3, B, J3)
    BY <1>5
  <2>1. Plan(Joined(b3, a4), B, J3 \cup {Await(SetField(c, "loan"))})
    BY <1>4, <2>0, PlanThen
  <2>2. Plan(Joined(Joined(b3, a4), a5), B, (J3 \cup {Await(SetField(c, "loan"))}) \cup {Await(SetField(c, "liquidity"))})
    BY <1>4, <2>1, PlanThen
  <2>3. Plan(Joined(Joined(Joined(b3, a4), a5), a6), B,
             ((J3 \cup {Await(SetField(c, "loan"))}) \cup {Await(SetField(c, "liquidity"))})
               \cup {Only(SetField(c, "staleness"))})
    BY <1>4, <2>2, PlanThen
  <2>4. QED
    BY <1>4, <2>3, PlanThen
<1> PICK b7 : b7 = Joined(Joined(Joined(Joined(b3, a4), a5), a6), a7)
  OBVIOUS
<1>7. Plan(a8, B \cup SentOf(J7), I8)
  <2>1. c = Crab => Readied(B \cup SentOf(J7), Crab)
    <3>1. SUFFICES ASSUME c = Crab
                   PROVE  Readied(B \cup SentOf(J7), c)
      OBVIOUS
    <3>2. \A f \in Terms : Await(SetField(c, f)) \in J7
      BY DEF Terms
    <3>3. \A f \in Terms : SetField(c, f) \in SentOf(J7)
      <4> HIDE DEF J7
      <4>1. \A f : SetField(c, f) \in Adds(Await(SetField(c, f)))
        BY DEF Adds, Await
      <4>2. QED
        BY <3>2, <4>1 DEF SentOf
    <3>4. QED
      BY <3>3 DEF Readied
  <2> HIDE DEF J7
  <2>2. Plan(Send(Call("activateReserve", Crab, c)), B \cup SentOf(J7),
             {Await(Call("activateReserve", Crab, c))})
    BY <1>0, <2>1, PlanActivate
  <2>3. QED
    BY <1>0, <2>2, PlanWhen
<1>8. \A D : Plan(a9, D, {Await(Call("updateProtocolFee", None, "owner"))})
  <2>1. PICK k : k = Call("updateProtocolFee", None, "owner")
    OBVIOUS
  <2>2. GoodCall(k) /\ k.fn # "activateReserve"
    BY <2>1 DEF GoodCall, Call, OfReserve, Treasuries
  <2>3. QED
    BY <2>1, <2>2, PlanSend
<1>9. \A D : Plan(a10, D, {Await(Call("updateTwap", c, None))})
  <2>1. PICK k : k = Call("updateTwap", c, None)
    OBVIOUS
  <2>2. GoodCall(k) /\ k.fn # "activateReserve"
    BY <2>1 DEF GoodCall, Call, OfReserve
  <2>3. QED
    BY <2>1, <2>2, PlanSend
<1> PICK s : s = Joined(Joined(Joined(b7, a8), a9), a10)
  OBVIOUS
<1>10. Plan(s, B, ((J7 \cup I8) \cup {Await(Call("updateProtocolFee", None, "owner"))})
                    \cup {Await(Call("updateTwap", c, None))})
  <2> HIDE DEF J7, I8
  <2>1. Plan(b7, B, J7)
    BY <1>6
  <2>2. Plan(Joined(b7, a8), B, J7 \cup I8)
    BY <1>7, <2>1, PlanNext
  <2>3. Plan(Joined(Joined(b7, a8), a9), B, (J7 \cup I8) \cup {Await(Call("updateProtocolFee", None, "owner"))})
    BY <1>8, <2>2, PlanThen
  <2>4. QED
    BY <1>9, <2>3, PlanThen
<1>11. ((J7 \cup I8) \cup {Await(Call("updateProtocolFee", None, "owner"))})
          \cup {Await(Call("updateTwap", c, None))} = InitializeItems(c, status)
  BY DEF InitializeItems
<1>12. InitializeReserve(c, status) = s
  BY DEF InitializeReserve, Joined, SetTwap
<1>13. EndsAwaited(s) /\ s # <<>>
  <2>1. IsSeq(Joined(Joined(b7, a8), a9))
    <3> HIDE DEF J7, I8
    <3>1. Plan(b7, B, J7)
      BY <1>6
    <3>2. Plan(Joined(b7, a8), B, J7 \cup I8)
      BY <1>7, <3>1, PlanNext
    <3>3. IsSeq(Joined(b7, a8)) /\ IsSeq(a9)
      BY <1>8, <3>2 DEF Plan, GoodSteps
    <3>4. QED
      BY <3>3, SeqJoined
  <2>2. EndsAwaited(a10) /\ a10 # <<>> /\ IsSeq(a10)
    BY EndsSend
  <2>3. QED
    BY <2>1, <2>2, EndsJoined
<1>14. QED
  <2> HIDE DEF J7, I8
  <2>1. QED
    BY <1>10, <1>11, <1>12, <1>13

LEMMA CallFields ==
  ASSUME NEW fn, NEW c, NEW x
  PROVE  Call(fn, c, x).fn = fn /\ Call(fn, c, x).c = c /\ Call(fn, c, x).x = x
BY DEF Call

CreateItems(c, status) ==
  (IF ~status.initialized THEN {Await(Call("initReserve", c, None))} ELSE {})
    \cup {Await(SetField(c, "bonus")), Await(SetField(c, "income")), Await(SetField(c, "loan"))}
    \cup (IF ~status.active THEN {Await(Call("activateReserve", c, c))} ELSE {})

LEMMA CreatePlan ==
  ASSUME NEW c \in Collections, NEW status \in Statuses, NEW B
  PROVE  Plan(CreateReserve(c, status), B, CreateItems(c, status))
<1>0. status.initialized \in BOOLEAN /\ status.active \in BOOLEAN
  BY DEF Statuses
<1> PICK a1 : a1 = When(~status.initialized, Send(Call("initReserve", c, None)))
  OBVIOUS
<1> PICK a2 : a2 = Send(SetField(c, "bonus"))
  OBVIOUS
<1> PICK a3 : a3 = Send(SetField(c, "income"))
  OBVIOUS
<1> PICK a4 : a4 = Send(SetField(c, "loan"))
  OBVIOUS
<1> PICK a5 : a5 = When(~status.active, Send(Call("activateReserve", c, c)))
  OBVIOUS
<1> DEFINE I1 == IF ~status.initialized THEN {Await(Call("initReserve", c, None))} ELSE {}
           I5 == IF ~status.active THEN {Await(Call("activateReserve", c, c))} ELSE {}
           J4 == ((I1 \cup {Await(SetField(c, "bonus"))}) \cup {Await(SetField(c, "income"))})
                   \cup {Await(SetField(c, "loan"))}
<1>1. Plan(a1, B, I1)
  <2>1. Call("initReserve", c, None).fn = "initReserve" /\ Call("initReserve", c, None).c = c
    BY DEF Call
  <2>2. GoodCall(Call("initReserve", c, None))
    BY <2>1 DEF GoodCall, OfReserve
  <2>3. Plan(Send(Call("initReserve", c, None)), B, {Await(Call("initReserve", c, None))})
    BY <2>1, <2>2, PlanSend
  <2>4. QED
    BY <1>0, <2>3, PlanWhen
<1>2. Plan(a2, B, {Await(SetField(c, "bonus"))}) /\ Plan(a3, B, {Await(SetField(c, "income"))})
        /\ Plan(a4, B, {Await(SetField(c, "loan"))})
  <2>1. {"bonus", "income", "loan"} \subseteq Fields
    BY DEF Fields
  <2>2. QED
    BY <2>1, SetFieldGood, PlanSend
<1> PICK b4 : b4 = Joined(Joined(Joined(a1, a2), a3), a4)
  OBVIOUS
<1>3. Plan(b4, B, J4)
  <2> HIDE DEF I1
  <2>1. Plan(Joined(a1, a2), B, I1 \cup {Await(SetField(c, "bonus"))})
    BY <1>1, <1>2, PlanThen
  <2>2. Plan(Joined(Joined(a1, a2), a3), B, (I1 \cup {Await(SetField(c, "bonus"))}) \cup {Await(SetField(c, "income"))})
    BY <2>1, <1>2, PlanThen
  <2>3. QED
    BY <2>2, <1>2, PlanThen
<1>4. Plan(a5, B \cup SentOf(J4), I5)
  <2>1. \A f \in Terms : Await(SetField(c, f)) \in J4
    BY DEF Terms
  <2> HIDE DEF J4
  <2>2. \A f : SetField(c, f) \in Adds(Await(SetField(c, f)))
    BY DEF Adds, Await
  <2>3. Readied(B \cup SentOf(J4), c)
    BY <2>1, <2>2 DEF SentOf, Readied
  <2>4. Plan(Send(Call("activateReserve", c, c)), B \cup SentOf(J4),
             {Await(Call("activateReserve", c, c))})
    BY <2>3, PlanActivate
  <2>5. QED
    BY <1>0, <2>4, PlanWhen
<1>5. Plan(Joined(b4, a5), B, J4 \cup I5)
  <2> HIDE DEF J4, I5
  <2>1. QED
    BY <1>3, <1>4, PlanNext
<1>6. J4 \cup I5 = CreateItems(c, status)
  BY DEF CreateItems
<1>7. CreateReserve(c, status) = Joined(b4, a5)
  BY DEF CreateReserve, Joined
<1>8. QED
  <2> HIDE DEF J4, I5
  <2>1. QED
    BY <1>5, <1>6, <1>7

ConfiguratorItems(c, status) ==
  IF ~status.initialized THEN {Only(Call("initReserves", c, "treasury"))} ELSE {}
LEMMA ConfiguratorPlan ==
  ASSUME NEW c \in Collections, NEW status \in Statuses, NEW B
  PROVE  Plan(ConfiguratorInitialize(c, status), B, ConfiguratorItems(c, status))
<1>1. PICK k : k = Call("initReserves", c, "treasury")
  OBVIOUS
<1>2. GoodCall(k) /\ k.fn # "activateReserve" /\ k.fn \notin Awaited
  BY <1>1 DEF GoodCall, Call, OfReserve, Treasuries, Awaited
<1>3. Plan(SendOnly(k), B, {Only(k)})
  BY <1>2, PlanSendOnly
<1>4. status.initialized \in BOOLEAN
  BY DEF Statuses
<1>5. QED
  BY <1>1, <1>3, <1>4, PlanWhen DEF ConfiguratorInitialize, ConfiguratorItems

StatusItems(task, c, status) ==
  CASE task = "initialize-reserve" -> InitializeItems(c, status)
    [] task = "configurator-initialize-reserve" -> ConfiguratorItems(c, status)
    [] task = "create_reserve" -> CreateItems(c, status)
LEMMA StatusPlan ==
  ASSUME NEW task \in StatusTasks, NEW c \in Collections, NEW status \in Statuses, NEW B
  PROVE  Plan(AfterStatus(task, c, status), B, StatusItems(task, c, status))
<1>1. CASE task = "initialize-reserve"
  BY <1>1, InitializePlan DEF AfterStatus, StatusItems
<1>2. CASE task = "configurator-initialize-reserve"
  BY <1>2, ConfiguratorPlan DEF AfterStatus, StatusItems
<1>3. CASE task = "create_reserve"
  BY <1>3, CreatePlan DEF AfterStatus, StatusItems
<1>4. QED
  BY <1>1, <1>2, <1>3 DEF StatusTasks

\* They are all calls, none a deactivation.
LEMMA StatusSends ==
  ASSUME NEW task \in StatusTasks, NEW c, NEW status, NEW x \in StatusItems(task, c, status)
  PROVE  x.op = "send" /\ x.call.fn # "deactivateReserve"
<1>1. \A k : /\ Await(k).op = "send" /\ Await(k).call = k
             /\ Only(k).op = "send" /\ Only(k).call = k
  BY DEF Await, Only
<1>2. \E k : (x = Await(k) \/ x = Only(k)) /\ k.fn # "deactivateReserve"
  <2>1. CASE task = "initialize-reserve"
    <3>1. x \in InitializeItems(c, status)
      BY <2>1 DEF StatusItems
    <3>2. QED
      BY <3>1, CallFields DEF InitializeItems, SetField
  <2>2. CASE task = "configurator-initialize-reserve"
    <3>1. x \in ConfiguratorItems(c, status)
      BY <2>2 DEF StatusItems
    <3>2. QED
      BY <3>1, CallFields DEF ConfiguratorItems
  <2>3. CASE task = "create_reserve"
    <3>1. x \in CreateItems(c, status)
      BY <2>3 DEF StatusItems
    <3>2. QED
      BY <3>1, CallFields DEF CreateItems, SetField
  <2>4. QED
    BY <2>1, <2>2, <2>3 DEF StatusTasks
<1>3. QED
  BY <1>1, <1>2

\* The calls of initialize-reserve are those that remain to be done.
LEMMA InitializeSends ==
  ASSUME NEW ch \in Chains, NEW g \in Goals
  PROVE  Done(g, ch) \/ g \in SentOf(InitializeItems(Crab, ch.reserves[Crab]))
<1>1. PICK st : st = ch.reserves[Crab]
  OBVIOUS
<1>2. PICK I : I = InitializeItems(Crab, st)
  OBVIOUS
<1>3. \A k : Await(k) \in I \/ Only(k) \in I => k \in SentOf(I)
  <2>1. \A k : k \in Adds(Await(k)) /\ k \in Adds(Only(k))
    BY DEF Adds, Await, Only
  <2>2. QED
    BY <2>1 DEF SentOf
<1>4. CASE g = Call("initReserve", Crab, None)
  <2>1. ~st.initialized => Await(g) \in I
    BY <1>2, <1>4 DEF InitializeItems
  <2>2. st.initialized => Done(g, ch)
    <3>1. g.fn = "initReserve"
      BY <1>4, CallFields
    <3>2. QED
      BY <1>1, <3>1 DEF Done
  <2>3. QED
    BY <1>1, <1>2, <1>3, <2>1, <2>2
<1>5. CASE g = Call("activateReserve", Crab, Crab)
  <2>1. ~st.active => Await(g) \in I
    BY <1>2, <1>5 DEF InitializeItems
  <2>2. st.active => Done(g, ch)
    <3>1. g.fn = "activateReserve"
      BY <1>5, CallFields
    <3>2. QED
      BY <1>1, <3>1 DEF Done
  <2>3. QED
    BY <1>1, <1>2, <1>3, <2>1, <2>2
<1>6. CASE g = Call("updateProtocolFee", None, "owner") \/ g = Call("updateTwap", Crab, None)
  <2>1. Await(g) \in I
    BY <1>2, <1>6 DEF InitializeItems
  <2>2. QED
    BY <1>1, <1>2, <1>3, <2>1
<1>7. CASE g \in {SetField(Crab, f) : f \in Fields}
  <2>1. Await(g) \in I \/ Only(g) \in I
    BY <1>2, <1>7 DEF InitializeItems, Fields
  <2>2. QED
    BY <1>1, <1>2, <1>3, <2>1
<1>8. QED
  BY <1>4, <1>5, <1>6, <1>7 DEF Goals

(***************************************************************************)
(* Tasks and single calls.                                                 *)
(***************************************************************************)
StatusStep(task, c) == [op |-> "status", task |-> task, c |-> c]
WrapStep(amount) == [op |-> "wrapMissing", amount |-> amount]
ApproveStep == [op |-> "approveOnce"]

LEMMA ReadPlan ==
  ASSUME NEW task \in StatusTasks, NEW c \in Collections, NEW B
  PROVE  /\ Plan(ReadStatus(task, c), B, {StatusStep(task, c)})
         /\ EndsAwaited(ReadStatus(task, c)) /\ ReadStatus(task, c) # <<>>
<1>1. PICK x : x = StatusStep(task, c)
  OBVIOUS
<1>2. x.op = "status" /\ x.task = task /\ x.c = c
  BY <1>1 DEF StatusStep
<1>3. GoodStep(x) /\ ~Activation(x)
  BY <1>2 DEF GoodStep, Activation
<1>4. PICK q : q = <<x>>
  OBVIOUS
<1>5. Plan(q, B, {x})
  BY <1>3, <1>4, PlanOne
<1>6. Len(q) = 1 /\ q[1] = x
  BY <1>4, SeqOne
<1>7. EndsAwaited(q) /\ q # <<>>
  BY <1>2, <1>6, SeqNone DEF EndsAwaited
<1>8. ReadStatus(task, c) = q
  BY <1>1, <1>4 DEF ReadStatus, StatusStep
<1>9. QED
  BY <1>1, <1>5, <1>7, <1>8

DepositItems(c, tranche, amount) ==
  {WrapStep(amount), ApproveStep, Await(Call("deposit", c, [tranche |-> tranche, amount |-> amount]))}
LEMMA DepositPlan ==
  ASSUME NEW c \in Collections, NEW tranche \in Tranches, NEW amount \in Nat, NEW B
  PROVE  /\ Plan(Deposit(c, tranche, amount), B, DepositItems(c, tranche, amount))
         /\ EndsAwaited(Deposit(c, tranche, amount)) /\ Deposit(c, tranche, amount) # <<>>
<1>1. PICK x : x = WrapStep(amount)
  OBVIOUS
<1>2. PICK y : y = ApproveStep
  OBVIOUS
<1>3. PICK k : k = Call("deposit", c, [tranche |-> tranche, amount |-> amount])
  OBVIOUS
<1>4. GoodStep(x) /\ ~Activation(x) /\ GoodStep(y) /\ ~Activation(y)
  BY <1>1, <1>2 DEF GoodStep, Activation, WrapStep, ApproveStep
<1>5. k.fn = "deposit" /\ k.c = c /\ k.x.tranche = tranche /\ k.x.amount = amount
  BY <1>3, CallFields
<1>6. GoodCall(k)
  BY <1>5 DEF GoodCall, OfReserve
<1>7. PICK p : p = <<x>>
  OBVIOUS
<1>8. PICK q : q = <<y>>
  OBVIOUS
<1>9. Plan(p, B, {x}) /\ Plan(q, B, {y}) /\ Plan(Send(k), B, {Await(k)})
  BY <1>4, <1>5, <1>6, <1>7, <1>8, PlanOne, PlanSend
<1>10. Plan(Joined(p, q), B, {x} \cup {y})
  BY <1>9, PlanThen
<1>11. Plan(Joined(Joined(p, q), Send(k)), B, ({x} \cup {y}) \cup {Await(k)})
  BY <1>9, <1>10, PlanThen
<1>12. <<x, y>> = Joined(p, q)
  <2>1. PICK U : x \in U /\ y \in U
    <3>1. x \in {x, y} /\ y \in {x, y}
      OBVIOUS
    <3>2. QED
      BY <3>1
  <2>2. PICK r : r = <<x, y>>
    OBVIOUS
  <2>3. r \in Seq(U) /\ Len(r) = 2 /\ r[1] = x /\ r[2] = y
    BY <2>1, <2>2
  <2>4. IsSeq(p) /\ IsSeq(q) /\ Len(p) = 1 /\ Len(q) = 1 /\ p[1] = x /\ q[1] = y
    BY <1>7, <1>8, SeqOne
  <2>5. PICK u : u = Joined(p, q)
    OBVIOUS
  <2>6. 1 \in 1..Len(p) /\ 1 \in 1..Len(q)
    BY <2>4
  <2>7. IsSeq(u) /\ Len(u) = 1 + 1 /\ u[1] = x /\ u[1 + 1] = y
    <3>4. /\ IsSeq(Joined(p, q)) /\ Len(Joined(p, q)) = Len(p) + Len(q)
          /\ \A i \in 1..Len(p) : Joined(p, q)[i] = p[i]
          /\ \A i \in 1..Len(q) : Joined(p, q)[Len(p) + i] = q[i]
      <4>1. IsSeq(p) /\ IsSeq(q)
        BY <2>4
      <4>2. QED
        BY <4>1, SeqJoined
    <3>1. /\ IsSeq(u) /\ Len(u) = Len(p) + Len(q)
          /\ \A i \in 1..Len(p) : u[i] = p[i]
          /\ \A i \in 1..Len(q) : u[Len(p) + i] = q[i]
      BY <2>5, <3>4
    <3>2. u[1] = p[1] /\ u[Len(p) + 1] = q[1]
      BY <2>6, <3>1
    <3>3. QED
      BY <2>4, <3>1, <3>2
  <2>8. PICK V : u \in Seq(V)
    BY <2>7 DEF IsSeq
  <2>9. DOMAIN u = 1..2 /\ DOMAIN r = 1..2 /\ u = [i \in DOMAIN u |-> u[i]] /\ r = [i \in DOMAIN r |-> r[i]]
    BY <2>3, <2>7, <2>8
  <2>10. \A i \in 1..2 : u[i] = r[i]
    <3>1. \A i \in 1..2 : i = 1 \/ i = 1 + 1
      OBVIOUS
    <3>2. r[1 + 1] = y
      BY <2>3
    <3>3. QED
      BY <2>3, <2>7, <3>1, <3>2
  <2>11. u = r
    BY <2>9, <2>10
  <2>12. QED
    BY <2>2, <2>5, <2>11
<1>13. Deposit(c, tranche, amount) = Joined(<<x, y>>, Send(k))
  BY <1>1, <1>2, <1>3 DEF Deposit, WrapStep, ApproveStep, Joined
<1>14. DepositItems(c, tranche, amount) = ({x} \cup {y}) \cup {Await(k)}
  BY <1>1, <1>2, <1>3 DEF DepositItems
<1>15. IsSeq(Joined(p, q))
  BY <1>10 DEF Plan, GoodSteps
<1>16. EndsAwaited(Joined(Joined(p, q), Send(k))) /\ Joined(Joined(p, q), Send(k)) # <<>>
  BY <1>15, EndsSend, EndsJoined
<1>17. QED
  BY <1>11, <1>12, <1>13, <1>14, <1>16

BootstrapItems(c) ==
  {StatusStep("initialize-reserve", c), Await(ApproveCall)}
    \cup DepositItems(c, "junior", Junior) \cup DepositItems(c, "senior", Senior)
LEMMA BootstrapPlan ==
  ASSUME NEW c \in Collections, NEW B
  PROVE  /\ Plan(Bootstrap(c), B, BootstrapItems(c))
         /\ EndsAwaited(Bootstrap(c)) /\ Bootstrap(c) # <<>>
<1>0. Junior \in Nat /\ Senior \in Nat /\ "junior" \in Tranches /\ "senior" \in Tranches
  BY AmountsAssumption DEF Tranches
<1> PICK a1 : a1 = ReadStatus("initialize-reserve", c)
  OBVIOUS
<1> PICK a2 : a2 = Send(ApproveCall)
  OBVIOUS
<1> PICK a3 : a3 = Deposit(c, "junior", Junior)
  OBVIOUS
<1> PICK a4 : a4 = Deposit(c, "senior", Senior)
  OBVIOUS
<1>1. Plan(a1, B, {StatusStep("initialize-reserve", c)})
  BY ReadPlan DEF StatusTasks
<1>2. Plan(a2, B, {Await(ApproveCall)})
  <2>1. GoodCall(ApproveCall) /\ ApproveCall.fn # "activateReserve"
    BY DEF ApproveCall, Call, GoodCall, OfReserve
  <2>2. QED
    BY <2>1, PlanSend
<1>3. /\ Plan(a3, B, DepositItems(c, "junior", Junior))
      /\ Plan(a4, B, DepositItems(c, "senior", Senior)) /\ EndsAwaited(a4) /\ a4 # <<>>
  BY <1>0, DepositPlan
<1>4. Plan(Joined(a1, a2), B, {StatusStep("initialize-reserve", c)} \cup {Await(ApproveCall)})
  BY <1>1, <1>2, PlanThen
<1>5. Plan(Joined(Joined(a1, a2), a3), B,
           ({StatusStep("initialize-reserve", c)} \cup {Await(ApproveCall)}) \cup DepositItems(c, "junior", Junior))
  BY <1>3, <1>4, PlanThen
<1>6. Plan(Joined(Joined(Joined(a1, a2), a3), a4), B,
           (({StatusStep("initialize-reserve", c)} \cup {Await(ApproveCall)}) \cup DepositItems(c, "junior", Junior))
             \cup DepositItems(c, "senior", Senior))
  BY <1>3, <1>5, PlanThen
<1>7. (({StatusStep("initialize-reserve", c)} \cup {Await(ApproveCall)}) \cup DepositItems(c, "junior", Junior))
             \cup DepositItems(c, "senior", Senior) = BootstrapItems(c)
  BY DEF BootstrapItems
<1>8. Bootstrap(c) = Joined(Joined(Joined(a1, a2), a3), a4)
  <2>1. ApproveWETH \o Deposit(c, "junior", Junior) = Joined(a2, a3)
    BY DEF ApproveWETH, Joined, ApproveCall
  <2>2. QED
    BY DEF Bootstrap, ApproveWETH, Joined, ApproveCall
<1>9. EndsAwaited(Joined(Joined(Joined(a1, a2), a3), a4)) /\ Joined(Joined(Joined(a1, a2), a3), a4) # <<>>
  <2>1. IsSeq(Joined(Joined(a1, a2), a3)) /\ IsSeq(a4)
    BY <1>3, <1>5 DEF Plan, GoodSteps
  <2>2. QED
    BY <1>3, <2>1, EndsJoined
<1>10. QED
  BY <1>6, <1>7, <1>8, <1>9

\* A task that sets up a reserve.
LEMMA TaskPlan ==
  ASSUME NEW task \in TaskNames, NEW c \in Collections, NEW B
  PROVE  \E I : /\ Plan(TaskSteps(task, c), B, I)
                /\ \A x \in I : /\ ~Activation(x) /\ (x.op = "send" => x.call.fn # "deactivateReserve")
                                /\ x.op = "status" => x.c = c
                /\ task \in Complete =>
                     /\ EndsAwaited(TaskSteps(task, c)) /\ TaskSteps(task, c) # <<>>
                     /\ StatusStep("initialize-reserve", c) \in I
                     /\ \A x \in I : x.op = "status" => x.task = "initialize-reserve"
                /\ task = "bootstrap" =>
                     /\ DepositItems(c, "junior", Junior) \subseteq I
                     /\ DepositItems(c, "senior", Senior) \subseteq I
<1>1. CASE task = "bootstrap"
  <2>1. PICK I : I = BootstrapItems(c)
    OBVIOUS
  <2>2. ASSUME NEW x \in I
        PROVE  \/ x.op \in {"wrapMissing", "approveOnce"}
               \/ x.op = "send" /\ x.call.fn \in {"approve", "deposit"}
               \/ x.op = "status" /\ x.c = c /\ x.task = "initialize-reserve"
    BY <2>1, CallFields DEF BootstrapItems, DepositItems, WrapStep, ApproveStep, StatusStep, Await, ApproveCall
  <2>3. \A x \in I : /\ ~Activation(x) /\ (x.op = "send" => x.call.fn # "deactivateReserve")
                     /\ x.op = "status" => x.c = c /\ x.task = "initialize-reserve"
    BY <2>2 DEF Activation, Proper
  <2>4. TaskSteps(task, c) = Bootstrap(c)
    BY <1>1 DEF TaskSteps
  <2>5. /\ DepositItems(c, "junior", Junior) \subseteq I /\ DepositItems(c, "senior", Senior) \subseteq I
        /\ StatusStep("initialize-reserve", c) \in I
    BY <2>1 DEF BootstrapItems
  <2>6. QED
    BY <1>1, <2>1, <2>3, <2>4, <2>5, BootstrapPlan
<1>2. CASE task # "bootstrap"
  <2>1. TaskSteps(task, c) = ReadStatus(task, c) /\ task \in StatusTasks
    BY <1>2 DEF TaskSteps, TaskNames, StatusTasks
  <2>2. PICK I : I = {StatusStep(task, c)}
    OBVIOUS
  <2>3. \A x \in I : x.op = "status" /\ x.c = c /\ x.task = task
    BY <2>2 DEF StatusStep
  <2>4. /\ Plan(TaskSteps(task, c), B, I)
        /\ EndsAwaited(TaskSteps(task, c)) /\ TaskSteps(task, c) # <<>>
    BY <2>1, <2>2, ReadPlan
  <2>5. task \in Complete => task = "initialize-reserve"
    BY <1>2 DEF Complete
  <2>6. QED
    BY <1>2, <2>2, <2>3, <2>4, <2>5 DEF Activation
<1>3. QED
  BY <1>1, <1>2

\* A task that does one thing.
LEMMA ManualPlan ==
  ASSUME NEW name \in ManualNames, NEW c \in Collections, NEW B
  PROVE  \E I : /\ Plan(ManualSteps(name, c), B, I)
                /\ \A x \in I : /\ x.op # "status"
                                /\ x.op = "send" /\ x.call.fn = "deactivateReserve" => name = "deactivate"
<1>1. ASSUME NEW k, GoodCall(k), k.fn # "activateReserve", k.fn = "deactivateReserve" => name = "deactivate",
             ManualSteps(name, c) = Send(k)
      PROVE  \E I : /\ Plan(ManualSteps(name, c), B, I)
                    /\ \A x \in I : /\ x.op # "status"
                                    /\ x.op = "send" /\ x.call.fn = "deactivateReserve" => name = "deactivate"
  <2>1. Plan(Send(k), B, {Await(k)})
    BY <1>1, PlanSend
  <2>2. Await(k).op = "send" /\ Await(k).call = k
    BY DEF Await
  <2>3. \A x \in {Await(k)} : /\ x.op # "status"
                              /\ x.op = "send" /\ x.call.fn = "deactivateReserve" => name = "deactivate"
    BY <1>1, <2>2
  <2>4. QED
    BY <1>1, <2>1, <2>3
<1>2. \A f \in Fields : GoodCall(SetField(c, f)) /\ SetField(c, f).fn = "set"
  BY SetFieldGood
<1>3. CASE name = "loan"
  <2>1. ManualSteps(name, c) = Send(SetField(c, "loan"))
    BY <1>3 DEF ManualSteps, SetLoanParams
  <2>2. QED
    BY <1>1, <1>2, <2>1 DEF Fields
<1>4. CASE name = "staleness"
  <2>1. ManualSteps(name, c) = Send(SetField(c, "staleness"))
    BY <1>4 DEF ManualSteps, SetTwapStaleness
  <2>2. QED
    BY <1>1, <1>2, <2>1 DEF Fields
<1>5. CASE name = "tolerance"
  <2>1. ManualSteps(name, c) = Send(SetField(c, "tolerance"))
    BY <1>5 DEF ManualSteps, SetTwapTolerance
  <2>2. QED
    BY <1>1, <1>2, <2>1 DEF Fields
<1>6. CASE name = "activate"
  <2>1. ManualSteps(name, c) = Send(Call("activateReserve", c, None))
    BY <1>6 DEF ManualSteps, ActivateReserve
  <2>2. PICK k : k = Call("activateReserve", c, None)
    OBVIOUS
  <2>3. Plan(ManualSteps(name, c), B, {Await(k)})
    BY <2>1, <2>2, SetupAssumption, PlanActivate
  <2>4. k.fn = "activateReserve" /\ Await(k).op = "send" /\ Await(k).call = k
    BY <2>2, CallFields DEF Await
  <2>5. QED
    BY <2>3, <2>4
<1>7. CASE name = "deactivate"
  <2>1. ManualSteps(name, c) = Send(Call("deactivateReserve", c, None))
    BY <1>7 DEF ManualSteps, DeactivateReserve
  <2>2. PICK k : k = Call("deactivateReserve", c, None)
    OBVIOUS
  <2>3. k.fn = "deactivateReserve" /\ k.c = c
    BY <2>2, CallFields
  <2>4. GoodCall(k)
    BY <2>3 DEF GoodCall, OfReserve
  <2>5. QED
    BY <1>1, <1>7, <2>1, <2>2, <2>3, <2>4
<1>8. CASE name = "treasury"
  <2>1. ManualSteps(name, c) = Send(Call("updateProtocolFee", None, "multisig"))
    BY <1>8 DEF ManualSteps, ConfigureTreasury
  <2>2. PICK k : k = Call("updateProtocolFee", None, "multisig")
    OBVIOUS
  <2>3. k.fn = "updateProtocolFee" /\ k.x \in Treasuries
    BY <2>2, CallFields DEF Treasuries
  <2>4. GoodCall(k)
    BY <2>3 DEF GoodCall, OfReserve
  <2>5. QED
    BY <1>1, <1>8, <2>1, <2>2, <2>3, <2>4
<1>9. CASE name = "oracle"
  <2>1. ManualSteps(name, c) = Send(Call("updateTwap", c, None))
    BY <1>9 DEF ManualSteps, ConfigureOracle, SetTwap
  <2>2. PICK k : k = Call("updateTwap", c, None)
    OBVIOUS
  <2>3. k.fn = "updateTwap" /\ k.c = c
    BY <2>2, CallFields
  <2>4. GoodCall(k)
    BY <2>3 DEF GoodCall, OfReserve
  <2>5. QED
    BY <1>1, <1>9, <2>1, <2>2, <2>3, <2>4
<1>10. CASE name = "configurator"
  <2>1. ManualSteps(name, c) = Send(Call("authorizeConfigurator", None, None))
    BY <1>10 DEF ManualSteps, ConfigureConfigurator
  <2>2. PICK k : k = Call("authorizeConfigurator", None, None)
    OBVIOUS
  <2>3. k.fn = "authorizeConfigurator"
    BY <2>2, CallFields
  <2>4. GoodCall(k)
    BY <2>3 DEF GoodCall, OfReserve
  <2>5. QED
    BY <1>1, <1>10, <2>1, <2>2, <2>3, <2>4
<1>11. CASE name = "strategy"
  <2>1. ManualSteps(name, c) = SendOnly(Call("setInterestRateStrategyAddress", c, None))
    BY <1>11 DEF ManualSteps, ConfigureInterestStrategy
  <2>2. PICK k : k = Call("setInterestRateStrategyAddress", c, None)
    OBVIOUS
  <2>3. k.fn = "setInterestRateStrategyAddress"
    BY <2>2, CallFields
  <2>4. GoodCall(k) /\ k.fn \notin Awaited
    BY <2>3 DEF GoodCall, OfReserve, Awaited
  <2>5. Plan(ManualSteps(name, c), B, {Only(k)})
    BY <2>1, <2>2, <2>3, <2>4, PlanSendOnly
  <2>6. Only(k).op = "send" /\ Only(k).call = k
    BY DEF Only
  <2>7. QED
    BY <2>3, <2>5, <2>6
<1>12. CASE name = "deposit"
  <2>1. ManualSteps(name, c) = Deposit(c, "junior", Junior)
    BY <1>12 DEF ManualSteps, DepositReserveTask
  <2>2. PICK I : I = DepositItems(c, "junior", Junior)
    OBVIOUS
  <2>3. Plan(ManualSteps(name, c), B, I)
    BY <2>1, <2>2, DepositPlan, AmountsAssumption DEF Tranches
  <2>4. ASSUME NEW x \in I
        PROVE  \/ x.op \in {"wrapMissing", "approveOnce"}
               \/ x.op = "send" /\ x.call.fn = "deposit"
    BY <2>2, CallFields DEF DepositItems, WrapStep, ApproveStep, Await
  <2>5. QED
    BY <2>3, <2>4
<1>13. QED
  BY <1>3, <1>4, <1>5, <1>6, <1>7, <1>8, <1>9, <1>10, <1>11, <1>12 DEF ManualNames

-----------------------------------------------------------------------------
(***************************************************************************)
(* What the runner is given: the chosen scripts, in order.                 *)
(***************************************************************************)
RunnerStep(x) ==
  /\ GoodStep(x) /\ ScriptStep(x) /\ ~Activation(x)
  /\ x.op = "send" => x.call.fn # "deactivateReserve"
Piece(s, lo, hi) == Phase(s, lo, hi) /\ \A x \in Items(s) : RunnerStep(x)
MayPrecede(m, l) == m < l \/ (m = l /\ m \in {1, 6})

LEMMA RankKnown ==
  ASSUME NEW x, ScriptStep(x)
  PROVE  Rank(x) \in 1..7
BY DEF Rank, CallRank

LEMMA PieceNone ==
  ASSUME NEW lo, NEW hi
  PROVE  Piece(<<>>, lo, hi)
<1>1. IsSeq(<<>>) /\ Len(<<>>) = 0 /\ Items(<<>>) = {}
  BY SeqNone
<1>2. 1..0 = {}
  OBVIOUS
<1>3. QED
  BY <1>1, <1>2 DEF Piece, Phase

LEMMA PieceOne ==
  ASSUME NEW x, RunnerStep(x)
  PROVE  Piece(<<x>>, Rank(x), Rank(x))
<1>1. PICK s : s = <<x>>
  OBVIOUS
<1>2. IsSeq(s) /\ Len(s) = 1 /\ s[1] = x /\ Items(s) = {x}
  BY <1>1, SeqOne
<1>3. \A i \in 1..Len(s) : i = 1
  BY <1>2
<1>4. ScriptStep(x) /\ Rank(x) \in 1..7
  BY RankKnown DEF RunnerStep
<1>5. Rank(x) <= Rank(x)
  BY <1>4
<1>6. ~(1 < 1)
  OBVIOUS
<1>7. Phase(s, Rank(x), Rank(x))
  BY <1>2, <1>3, <1>4, <1>5, <1>6 DEF Phase
<1>8. QED
  BY <1>1, <1>2, <1>7 DEF Piece

LEMMA PhaseJoined ==
  ASSUME NEW s, NEW t, NEW l \in 1..7, NEW m \in 1..7, NEW n \in 1..7, NEW h \in 1..7,
         l <= m, n <= h, MayPrecede(m, n), Phase(s, l, m), Phase(t, n, h)
  PROVE  Phase(Joined(s, t), l, h)
<1>1. IsSeq(s) /\ IsSeq(t)
  BY DEF Phase
<1>2. PICK u : u = Joined(s, t)
  OBVIOUS
<1>3. PICK k : k = Len(s)
  OBVIOUS
<1>4. /\ IsSeq(u) /\ k \in Nat /\ Len(t) \in Nat /\ Len(u) = k + Len(t)
      /\ \A i \in 1..k : u[i] = s[i]
      /\ \A i \in 1..Len(u) : i \in 1..k \/ (i - k \in 1..Len(t) /\ u[i] = t[i - k])
  BY <1>1, <1>2, <1>3, SeqJoined
<1>5. \A i \in 1..k : ScriptStep(s[i]) /\ Rank(s[i]) \in 1..7 /\ l <= Rank(s[i]) /\ Rank(s[i]) <= m
  BY <1>3, RankKnown DEF Phase
<1>6. \A i \in 1..Len(t) : ScriptStep(t[i]) /\ Rank(t[i]) \in 1..7 /\ n <= Rank(t[i]) /\ Rank(t[i]) <= h
  BY RankKnown DEF Phase
<1>7. m <= n
  BY DEF MayPrecede
<1>8. ASSUME NEW i \in 1..Len(u)
      PROVE  ScriptStep(u[i]) /\ l <= Rank(u[i]) /\ Rank(u[i]) <= h
  <2>1. CASE i \in 1..k
    <3>1. PICK r \in 1..7 : r = Rank(s[i])
      BY <2>1, <1>5
    <3>2. u[i] = s[i] /\ ScriptStep(s[i]) /\ l <= r /\ r <= m
      BY <2>1, <3>1, <1>4, <1>5
    <3>3. l <= r /\ r <= h
      BY <3>2, <1>7
    <3>4. QED
      BY <3>1, <3>2, <3>3
  <2>2. CASE i - k \in 1..Len(t) /\ u[i] = t[i - k]
    <3>1. PICK r \in 1..7 : r = Rank(t[i - k])
      BY <2>2, <1>6
    <3>2. u[i] = t[i - k] /\ ScriptStep(t[i - k]) /\ n <= r /\ r <= h
      BY <2>2, <3>1, <1>6
    <3>3. l <= r /\ r <= h
      BY <3>2, <1>7
    <3>4. QED
      BY <3>1, <3>2, <3>3
  <2>3. QED
    BY <2>1, <2>2, <1>4
<1>9. ASSUME NEW i \in 1..Len(u), NEW j \in 1..Len(u), i < j
      PROVE  Rank(u[i]) <= Rank(u[j]) /\ (Rank(u[i]) = Rank(u[j]) => Rank(u[i]) \in {1, 6})
  <2>1. CASE i \in 1..k /\ j \in 1..k
    BY <2>1, <1>3, <1>4, <1>9 DEF Phase
  <2>2. CASE i \in 1..k /\ j - k \in 1..Len(t) /\ u[j] = t[j - k]
    <3>1. PICK r \in 1..7 : r = Rank(s[i])
      BY <2>2, <1>5
    <3>2. PICK q \in 1..7 : q = Rank(t[j - k])
      BY <2>2, <1>6
    <3>3. r <= m /\ n <= q
      BY <2>2, <3>1, <3>2, <1>5, <1>6
    <3>4. r <= q /\ (r = q => r \in {1, 6})
      BY <3>3 DEF MayPrecede
    <3>5. u[i] = s[i] /\ u[j] = t[j - k]
      BY <2>2, <1>4
    <3>6. QED
      BY <3>1, <3>2, <3>4, <3>5
  <2>3. CASE i - k \in 1..Len(t) /\ u[i] = t[i - k] /\ j - k \in 1..Len(t) /\ u[j] = t[j - k]
    <3>1. i - k < j - k
      BY <1>4, <1>9
    <3>2. QED
      BY <2>3, <3>1 DEF Phase
  <2>4. j \in 1..k => i \in 1..k
    BY <1>4, <1>9
  <2>5. QED
    BY <2>1, <2>2, <2>3, <2>4, <1>4
<1>10. QED
  BY <1>2, <1>4, <1>8, <1>9 DEF Phase

LEMMA PieceJoined ==
  ASSUME NEW s, NEW t, NEW l \in 1..7, NEW m \in 1..7, NEW n \in 1..7, NEW h \in 1..7,
         l <= m, n <= h, MayPrecede(m, n), Piece(s, l, m), Piece(t, n, h)
  PROVE  Piece(Joined(s, t), l, h) /\ Items(Joined(s, t)) = Items(s) \cup Items(t)
<1>1. Phase(s, l, m) /\ Phase(t, n, h)
  BY DEF Piece
<1>2. Phase(Joined(s, t), l, h)
  BY <1>1, PhaseJoined
<1>3. IsSeq(s) /\ IsSeq(t)
  BY <1>1 DEF Phase
<1>4. Items(Joined(s, t)) = Items(s) \cup Items(t)
  BY <1>3, SeqJoined
<1>5. QED
  BY <1>2, <1>4 DEF Piece

\* One call of a script.
LEMMA PieceCall ==
  ASSUME NEW k, GoodCall(k), ScriptCall(k), k.fn \notin {"activateReserve", "deactivateReserve"}
  PROVE  /\ Piece(Send(k), CallRank(k), CallRank(k)) /\ Items(Send(k)) = {Await(k)}
         /\ k.fn \notin Awaited => Piece(SendOnly(k), CallRank(k), CallRank(k)) /\ Items(SendOnly(k)) = {Only(k)}
<1>1. PICK x : x = Await(k)
  OBVIOUS
<1>2. PICK y : y = Only(k)
  OBVIOUS
<1>3. x.op = "send" /\ x.call = k /\ x.await = TRUE /\ y.op = "send" /\ y.call = k /\ y.await = FALSE
  BY <1>1, <1>2 DEF Await, Only
<1>4. Send(k) = <<x>> /\ SendOnly(k) = <<y>>
  BY <1>1, <1>2 DEF Send, SendOnly, Await, Only
<1>5. Rank(x) = CallRank(k) /\ Rank(y) = CallRank(k)
  BY <1>3 DEF Rank
<1>6. RunnerStep(x)
  BY <1>3 DEF RunnerStep, GoodStep, ScriptStep, Activation, Proper
<1>7. k.fn \notin Awaited => RunnerStep(y)
  BY <1>3 DEF RunnerStep, GoodStep, ScriptStep, Activation, Proper
<1>8. QED
  BY <1>1, <1>2, <1>4, <1>5, <1>6, <1>7, PieceOne, SeqOne

Remote == {"updateMarketPlaceData", "updateTwap", "approveShares", "withdraw", "setOperator"}
LEMMA PieceRemote ==
  ASSUME NEW fn \in Remote, NEW c, NEW x, fn = "updateTwap" => c \in Collections \cup {"other"}
  PROVE  Piece(Send(Call(fn, c, x)), 6, 6) /\ Piece(SendOnly(Call(fn, c, x)), 6, 6)
<1>1. PICK k : k = Call(fn, c, x)
  OBVIOUS
<1>2. k.fn = fn /\ k.c = c
  BY <1>1, CallFields
<1>3. GoodCall(k) /\ ScriptCall(k) /\ k.fn \notin Awaited /\ k.fn \notin {"activateReserve", "deactivateReserve"}
  BY <1>2 DEF GoodCall, OfReserve, ScriptCall, Spends, Awaited, Remote
<1>4. CallRank(k) = 6
  BY <1>2 DEF CallRank, Remote
<1>5. QED
  BY <1>1, <1>3, <1>4, PieceCall

LEMMA PieceNeeds ==
  ASSUME NEW what
  PROVE  Piece(Needs(what), IF what = "nft" THEN 1 ELSE 6, IF what = "nft" THEN 1 ELSE 6)
<1>1. PICK x : x = [op |-> "needs", what |-> what]
  OBVIOUS
<1>2. x.op = "needs" /\ x.what = what
  BY <1>1
<1>3. RunnerStep(x) /\ Rank(x) = IF what = "nft" THEN 1 ELSE 6
  BY <1>2 DEF RunnerStep, GoodStep, ScriptStep, Activation, Rank
<1>4. Needs(what) = <<x>>
  BY <1>1 DEF Needs
<1>5. QED
  BY <1>3, <1>4, PieceOne

LEMMA SixFollows ==
  ASSUME NEW s, NEW t, Piece(s, 6, 6), Piece(t, 6, 6)
  PROVE  Piece(Joined(s, t), 6, 6)
<1>1. 6 \in 1..7 /\ 6 <= 6 /\ MayPrecede(6, 6)
  BY DEF MayPrecede
<1>2. QED
  BY <1>1, PieceJoined

LEMMA DepositReservePiece ==
  /\ Piece(DepositReserve, 2, 5)
  /\ {WrapCall, ApproveCall} \subseteq Sent(DepositReserve)
<1>0. Junior \in Nat /\ 4 * Junior \in Nat /\ Fixed \in Collections /\ {"junior", "senior"} \subseteq Tranches
  BY AmountsAssumption, SetupAssumption DEF Tranches
<1>1. PICK k1 : k1 = WrapCall
  OBVIOUS
<1>2. PICK k2 : k2 = ApproveCall
  OBVIOUS
<1>3. PICK k3 : k3 = FixedDeposit("junior")
  OBVIOUS
<1>4. PICK k4 : k4 = FixedDeposit("senior")
  OBVIOUS
<1>5. /\ k1.fn = "wrap" /\ k1.x = 4 * Junior /\ k2.fn = "approve"
      /\ k3.fn = "deposit" /\ k3.c = Fixed /\ k3.x.tranche = "junior" /\ k3.x.amount = Junior
      /\ k4.fn = "deposit" /\ k4.c = Fixed /\ k4.x.tranche = "senior" /\ k4.x.amount = Junior
  BY <1>1, <1>2, <1>3, <1>4, CallFields DEF WrapCall, ApproveCall, FixedDeposit
<1>6. GoodCall(k1) /\ GoodCall(k2) /\ GoodCall(k3) /\ GoodCall(k4)
  BY <1>0, <1>5 DEF GoodCall, OfReserve
<1>7. k3 \in Spending /\ k4 \in Spending
  BY <1>3, <1>4 DEF Spending
<1>8. ScriptCall(k1) /\ ScriptCall(k2) /\ ScriptCall(k3) /\ ScriptCall(k4)
  BY <1>1, <1>2, <1>5, <1>7 DEF ScriptCall, Spends
<1>9. CallRank(k1) = 2 /\ CallRank(k2) = 3 /\ CallRank(k3) = 4 /\ CallRank(k4) = 5
  BY <1>5 DEF CallRank
<1>10. PICK s1 : s1 = Send(k1)
  OBVIOUS
<1>11. PICK s2 : s2 = Send(k2)
  OBVIOUS
<1>12. PICK s3 : s3 = Send(k3)
  OBVIOUS
<1>13. PICK s4 : s4 = Send(k4)
  OBVIOUS
<1>14. Piece(s1, 2, 2) /\ Items(s1) = {Await(k1)}
  BY <1>5, <1>6, <1>8, <1>9, <1>10, PieceCall
<1>15. Piece(s2, 3, 3) /\ Items(s2) = {Await(k2)}
  BY <1>5, <1>6, <1>8, <1>9, <1>11, PieceCall
<1>16. Piece(s3, 4, 4)
  BY <1>5, <1>6, <1>8, <1>9, <1>12, PieceCall
<1>17. Piece(s4, 5, 5)
  BY <1>5, <1>6, <1>8, <1>9, <1>13, PieceCall
<1>18. Piece(Joined(s1, s2), 2, 3) /\ Items(Joined(s1, s2)) = Items(s1) \cup Items(s2)
  <2>1. 2 \in 1..7 /\ 3 \in 1..7 /\ 2 <= 2 /\ 3 <= 3 /\ MayPrecede(2, 3)
    BY DEF MayPrecede
  <2>2. QED
    BY <2>1, <1>14, <1>15, PieceJoined
<1>19. /\ Piece(Joined(Joined(s1, s2), s3), 2, 4)
       /\ Items(Joined(Joined(s1, s2), s3)) = Items(Joined(s1, s2)) \cup Items(s3)
  <2>1. 2 \in 1..7 /\ 3 \in 1..7 /\ 4 \in 1..7 /\ 2 <= 3 /\ 4 <= 4 /\ MayPrecede(3, 4)
    BY DEF MayPrecede
  <2>2. QED
    BY <2>1, <1>16, <1>18, PieceJoined
<1>20. /\ Piece(Joined(Joined(Joined(s1, s2), s3), s4), 2, 5)
       /\ Items(Joined(Joined(Joined(s1, s2), s3), s4)) = Items(Joined(Joined(s1, s2), s3)) \cup Items(s4)
  <2>1. 2 \in 1..7 /\ 4 \in 1..7 /\ 5 \in 1..7 /\ 2 <= 4 /\ 5 <= 5 /\ MayPrecede(4, 5)
    BY DEF MayPrecede
  <2>2. QED
    BY <2>1, <1>17, <1>19, PieceJoined
<1>21. DepositReserve = Joined(Joined(Joined(s1, s2), s3), s4)
  BY <1>1, <1>2, <1>3, <1>4, <1>10, <1>11, <1>12, <1>13
     DEF DepositReserve, ApproveWETH, Joined, WrapCall, ApproveCall, FixedDeposit
<1>22. Await(k1) \in Items(DepositReserve) /\ Await(k2) \in Items(DepositReserve)
  BY <1>14, <1>15, <1>18, <1>19, <1>20, <1>21
<1>23. k1 \in Adds(Await(k1)) /\ k2 \in Adds(Await(k2))
  BY DEF Adds, Await
<1>24. QED
  BY <1>1, <1>2, <1>20, <1>21, <1>22, <1>23 DEF Sent, SentOf

LEMMA CreateReservePiece ==
  /\ Piece(ReadStatus("create_reserve", Fixed), 1, 1)
  /\ Items(ReadStatus("create_reserve", Fixed)) = {StatusStep("create_reserve", Fixed)}
<1>1. PICK x : x = StatusStep("create_reserve", Fixed)
  OBVIOUS
<1>2. x.op = "status" /\ x.task = "create_reserve" /\ x.c = Fixed
  BY <1>1 DEF StatusStep
<1>3. RunnerStep(x) /\ Rank(x) = 1
  BY <1>2, SetupAssumption DEF RunnerStep, GoodStep, ScriptStep, Activation, Rank, StatusTasks
<1>4. ReadStatus("create_reserve", Fixed) = <<x>>
  BY <1>1 DEF ReadStatus, StatusStep
<1>5. QED
  BY <1>1, <1>3, <1>4, PieceOne, SeqOne

LEMMA MarketPieces ==
  /\ Piece(PreBuyNow, 6, 6) /\ Piece(BuyNow, 6, 6) /\ Piece(WithdrawScript, 6, 6)
  /\ Piece(SetOracleOperator, 6, 6) /\ Piece(SetMarketplaceAdapter, 6, 6) /\ Piece(UpdateOraclePrice, 6, 6)
<1>1. Fixed \in Collections /\ Crab \in Collections
  BY SetupAssumption
<1>2. /\ Piece(Send(Call("updateMarketPlaceData", None, None)), 6, 6)
      /\ Piece(SendOnly(Call("updateMarketPlaceData", None, None)), 6, 6)
  BY PieceRemote DEF Remote
<1>3. Piece(SendOnly(Call("updateTwap", "other", None)), 6, 6)
  BY PieceRemote DEF Remote
<1>4. Piece(Send(Call("updateTwap", Crab, None)), 6, 6) /\ Piece(Send(Call("updateTwap", Fixed, None)), 6, 6)
  BY <1>1, PieceRemote DEF Remote
<1>5. Piece(Send(Call("approveShares", Crab, None)), 6, 6) /\ Piece(SendOnly(Call("withdraw", Crab, None)), 6, 6)
  BY PieceRemote DEF Remote
<1>6. Piece(Send(Call("setOperator", None, None)), 6, 6)
  BY PieceRemote DEF Remote
<1>7. Piece(Needs("otherReserve"), 6, 6) /\ Piece(Needs("purchase"), 6, 6)
  BY PieceNeeds
<1>8. Piece(PreBuyNow, 6, 6)
  <2>1. PreBuyNow = Joined(Joined(SendOnly(Call("updateMarketPlaceData", None, None)),
                                  SendOnly(Call("updateTwap", "other", None))), Needs("otherReserve"))
    BY DEF PreBuyNow, Joined
  <2>2. Piece(Joined(SendOnly(Call("updateMarketPlaceData", None, None)),
                     SendOnly(Call("updateTwap", "other", None))), 6, 6)
    BY <1>2, <1>3, SixFollows
  <2>3. QED
    BY <2>1, <2>2, <1>7, SixFollows
<1>9. Piece(BuyNow, 6, 6)
  <2>1. BuyNow = Joined(Joined(Send(Call("updateMarketPlaceData", None, None)),
                               Send(Call("updateTwap", Crab, None))), Needs("purchase"))
    BY DEF BuyNow, Joined
  <2>2. Piece(Joined(Send(Call("updateMarketPlaceData", None, None)), Send(Call("updateTwap", Crab, None))), 6, 6)
    BY <1>2, <1>4, SixFollows
  <2>3. QED
    BY <2>1, <2>2, <1>7, SixFollows
<1>10. Piece(WithdrawScript, 6, 6)
  <2>1. WithdrawScript = Joined(Joined(Send(Call("approveShares", Crab, None)),
                                       Send(Call("approveShares", Crab, None))),
                                SendOnly(Call("withdraw", Crab, None)))
    BY DEF WithdrawScript, Joined
  <2>2. Piece(Joined(Send(Call("approveShares", Crab, None)), Send(Call("approveShares", Crab, None))), 6, 6)
    BY <1>5, SixFollows
  <2>3. QED
    BY <2>1, <2>2, <1>5, SixFollows
<1>11. QED
  BY <1>2, <1>4, <1>6, <1>8, <1>9, <1>10 DEF SetOracleOperator, SetMarketplaceAdapter, UpdateOraclePrice

LEMMA SendWETHPiece ==
  Piece(SendWETH, 7, 7)
<1>1. PICK k : k = TransferCall
  OBVIOUS
<1>2. k.fn = "transfer" /\ k.x = Junior /\ Junior \in Nat
  BY <1>1, CallFields, AmountsAssumption DEF TransferCall
<1>3. k \in Spending
  BY <1>1 DEF Spending
<1>4. GoodCall(k) /\ ScriptCall(k) /\ CallRank(k) = 7
  BY <1>2, <1>3 DEF GoodCall, OfReserve, ScriptCall, Spends, CallRank
<1>5. Piece(Send(k), 7, 7)
  BY <1>2, <1>4, PieceCall
<1>6. QED
  BY <1>1, <1>5 DEF SendWETH, TransferCall

\* The ranks that the scripts begin and end with.
From == <<1, 1, 1, 2, 6, 6, 6, 6, 6, 6, 7>>
Upto == [i \in 0..11 |-> IF i <= 3 THEN 1 ELSE IF i = 4 THEN 5 ELSE IF i <= 10 THEN 6 ELSE 7]
LEMMA ScriptsKnown ==
  /\ DOMAIN Scripts = 1..11 /\ Len(Scripts) = 11
  /\ Scripts[1].steps = FundVault /\ Scripts[2].steps = ReadStatus("create_reserve", Fixed)
  /\ Scripts[3].steps = DeployVault /\ Scripts[4].steps = DepositReserve
  /\ Scripts[5].steps = PreBuyNow /\ Scripts[6].steps = BuyNow /\ Scripts[7].steps = WithdrawScript
  /\ Scripts[8].steps = SetOracleOperator /\ Scripts[9].steps = SetMarketplaceAdapter
  /\ Scripts[10].steps = UpdateOraclePrice /\ Scripts[11].steps = SendWETH
  /\ \A i \in 1..11 : Scripts[i].name \in ScriptNames
<1>1. DOMAIN Scripts = 1..11 /\ Len(Scripts) = 11
  BY DEF Scripts
<1>2. /\ Scripts[1].steps = FundVault /\ Scripts[2].steps = ReadStatus("create_reserve", Fixed)
      /\ Scripts[3].steps = DeployVault /\ Scripts[4].steps = DepositReserve
      /\ Scripts[5].steps = PreBuyNow /\ Scripts[6].steps = BuyNow /\ Scripts[7].steps = WithdrawScript
  BY DEF Scripts, Script
<1>3. /\ Scripts[8].steps = SetOracleOperator /\ Scripts[9].steps = SetMarketplaceAdapter
      /\ Scripts[10].steps = UpdateOraclePrice /\ Scripts[11].steps = SendWETH
  BY DEF Scripts, Script
<1>4. \A i \in 1..11 : Scripts[i] \in ToSet(Scripts)
  BY <1>1 DEF ToSet
<1>5. QED
  BY <1>1, <1>2, <1>3, <1>4 DEF ScriptNames

LEMMA ScriptPieces ==
  ASSUME NEW i \in 1..11
  PROVE  /\ From[i] \in 1..7 /\ Upto[i] \in 1..7 /\ Upto[i - 1] \in 1..7
         /\ From[i] <= Upto[i] /\ MayPrecede(Upto[i - 1], From[i]) /\ Piece(Scripts[i].steps, From[i], Upto[i])
<1>1. 1..11 = {1, 2, 3, 4, 5, 6, 7, 8, 9, 10, 11}
  OBVIOUS
<1>2. /\ From[1] = 1 /\ From[2] = 1 /\ From[3] = 1 /\ From[4] = 2 /\ From[5] = 6 /\ From[6] = 6 /\ From[7] = 6
      /\ From[8] = 6 /\ From[9] = 6 /\ From[10] = 6 /\ From[11] = 7
  BY DEF From
<1>3. /\ Upto[0] = 1 /\ Upto[1] = 1 /\ Upto[2] = 1 /\ Upto[3] = 1 /\ Upto[4] = 5 /\ Upto[5] = 6 /\ Upto[6] = 6
      /\ Upto[7] = 6 /\ Upto[8] = 6 /\ Upto[9] = 6 /\ Upto[10] = 6 /\ Upto[11] = 7
  BY DEF Upto
<1>4. /\ From[i] \in 1..7 /\ Upto[i] \in 1..7 /\ Upto[i - 1] \in 1..7
      /\ From[i] <= Upto[i] /\ MayPrecede(Upto[i - 1], From[i])
  BY <1>1, <1>2, <1>3 DEF MayPrecede
<1>5. Piece(Scripts[i].steps, From[i], Upto[i])
  <2>1. Piece(FundVault, 1, 1)
    BY PieceNeeds DEF FundVault
  <2>2. Piece(DeployVault, 1, 1)
    BY PieceNone DEF DeployVault
  <2>3. CASE i \in {1, 2, 3, 4}
    BY <2>1, <2>2, <2>3, <1>2, <1>3, ScriptsKnown, DepositReservePiece, CreateReservePiece
  <2>4. CASE i \in {5, 6, 7, 8, 9, 10, 11}
    BY <2>4, <1>2, <1>3, ScriptsKnown, MarketPieces, SendWETHPiece
  <2>5. QED
    BY <2>3, <2>4, <1>1
<1>6. QED
  BY <1>4, <1>5

LEMMA SeqItems ==
  ASSUME NEW s, NEW S, IsSeq(s), Items(s) \subseteq S
  PROVE  s \in Seq(S)
<1>1. PICK T : s \in Seq(T)
  BY DEF IsSeq
<1>2. Len(s) \in Nat /\ s = [i \in 1..Len(s) |-> s[i]]
  BY <1>1
<1>3. \A i \in 1..Len(s) : s[i] \in S
  BY DEF Items
<1>4. QED
  BY <1>2, <1>3

\* The scripts that are left out leave no step, the others theirs, in order.
LEMMA FlattenPieces ==
  ASSUME NEW p, p = [i \in 1..11 |-> p[i]],
         \A i \in 1..11 : Piece(p[i], From[i], Upto[i])
  PROVE  Piece(FlattenSeq(p), 1, 7) /\ Items(FlattenSeq(p)) = UNION {Items(p[i]) : i \in 1..11}
<1> DEFINE Parts(k) == UNION {Items(p[i]) : i \in 1..k}
<1>1. PICK S : S = Parts(11)
  OBVIOUS
<1>2. p \in [1..11 -> Seq(S)]
  <2>1. \A i \in 1..11 : IsSeq(p[i]) /\ Items(p[i]) \subseteq S
    BY <1>1 DEF Piece, Phase
  <2>2. \A i \in 1..11 : p[i] \in Seq(S)
    BY <2>1, SeqItems
  <2>3. QED
    BY <2>2
<1>3. PICK w : w[0] = <<>> /\ w[11] = FlattenSeq(p) /\ \A i \in 1..11 : w[i] = w[i - 1] \o p[i]
  <2>1. PICK n \in Nat : n = 11
    OBVIOUS
  <2>2. p \in [1..n -> Seq(S)]
    BY <1>2, <2>1
  <2>3. \E w : w[0] = <<>> /\ w[n] = FlattenSeq(p) /\ \A i \in 1..n : w[i] = w[i - 1] \o p[i]
    BY <2>2, FlattenRun, Zenon
  <2>4. QED
    BY <2>1, <2>3
<1>4. PICK X : X = [k \in 0..11 |-> {v \in {w[j] : j \in 0..11} : Piece(v, 1, Upto[k]) /\ Items(v) = Parts(k)}]
  OBVIOUS
<1>5. w[0] \in X[0]
  <2>1. Parts(0) = {} /\ 0 \in 0..11
    OBVIOUS
  <2>2. Piece(<<>>, 1, Upto[0]) /\ Items(<<>>) = {}
    BY PieceNone, SeqNone
  <2> HIDE DEF Parts
  <2>3. QED
    BY <1>3, <1>4, <2>1, <2>2
<1>6. ASSUME NEW i \in 1..11, w[i - 1] \in X[i - 1]
      PROVE  w[i] \in X[i]
  <2>1. PICK v : v = w[i - 1]
    OBVIOUS
  <2>2. i - 1 \in 0..11 /\ i \in 0..11
    OBVIOUS
  <2>3. Piece(v, 1, Upto[i - 1]) /\ Items(v) = Parts(i - 1)
    <3> HIDE DEF Parts
    <3>1. QED
      BY <1>4, <1>6, <2>1, <2>2
  <2>4. PICK q : q = p[i]
    OBVIOUS
  <2>5. PICK m \in 1..7 : m = Upto[i - 1]
    BY ScriptPieces
  <2>6. PICK l \in 1..7 : l = From[i]
    BY ScriptPieces
  <2>7. PICK h \in 1..7 : h = Upto[i]
    BY ScriptPieces
  <2>8. l <= h /\ MayPrecede(m, l) /\ Piece(q, l, h) /\ Piece(v, 1, m)
    BY <2>3, <2>4, <2>5, <2>6, <2>7, ScriptPieces
  <2>9. 1 \in 1..7 /\ 1 <= m
    OBVIOUS
  <2>10. Piece(Joined(v, q), 1, h) /\ Items(Joined(v, q)) = Items(v) \cup Items(q)
    BY <2>8, <2>9, PieceJoined
  <2>11. Parts(i) = Parts(i - 1) \cup Items(q)
    <3>1. \A y : y \in Parts(i) <=> \E j \in 1..i : y \in Items(p[j])
      OBVIOUS
    <3>2. \A y : y \in Parts(i - 1) <=> \E j \in 1..i - 1 : y \in Items(p[j])
      OBVIOUS
    <3>3. \A j \in 1..i : j = i \/ j \in 1..i - 1
      OBVIOUS
    <3>4. (\A j \in 1..i - 1 : j \in 1..i) /\ i \in 1..i
      OBVIOUS
    <3> HIDE DEF Parts
    <3>5. \A y : y \in Parts(i) <=> y \in Parts(i - 1) \/ y \in Items(q)
      BY <2>4, <3>1, <3>2, <3>3, <3>4, Zenon
    <3>6. QED
      BY <3>5
  <2>12. w[i] = Joined(v, q)
    BY <1>3, <2>1, <2>4 DEF Joined
  <2>13. w[i] \in {w[j] : j \in 0..11}
    BY <2>2
  <2> HIDE DEF Parts
  <2>14. QED
    BY <1>4, <2>2, <2>3, <2>7, <2>10, <2>11, <2>12, <2>13
<1>7. w[11] \in X[11]
  <2>1. PICK n \in Nat : n = 11
    OBVIOUS
  <2>2. \A i \in 1..n : w[i - 1] \in X[i - 1] => w[i] \in X[i]
    BY <1>6, <2>1
  <2>3. w[n] \in X[n]
    BY <1>5, <2>2, RunFollows
  <2>4. QED
    BY <2>1, <2>3
<1>8. Upto[11] = 7
  BY DEF Upto
<1>9. QED
  <2> HIDE DEF Parts
  <2>1. Piece(w[11], 1, Upto[11]) /\ Items(w[11]) = Parts(11)
    BY <1>4, <1>7
  <2>2. QED
    BY <1>3, <1>8, <2>1 DEF Parts

LEMMA RunnerPlan ==
  ASSUME NEW selection
  PROVE  /\ Piece(Runner(selection), 1, 7)
         /\ selection = {} =>
              /\ StatusStep("create_reserve", Fixed) \in Items(Runner(selection))
              /\ {WrapCall, ApproveCall} \subseteq Sent(Runner(selection))
<1>1. PICK chosen : chosen = IF selection = {} THEN ScriptNames ELSE selection
  OBVIOUS
<1>2. PICK p : p = [i \in 1..11 |-> IF Scripts[i].name \in chosen THEN Scripts[i].steps ELSE <<>>]
  OBVIOUS
<1>3. Runner(selection) = FlattenSeq(p)
  BY <1>1, <1>2, ScriptsKnown DEF Runner
<1>4. ASSUME NEW i \in 1..11
      PROVE  Piece(p[i], From[i], Upto[i])
  BY <1>2, ScriptPieces, PieceNone
<1>5. p = [i \in 1..11 |-> p[i]]
  BY <1>2
<1>6. Piece(FlattenSeq(p), 1, 7) /\ Items(FlattenSeq(p)) = UNION {Items(p[i]) : i \in 1..11}
  BY <1>4, <1>5, FlattenPieces
<1>7. ASSUME selection = {}
      PROVE  /\ StatusStep("create_reserve", Fixed) \in Items(FlattenSeq(p))
             /\ {WrapCall, ApproveCall} \subseteq Sent(FlattenSeq(p))
  <2>1. p[2] = Scripts[2].steps /\ p[4] = Scripts[4].steps
    BY <1>1, <1>2, <1>7, ScriptsKnown
  <2>2. StatusStep("create_reserve", Fixed) \in Items(p[2])
    BY <2>1, ScriptsKnown, CreateReservePiece
  <2>3. {WrapCall, ApproveCall} \subseteq Sent(p[4])
    BY <2>1, ScriptsKnown, DepositReservePiece
  <2>4. Items(p[2]) \subseteq Items(FlattenSeq(p)) /\ Items(p[4]) \subseteq Items(FlattenSeq(p))
    <3>1. 2 \in 1..11 /\ 4 \in 1..11
      OBVIOUS
    <3>2. QED
      BY <1>6, <3>1
  <2>5. QED
    BY <2>2, <2>3, <2>4 DEF Sent, SentOf
<1>8. QED
  BY <1>3, <1>6, <1>7

-----------------------------------------------------------------------------
(***************************************************************************)
(* Steps, by what they do to the process, the pool and the chain.          *)
(***************************************************************************)
Keeps == run'.task = run.task /\ run'.on = run.on /\ DOMAIN run' = DOMAIN run
Goes == run.todo # <<>> /\ ~run.waiting /\ run.task # None
\* A transaction is sent, and mined at once with automine.
Emits(k, a) ==
  /\ Goes /\ Keeps /\ run'.todo = Tail(run.todo)
  /\ GoodCall(k) /\ a \in BOOLEAN /\ (k.fn \in Awaited => a)
  /\ \/ Head(run.todo).op = "send" /\ Head(run.todo).call = k /\ Head(run.todo).await = a
     \/ Head(run.todo).op \in {"wrapMissing", "approveOnce"} /\ a /\ k.fn \in {"wrap", "approve"}
  /\ Succeeds(k, chain)
  /\ \/ mining = "auto" /\ chain' = After(k, chain) /\ pool' = pool /\ run'.waiting = FALSE
     \/ mining # "auto" /\ chain' = chain /\ pool' = Append(pool, k) /\ run'.waiting = a
  /\ mining' = mining /\ finished' = finished
Reads ==
  /\ Goes /\ Keeps /\ Head(run.todo).op = "status"
  /\ run'.todo = Joined(AfterStatus(Head(run.todo).task, Head(run.todo).c,
                                    chain.reserves[Head(run.todo).c]), Tail(run.todo))
  /\ run'.waiting = FALSE
  /\ chain' = chain /\ pool' = pool /\ mining' = mining /\ finished' = finished
Skips ==
  /\ Goes /\ Keeps /\ Head(run.todo).op \in {"wrapMissing", "approveOnce", "needs"}
  /\ run'.todo = Tail(run.todo) /\ run'.waiting = FALSE
  /\ chain' = chain /\ pool' = pool /\ mining' = mining /\ finished' = finished
Leaves ==
  /\ run' = NoRun
  /\ chain' = chain /\ pool' = pool /\ mining' = mining /\ finished' = finished
Ends ==
  /\ run.todo = <<>> /\ ~run.waiting
  /\ run' = NoRun /\ finished' = [task |-> run.task, on |-> run.on]
  /\ chain' = chain /\ pool' = pool /\ mining' = mining
Mines ==
  /\ pool # <<>> /\ pool' = Tail(pool) /\ chain' = After(Head(pool), chain)
  /\ \/ run' = run /\ ~(Len(pool) = 1 /\ run.waiting)
     \/ /\ Len(pool) = 1 /\ run.waiting /\ Succeeds(Head(pool), chain)
        /\ Keeps /\ run'.todo = run.todo /\ run'.waiting = FALSE
     \/ run' = NoRun
  /\ mining' = mining /\ finished' = finished
Begins(task, c, steps) ==
  /\ run.task = None
  /\ run' = [task |-> task, on |-> c, todo |-> steps, waiting |-> FALSE]
  /\ finished' = None /\ chain' = chain /\ pool' = pool /\ mining' = mining

LEMMA BroadcastEmits ==
  ASSUME Typed, Ready, NEW k, NEW a \in BOOLEAN, Broadcast(k, a), GoodCall(k), k.fn \in Awaited => a,
         \/ Next1.op = "send" /\ Next1.call = k /\ Next1.await = a
         \/ Next1.op \in {"wrapMissing", "approveOnce"} /\ a /\ k.fn \in {"wrap", "approve"}
  PROVE  Emits(k, a)
<1>1. Goes
  BY DEF Ready, Goes, Typed
<1>2. Succeeds(k, chain) /\ mining' = mining /\ finished' = finished
  BY DEF Broadcast
<1>3. DOMAIN run = {"task", "on", "todo", "waiting"} /\ run.waiting = FALSE
  BY <1>1 DEF Typed, Goes
<1>4. CASE mining = "auto"
  <2>1. chain' = After(k, chain) /\ pool' = pool /\ run' = [run EXCEPT !.todo = Tail(@)]
    BY <1>2, <1>4 DEF Broadcast, After, Rest
  <2>2. Keeps /\ run'.todo = Tail(run.todo) /\ run'.waiting = FALSE
    BY <1>3, <2>1 DEF Keeps
  <2>3. QED
    BY <1>1, <1>2, <1>4, <2>1, <2>2 DEF Emits, Next1
<1>5. CASE mining # "auto"
  <2>1. chain' = chain /\ pool' = Append(pool, k) /\ run' = [[run EXCEPT !.todo = Tail(@)] EXCEPT !.waiting = a]
    BY <1>5 DEF Broadcast, Rest
  <2>2. Keeps /\ run'.todo = Tail(run.todo) /\ run'.waiting = a
    BY <1>3, <2>1 DEF Keeps
  <2>3. QED
    BY <1>1, <1>2, <1>5, <2>1, <2>2 DEF Emits, Next1
<1>6. QED
  BY <1>4, <1>5

LEMMA NextGood ==
  ASSUME Typed, Ready
  PROVE  GoodStep(Next1) /\ Next1 \in Items(run.todo)
<1>1. IsSeq(run.todo) /\ run.todo # <<>>
  BY DEF Typed, GoodSteps, Ready
<1>2. Items(run.todo) = {Head(run.todo)} \cup Items(Tail(run.todo))
  BY <1>1, SeqTail
<1>3. QED
  BY <1>2 DEF Typed, GoodSteps, Next1

LEMMA StepForms ==
  ASSUME Typed, [Next]_vars
  PROVE  \/ \E k, a : Emits(k, a)
         \/ Reads \/ Skips \/ Leaves \/ Ends \/ Mines
         \/ \E task \in Tasks, c \in Targets \cup {Crab} : Begins(task, c, TaskSteps(task, c))
         \/ \E name \in Manual[mining], c \in Targets : Begins(name, c, ManualSteps(name, c))
         \/ \E selection \in Selections : Begins("runner", selection, Runner(selection))
         \/ UNCHANGED vars
<1>0. DOMAIN run = {"task", "on", "todo", "waiting"} /\ run.waiting \in BOOLEAN
  BY DEF Typed
<1>1. CASE SendStep
  <2>1. Ready /\ Next1.op = "send" /\ Broadcast(Next1.call, Next1.await)
    BY <1>1 DEF SendStep
  <2>2. GoodStep(Next1)
    BY <2>1, NextGood
  <2>3. GoodCall(Next1.call) /\ Next1.await \in BOOLEAN /\ (Next1.call.fn \in Awaited => Next1.await)
    BY <2>1, <2>2 DEF GoodStep
  <2>4. Emits(Next1.call, Next1.await)
    BY <2>1, <2>3, BroadcastEmits
  <2>5. QED
    BY <2>4
<1>2. CASE WrapMissing
  <2>1. PICK k : k = Call("wrap", None, Next1.amount - chain.weth)
    OBVIOUS
  <2>2. Ready /\ Next1.op = "wrapMissing" /\ chain.weth < Next1.amount /\ Broadcast(k, TRUE)
    BY <1>2, <2>1 DEF WrapMissing
  <2>3. Next1.amount \in Nat /\ chain.weth \in Nat
    BY <2>2, NextGood, ChainKnown DEF GoodStep, Typed
  <2>4. k.fn = "wrap" /\ k.x \in Nat
    <3>1. k.fn = "wrap" /\ k.x = Next1.amount - chain.weth
      BY <2>1, CallFields
    <3>2. QED
      BY <2>2, <2>3, <3>1
  <2>5. GoodCall(k)
    BY <2>4 DEF GoodCall, OfReserve
  <2>6. Emits(k, TRUE)
    BY <2>2, <2>4, <2>5, BroadcastEmits
  <2>7. QED
    BY <2>6
<1>3. CASE ApproveOnce
  <2>1. PICK k : k = Call("approve", None, None)
    OBVIOUS
  <2>2. Ready /\ Next1.op = "approveOnce" /\ Broadcast(k, TRUE)
    BY <1>3, <2>1 DEF ApproveOnce
  <2>3. k.fn = "approve"
    BY <2>1, CallFields
  <2>4. GoodCall(k)
    BY <2>3 DEF GoodCall, OfReserve
  <2>5. Emits(k, TRUE)
    BY <2>2, <2>3, <2>4, BroadcastEmits
  <2>6. QED
    BY <2>5
<1>4. CASE Status
  <2>1. Goes /\ Next1.op = "status"
    BY <1>4 DEF Status, Ready, Goes, Typed
  <2>2. run' = [run EXCEPT !.todo = Joined(AfterStatus(Next1.task, Next1.c, chain.reserves[Next1.c]), Tail(@))]
    BY <1>4 DEF Status, Joined
  <2>3. Keeps /\ run'.waiting = run.waiting
    BY <1>0, <2>2 DEF Keeps
  <2>4. run'.todo = Joined(AfterStatus(Next1.task, Next1.c, chain.reserves[Next1.c]), Tail(run.todo))
    BY <1>0, <2>2
  <2>5. run'.waiting = FALSE
    BY <1>0, <2>1, <2>3 DEF Goes
  <2>6. Reads
    BY <1>4, <2>1, <2>3, <2>4, <2>5 DEF Reads, Status, Next1
  <2>7. QED
    BY <2>6
<1>5. CASE PassOver
  <2>1. Goes /\ Next1.op \in {"wrapMissing", "approveOnce", "needs"}
    BY <1>5 DEF PassOver, Ready, Goes, Typed
  <2>2. run' = [run EXCEPT !.todo = Tail(@)]
    BY <1>5 DEF PassOver, Rest
  <2>3. Keeps /\ run'.todo = Tail(run.todo) /\ run'.waiting = run.waiting
    BY <1>0, <2>2 DEF Keeps
  <2>4. run'.waiting = FALSE
    BY <1>0, <2>1, <2>3 DEF Goes
  <2>5. Skips
    BY <1>5, <2>1, <2>3, <2>4 DEF Skips, PassOver, Next1
  <2>6. QED
    BY <2>5
<1>6. CASE Abort \/ Crash
  BY <1>6 DEF Abort, Crash, Leaves
<1>7. CASE Finish
  BY <1>7 DEF Finish, Ends
<1>8. CASE Mine
  <2>1. PICK k : k = Head(pool)
    OBVIOUS
  <2>2. pool # <<>> /\ pool' = Tail(pool) /\ mining' = mining /\ finished' = finished
    BY <1>8 DEF Mine
  <2>3. chain' = After(k, chain)
    BY <1>8, <2>1 DEF Mine, After
  <2>4. CASE ~(Len(pool) = 1 /\ run.waiting)
    <3>1. run' = run
      BY <1>8, <2>4 DEF Mine
    <3>2. QED
      BY <2>1, <2>2, <2>3, <2>4, <3>1 DEF Mines
  <2>5. CASE Len(pool) = 1 /\ run.waiting /\ Succeeds(k, chain)
    <3>1. run' = [run EXCEPT !.waiting = FALSE]
      BY <1>8, <2>1, <2>5 DEF Mine
    <3>2. Keeps /\ run'.todo = run.todo /\ run'.waiting = FALSE
      BY <1>0, <3>1 DEF Keeps
    <3>3. QED
      BY <2>1, <2>2, <2>3, <2>5, <3>2 DEF Mines
  <2>6. CASE Len(pool) = 1 /\ run.waiting /\ ~Succeeds(k, chain)
    <3>1. run' = NoRun
      BY <1>8, <2>1, <2>6 DEF Mine
    <3>2. QED
      BY <2>1, <2>2, <2>3, <3>1 DEF Mines
  <2>7. QED
    BY <2>4, <2>5, <2>6
<1>9. CASE StartTask
  <2>1. PICK task \in Tasks, c \in Targets : Start(task, c, TaskSteps(task, c))
    BY <1>9 DEF StartTask
  <2>2. Begins(task, c, TaskSteps(task, c))
    BY <2>1 DEF Start, Begins
  <2>3. QED
    BY <2>2
<1>10. CASE StartManual
  <2>1. PICK name \in Manual[mining], c \in Targets : Start(name, c, ManualSteps(name, c))
    BY <1>10 DEF StartManual
  <2>2. Begins(name, c, ManualSteps(name, c))
    BY <2>1 DEF Start, Begins
  <2>3. QED
    BY <2>2
<1>11. CASE StartRunner
  <2>1. PICK selection \in Selections : Start("runner", selection, Runner(selection))
    BY <1>11 DEF StartRunner
  <2>2. Begins("runner", selection, Runner(selection))
    BY <2>1 DEF Start, Begins
  <2>3. QED
    BY <2>2
<1>12. CASE Retry
  <2>1. "bootstrap" \in Tasks /\ Start("bootstrap", Crab, Bootstrap(Crab))
    BY <1>12 DEF Retry
  <2>2. TaskSteps("bootstrap", Crab) = Bootstrap(Crab)
    BY DEF TaskSteps
  <2>3. Begins("bootstrap", Crab, TaskSteps("bootstrap", Crab))
    BY <2>1, <2>2 DEF Start, Begins
  <2>4. QED
    BY <2>1, <2>3
<1>13. QED
  BY <1>1, <1>2, <1>3, <1>4, <1>5, <1>6, <1>7, <1>8, <1>9, <1>10, <1>11, <1>12 DEF Next, RunStep

-----------------------------------------------------------------------------
(***************************************************************************)
(* Types are kept.                                                         *)
(***************************************************************************)
LEMMA HeadAndTail ==
  ASSUME Typed, Goes
  PROVE  /\ IsSeq(run.todo) /\ run.todo # <<>> /\ Len(run.todo) \in Nat
         /\ GoodStep(Head(run.todo)) /\ GoodSteps(Tail(run.todo))
         /\ Items(run.todo) = {Head(run.todo)} \cup Items(Tail(run.todo))
         /\ Sent(run.todo) = Adds(Head(run.todo)) \cup Sent(Tail(run.todo))
<1>1. IsSeq(run.todo) /\ run.todo # <<>> /\ \A x \in Items(run.todo) : GoodStep(x)
  BY DEF Typed, GoodSteps, Goes
<1>2. IsSeq(Tail(run.todo)) /\ Items(run.todo) = {Head(run.todo)} \cup Items(Tail(run.todo)) /\ Len(run.todo) \in Nat
  BY <1>1, SeqTail
<1>3. GoodStep(Head(run.todo)) /\ GoodSteps(Tail(run.todo))
  BY <1>1, <1>2 DEF GoodSteps
<1>4. QED
  BY <1>1, <1>2, <1>3, SentTail

LEMMA ReadGives ==
  ASSUME Typed, Goes, Head(run.todo).op = "status", NEW B
  PROVE  LET x == Head(run.todo)
             status == chain.reserves[x.c]
         IN /\ x.task \in StatusTasks /\ x.c \in Collections /\ status \in Statuses
            /\ Plan(AfterStatus(x.task, x.c, status), B, StatusItems(x.task, x.c, status))
<1>1. PICK x : x = Head(run.todo)
  OBVIOUS
<1>2. x.task \in StatusTasks /\ x.c \in Collections
  BY <1>1, HeadAndTail DEF GoodStep
<1>3. PICK status : status = chain.reserves[x.c]
  OBVIOUS
<1>4. status \in Statuses
  BY <1>2, <1>3, ChainKnown DEF Typed, Reserve, Statuses
<1>5. Plan(AfterStatus(x.task, x.c, status), B, StatusItems(x.task, x.c, status))
  BY <1>1, <1>2, <1>4, StatusPlan
<1>6. QED
  BY <1>1, <1>2, <1>3, <1>4, <1>5

LEMMA BeginsTyped ==
  ASSUME Typed, NEW task, NEW c, NEW steps, Begins(task, c, steps), task # None, GoodSteps(steps)
  PROVE  Typed'
<1>1. run' = [task |-> task, on |-> c, todo |-> steps, waiting |-> FALSE]
  BY DEF Begins
<1>2. /\ DOMAIN run' = {"task", "on", "todo", "waiting"} /\ run'.waiting = FALSE /\ run'.task = task
      /\ run'.todo = steps
  BY <1>1
<1>3. chain' = chain /\ pool' = pool /\ mining' = mining
  BY DEF Begins
<1>4. QED
  BY <1>2, <1>3 DEF Typed

LEMMA ManualGood ==
  ASSUME NEW name \in ManualNames, NEW c \in Collections
  PROVE  /\ GoodSteps(ManualSteps(name, c))
         /\ \A x \in Items(ManualSteps(name, c)) :
              /\ x.op # "status"
              /\ x.op = "send" /\ x.call.fn = "deactivateReserve" => name = "deactivate"
<1>1. PICK B : B = {}
  OBVIOUS
<1>2. PICK I : /\ Plan(ManualSteps(name, c), B, I)
               /\ \A x \in I : /\ x.op # "status"
                               /\ x.op = "send" /\ x.call.fn = "deactivateReserve" => name = "deactivate"
  BY ManualPlan
<1>3. QED
  BY <1>2 DEF Plan

LEMMA TaskGood ==
  ASSUME NEW task \in TaskNames, NEW c \in Collections
  PROVE  GoodSteps(TaskSteps(task, c))
<1>1. PICK B : B = {}
  OBVIOUS
<1>2. PICK I : Plan(TaskSteps(task, c), B, I)
  BY TaskPlan
<1>3. QED
  BY <1>2 DEF Plan

LEMMA RunnerGood ==
  ASSUME NEW selection
  PROVE  GoodSteps(Runner(selection))
BY RunnerPlan DEF Piece, Phase, GoodSteps, RunnerStep

\* What is begun is one of the tasks, and it is done for a collection.
LEMMA NamesKnown ==
  /\ Targets \cup {Crab} \subseteq Collections /\ Fixed \in Collections
  /\ Tasks \subseteq TaskNames /\ \A m \in Mining : Manual[m] \subseteq ManualNames
  /\ None \notin TaskNames /\ None \notin ManualNames /\ None # "runner"
  /\ "runner" \notin TaskNames /\ "runner" \notin ManualNames /\ "deactivate" \notin TaskNames
  /\ \A name \in ManualNames : name \notin Complete
  /\ Complete \subseteq TaskNames
<1>1. "runner" \notin TaskNames /\ "runner" \notin ManualNames /\ "deactivate" \notin TaskNames
  BY DEF TaskNames, ManualNames
<1>2. \A name \in ManualNames : name \notin Complete
  BY DEF ManualNames, Complete
<1>3. Complete \subseteq TaskNames
  BY DEF Complete, TaskNames
<1>4. QED
  BY <1>1, <1>2, <1>3, SetupAssumption, NamesAssumption

LEMMA InitTyped ==
  ASSUME Init
  PROVE  Typed
<1>1. IsSeq(<<>>) /\ Items(<<>>) = {} /\ Len(<<>>) = 0
  BY SeqNone
<1>2. run = [task |-> None, on |-> None, todo |-> <<>>, waiting |-> FALSE]
  BY DEF Init, NoRun
<1>3. pool = <<>> /\ mining \in Mining
  BY DEF Init
<1>4. PICK r : r = [c \in Collections |-> [initialized |-> FALSE, active |-> FALSE, bare |-> FALSE, set |-> {}]]
  OBVIOUS
<1>5. PICK t : t = [c \in Collections |-> [u \in Tranches |-> 0]]
  OBVIOUS
<1>6. chain = [reserves |-> r, treasury |-> None, twap |-> {}, configurator |-> FALSE, weth |-> 0,
               approved |-> FALSE, tranches |-> t]
  BY <1>4, <1>5 DEF Init
<1>7. r \in [Collections -> Reserve]
  BY <1>4 DEF Reserve
<1>8. t \in [Collections -> [Tranches -> Nat]]
  BY <1>5
<1>9. chain \in Chains
  BY <1>6, <1>7, <1>8 DEF Chains
<1>10. GoodSteps(<<>>)
  BY <1>1 DEF GoodSteps
<1>11. /\ DOMAIN run = {"task", "on", "todo", "waiting"} /\ run.waiting = FALSE /\ run.todo = <<>>
  BY <1>2
<1>12. QED
  BY <1>1, <1>3, <1>9, <1>10, <1>11 DEF Typed

LEMMA NextTyped ==
  ASSUME Typed, [Next]_vars
  PROVE  Typed'
<1>1. CASE UNCHANGED vars
  BY <1>1 DEF vars, Typed
<1>2. ASSUME NEW k, NEW a, Emits(k, a)
      PROVE  Typed'
  <2>1. GoodSteps(run'.todo) /\ run'.task # None /\ DOMAIN run' = {"task", "on", "todo", "waiting"}
    BY <1>2, HeadAndTail DEF Emits, Keeps, Goes, Typed
  <2>2. CASE mining = "auto"
    <3>1. chain' = After(k, chain) /\ pool' = pool /\ run'.waiting = FALSE /\ mining' = mining
      BY <1>2, <2>2 DEF Emits
    <3>2. chain' \in Chains
      BY <1>2, <3>1, AfterTyped DEF Emits, Typed
    <3>3. QED
      BY <2>1, <3>1, <3>2 DEF Typed
  <2>3. CASE mining # "auto"
    <3>1. chain' = chain /\ pool' = Append(pool, k) /\ run'.waiting = a /\ a \in BOOLEAN /\ mining' = mining /\ GoodCall(k)
      BY <1>2, <2>3 DEF Emits
    <3>2. IsSeq(pool') /\ Items(pool') = Items(pool) \cup {k} /\ pool' # <<>>
      BY <3>1, SeqAppend DEF Typed
    <3>3. \A q \in Items(pool') : GoodCall(q)
      BY <3>1, <3>2 DEF Typed
    <3>4. chain' \in Chains /\ mining' \in Mining /\ mining' # "auto" /\ run'.waiting \in BOOLEAN
      BY <2>3, <3>1 DEF Typed
    <3> HIDE <3>1
    <3>5. QED
      BY <2>1, <3>2, <3>3, <3>4 DEF Typed
  <2>4. QED
    BY <2>2, <2>3
<1>3. CASE Reads
  <2>1. PICK B : B = {}
    OBVIOUS
  <2>3. PICK s : s = AfterStatus(Head(run.todo).task, Head(run.todo).c, chain.reserves[Head(run.todo).c])
    OBVIOUS
  <2>4. GoodSteps(s)
    BY <1>3, <2>3, ReadGives DEF Reads, Plan
  <2>5. GoodSteps(Tail(run.todo))
    BY <1>3, HeadAndTail DEF Reads
  <2>6. GoodSteps(Joined(s, Tail(run.todo)))
    BY <2>4, <2>5, SeqJoined DEF GoodSteps
  <2>7. GoodSteps(run'.todo)
    BY <1>3, <2>3, <2>6 DEF Reads
  <2>8. run'.task # None /\ DOMAIN run' = {"task", "on", "todo", "waiting"} /\ run'.waiting = FALSE
    BY <1>3 DEF Reads, Goes, Keeps, Typed
  <2>9. chain' = chain /\ pool' = pool /\ mining' = mining
    BY <1>3 DEF Reads
  <2>10. QED
    BY <2>7, <2>8, <2>9 DEF Typed
<1>4. CASE Skips
  <2>1. GoodSteps(run'.todo)
    BY <1>4, HeadAndTail DEF Skips
  <2>2. run'.task # None /\ DOMAIN run' = {"task", "on", "todo", "waiting"} /\ run'.waiting = FALSE
    BY <1>4 DEF Skips, Goes, Keeps, Typed
  <2>3. chain' = chain /\ pool' = pool /\ mining' = mining
    BY <1>4 DEF Skips
  <2>4. QED
    BY <2>1, <2>2, <2>3 DEF Typed
<1>5. ASSUME run' = NoRun
      PROVE  /\ GoodSteps(run'.todo) /\ run'.todo = <<>> /\ run'.waiting = FALSE
             /\ DOMAIN run' = {"task", "on", "todo", "waiting"}
  BY <1>5, SeqNone DEF NoRun, GoodSteps
<1>6. CASE Leaves \/ Ends
  <2>1. run' = NoRun /\ chain' = chain /\ pool' = pool /\ mining' = mining
    BY <1>6 DEF Leaves, Ends
  <2>2. QED
    BY <2>1, <1>5 DEF Typed
<1>7. CASE Mines
  <2>1. PICK k : k = Head(pool)
    OBVIOUS
  <2>2. /\ IsSeq(pool) /\ pool # <<>> /\ pool' = Tail(pool) /\ chain' = After(k, chain) /\ mining' = mining
    BY <1>7, <2>1 DEF Mines, Typed
  <2>3. IsSeq(pool') /\ Len(pool) \in Nat /\ Len(pool') = Len(pool) - 1 /\ Items(pool) = {k} \cup Items(pool')
    BY <2>1, <2>2, SeqTail
  <2>4. GoodCall(k) /\ \A q \in Items(pool') : GoodCall(q)
    BY <2>3 DEF Typed
  <2>5. chain' \in Chains
    BY <2>2, <2>4, AfterTyped DEF Typed
  <2>6. mining # "auto"
    BY <2>2 DEF Typed
  <2>7. /\ DOMAIN run' = {"task", "on", "todo", "waiting"} /\ run'.waiting \in BOOLEAN /\ GoodSteps(run'.todo)
        /\ run'.task = None => run'.todo = <<>> /\ ~run'.waiting
    <3>1. CASE run' = run
      BY <3>1 DEF Typed
    <3>2. CASE Keeps /\ run'.todo = run.todo /\ run'.waiting = FALSE
      BY <3>2 DEF Typed, Keeps
    <3>3. CASE run' = NoRun
      BY <3>3, <1>5
    <3>4. QED
      BY <1>7, <3>1, <3>2, <3>3 DEF Mines
  <2>8. run'.waiting => pool' # <<>>
    <3>1. ASSUME run'.waiting
          PROVE  run.waiting /\ Len(pool) # 1
      BY <1>7, <3>1 DEF Mines, NoRun
    <3>2. pool' = <<>> => Len(pool') = 0
      BY SeqNone
    <3>3. QED
      BY <3>1, <3>2, <2>3
  <2>9. mining' \in Mining /\ mining' # "auto"
    BY <2>2, <2>6 DEF Typed
  <2> HIDE <2>2
  <2>10. QED
    BY <2>3, <2>4, <2>5, <2>7, <2>8, <2>9, <2>2 DEF Typed
<1>8. ASSUME NEW task \in Tasks, NEW c \in Targets \cup {Crab}, Begins(task, c, TaskSteps(task, c))
      PROVE  Typed'
  BY <1>8, NamesKnown, TaskGood, BeginsTyped
<1>9. ASSUME NEW name \in Manual[mining], NEW c \in Targets, Begins(name, c, ManualSteps(name, c))
      PROVE  Typed'
  <2>1. name \in ManualNames /\ name # None /\ c \in Collections
    BY NamesKnown DEF Typed
  <2>2. QED
    BY <1>9, <2>1, ManualGood, BeginsTyped
<1>10. ASSUME NEW selection \in Selections, Begins("runner", selection, Runner(selection))
       PROVE  Typed'
  BY <1>10, NamesKnown, RunnerGood, BeginsTyped
<1>11. QED
  BY <1>1, <1>2, <1>3, <1>4, <1>6, <1>7, <1>8, <1>9, <1>10, StepForms

-----------------------------------------------------------------------------
(***************************************************************************)
(* Activation keeps its place after the terms.                             *)
(***************************************************************************)
LEMMA EmitsAdds ==
  ASSUME NEW k, NEW a, Emits(k, a)
  PROVE  /\ Adds(Head(run.todo)) \subseteq {k} /\ Head(run.todo).op # "status"
         /\ k.fn \notin {"wrap", "approve"} => Head(run.todo).op = "send" /\ Head(run.todo).call = k
BY DEF Emits, Adds

LEMMA NoRunOrdered ==
  ASSUME NEW B
  PROVE  Prepares(NoRun.todo, B)
<1>1. NoRun.todo = <<>>
  BY DEF NoRun
<1>2. QED
  BY <1>1, SeqNone, PreparesNone

LEMMA ActiveAfter ==
  ASSUME Typed, Ordered, NEW k, GoodCall(k), Proper(k) => Readied(Have(chain), k.c),
         chain' = After(k, chain)
  PROVE  \A c \in Collections :
           chain'.reserves[c].active /\ ~chain'.reserves[c].bare => Readied(Have(chain'), c)
<1>1. SUFFICES ASSUME NEW c \in Collections, chain'.reserves[c].active, ~chain'.reserves[c].bare
               PROVE  Readied(Have(chain'), c)
  OBVIOUS
<1>2. chain \in Chains
  BY DEF Typed
<1>3. \/ chain.reserves[c].active /\ ~chain.reserves[c].bare
      \/ chain'.reserves[c].set = Fields
      \/ Proper(k) /\ k.c = c
  BY <1>1, <1>2, ReservesAfter
<1>4. CASE (chain.reserves[c].active /\ ~chain.reserves[c].bare) \/ (Proper(k) /\ k.c = c)
  <2>1. Readied(Have(chain), c)
    BY <1>4 DEF Ordered
  <2>2. \A f \in Terms : SetField(c, f) \in Have(chain')
    <3>1. ASSUME NEW f \in Terms
          PROVE  SetField(c, f) \in Have(chain')
      <4>1. SetField(c, f) \in Have(chain) \cup {k}
        BY <2>1 DEF Readied
      <4>2. QED
        BY <4>1, <1>2, HaveAfter
    <3>2. QED
      BY <3>1
  <2>3. QED
    BY <2>2 DEF Readied
<1>5. CASE chain'.reserves[c].set = Fields
  BY <1>5, HaveMeans DEF Readied, Terms, Fields
<1>6. QED
  BY <1>3, <1>4, <1>5

LEMMA EmitsOrdered ==
  ASSUME Typed, Ordered, NEW k, NEW a, Emits(k, a)
  PROVE  Ordered'
<1>1. PICK s : s = run.todo
  OBVIOUS
<1>2. Goes /\ run'.todo = Tail(s) /\ GoodCall(k) /\ chain \in Chains
  BY <1>1 DEF Emits, Typed
<1>3. IsSeq(s) /\ s # <<>> /\ Items(s) = {Head(s)} \cup Items(Tail(s))
  BY <1>1, <1>2, HeadAndTail
<1>5. PICK B : B = Have(chain) \cup Items(pool)
  OBVIOUS
<1>6. Prepares(s, B)
  BY <1>1, <1>5 DEF Ordered
<1>7. Prepares(Tail(s), B \cup Adds(Head(s)))
  BY <1>3, <1>6, PreparesTail
<1>8. Proper(k) => Readied(B, k.c)
  <2>1. SUFFICES ASSUME Proper(k)
                 PROVE  Readied(B, k.c)
    OBVIOUS
  <2>2. Head(s).op = "send" /\ Head(s).call = k
    BY <2>1, <1>1, EmitsAdds DEF Proper
  <2>3. Len(s) \in Nat /\ Len(s) > 0 /\ Head(s) = s[1]
    BY <1>3, SeqTail
  <2>4. 1 \in 1..Len(s) /\ Activation(s[1]) /\ s[1].call.c = k.c
    BY <2>1, <2>2, <2>3 DEF Activation
  <2>5. Readied(B \cup Before(s, 1), k.c)
    BY <2>4, <1>6 DEF Prepares
  <2>6. Before(s, 1) = {}
    BY DEF Before
  <2>7. QED
    BY <2>5, <2>6
<1>9. CASE mining = "auto"
  <2>1. chain' = After(k, chain) /\ pool' = pool /\ pool = <<>>
    BY <1>9 DEF Emits, Typed
  <2>2. Items(pool) = {} /\ Len(pool) = 0
    BY <2>1, SeqNone
  <2>3. B = Have(chain)
    BY <1>5, <2>2
  <2>4. \A c \in Collections :
          chain'.reserves[c].active /\ ~chain'.reserves[c].bare => Readied(Have(chain'), c)
    BY <1>2, <1>8, <2>1, <2>3, ActiveAfter
  <2>5. Orders(pool', Have(chain'))
    BY <2>1, <2>2 DEF Orders
  <2>6. Prepares(run'.todo, Have(chain') \cup Items(pool'))
    <3>1. \A c : \A f \in Terms : SetField(c, f) \in B \cup Adds(Head(s)) => SetField(c, f) \in Have(chain') \cup Items(pool')
      <4>1. ASSUME NEW c, NEW f \in Terms, SetField(c, f) \in B \cup Adds(Head(s))
            PROVE  SetField(c, f) \in Have(chain')
        <5>1. SetField(c, f) \in Have(chain) \cup {k}
          BY <4>1, <2>3, <1>1, EmitsAdds
        <5>2. QED
          BY <5>1, <1>2, <2>1, HaveAfter
      <4>2. QED
        BY <4>1
    <3>2. QED
      BY <1>2, <1>7, <3>1, PreparesMore
  <2>7. QED
    BY <2>4, <2>5, <2>6 DEF Ordered
<1>10. CASE mining # "auto"
  <2>1. chain' = chain /\ pool' = Append(pool, k)
    BY <1>10 DEF Emits
  <2>2. IsSeq(pool) /\ Items(pool') = Items(pool) \cup {k}
    BY <2>1, SeqAppend DEF Typed
  <2>3. Orders(pool', Have(chain'))
    BY <1>5, <1>8, <2>1, <2>2, OrdersAppend DEF Ordered
  <2>4. Prepares(run'.todo, Have(chain') \cup Items(pool'))
    <3>1. \A c : \A f \in Terms : SetField(c, f) \in B \cup Adds(Head(s)) => SetField(c, f) \in Have(chain') \cup Items(pool')
      BY <1>1, <1>5, <2>1, <2>2, EmitsAdds
    <3>2. QED
      BY <1>2, <1>7, <3>1, PreparesMore
  <2>5. QED
    BY <2>1, <2>3, <2>4 DEF Ordered
<1>11. QED
  BY <1>9, <1>10

LEMMA ReadsOrdered ==
  ASSUME Typed, Ordered, Reads
  PROVE  Ordered'
<1>1. PICK x : x = Head(run.todo)
  OBVIOUS
<1>2. PICK t : t = Tail(run.todo)
  OBVIOUS
<1>3. Goes /\ x.op = "status" /\ chain' = chain /\ pool' = pool
  BY <1>1 DEF Reads
<1>4. /\ IsSeq(run.todo) /\ run.todo # <<>> /\ GoodSteps(t) /\ Items(run.todo) = {x} \cup Items(t)
  BY <1>1, <1>2, <1>3, HeadAndTail
<1>6. PICK B : B = Have(chain) \cup Items(pool)
  OBVIOUS
<1>7. PICK s : s = AfterStatus(x.task, x.c, chain.reserves[x.c])
  OBVIOUS
<1>8. Plan(s, B, StatusItems(x.task, x.c, chain.reserves[x.c])) /\ x.task \in StatusTasks
  BY <1>1, <1>3, <1>7, ReadGives
<1>9. GoodSteps(s) /\ Prepares(s, B) /\ Items(s) = StatusItems(x.task, x.c, chain.reserves[x.c])
  BY <1>8 DEF Plan
<1>10. Prepares(t, B \cup Sent(s))
  <2>1. Prepares(t, B \cup Adds(x))
    BY <1>1, <1>2, <1>4, <1>6, PreparesTail DEF Ordered
  <2>2. Adds(x) = {}
    BY <1>3 DEF Adds
  <2>3. \A c : \A f \in Terms : SetField(c, f) \in B \cup Adds(x) => SetField(c, f) \in B \cup Sent(s)
    BY <2>2
  <2>4. QED
    BY <2>1, <2>3, PreparesMore
<1>11. IsSeq(s) /\ IsSeq(t)
  BY <1>4, <1>9 DEF GoodSteps
<1>12. Prepares(Joined(s, t), B) /\ Items(Joined(s, t)) = Items(s) \cup Items(t)
  BY <1>9, <1>10, <1>11, PreparesJoined, SeqJoined
<1>13. run'.todo = Joined(s, t)
  BY <1>1, <1>2, <1>7 DEF Reads
<1>15. QED
  BY <1>3, <1>6, <1>12, <1>13 DEF Ordered

LEMMA SkipsOrdered ==
  ASSUME Typed, Ordered, Skips
  PROVE  Ordered'
<1>1. Goes /\ run'.todo = Tail(run.todo) /\ chain' = chain /\ pool' = pool
  BY DEF Skips
<1>2. /\ IsSeq(run.todo) /\ run.todo # <<>> /\ Items(run.todo) = {Head(run.todo)} \cup Items(Tail(run.todo))
  BY <1>1, HeadAndTail
<1>3. PICK B : B = Have(chain) \cup Items(pool)
  OBVIOUS
<1>4. Prepares(Tail(run.todo), B \cup Adds(Head(run.todo)))
  BY <1>2, <1>3, PreparesTail DEF Ordered
<1>5. B \cup Adds(Head(run.todo)) = B
  BY DEF Skips, Adds
<1>6. Prepares(run'.todo, B)
  BY <1>1, <1>4, <1>5
<1>7. QED
  BY <1>1, <1>3, <1>6 DEF Ordered

LEMMA MinesOrdered ==
  ASSUME Typed, Ordered, Mines
  PROVE  Ordered'
<1>1. PICK k : k = Head(pool)
  OBVIOUS
<1>2. IsSeq(pool) /\ pool # <<>> /\ pool' = Tail(pool) /\ chain' = After(k, chain) /\ chain \in Chains
  BY <1>1 DEF Mines, Typed
<1>3. /\ Len(pool) \in Nat /\ Len(pool) > 0 /\ k = pool[1] /\ Items(pool) = {k} \cup Items(pool')
  BY <1>1, <1>2, SeqTail
<1>4. GoodCall(k)
  BY <1>3 DEF Typed
<1>5. Proper(k) => Readied(Have(chain), k.c)
  <2>1. 1 \in 1..Len(pool) /\ {pool[j] : j \in 1..1 - 1} = {}
    BY <1>3
  <2>2. Proper(pool[1]) => Readied(Have(chain) \cup {pool[j] : j \in 1..1 - 1}, pool[1].c)
    BY <2>1 DEF Ordered, Orders
  <2>3. QED
    BY <1>3, <2>1, <2>2
<1>6. \A c \in Collections :
        chain'.reserves[c].active /\ ~chain'.reserves[c].bare => Readied(Have(chain'), c)
  BY <1>2, <1>4, <1>5, ActiveAfter
<1>7. \A c : \A f \in Terms : SetField(c, f) \in Have(chain) \cup {k} => SetField(c, f) \in Have(chain')
  BY <1>2, <1>4, HaveAfter
<1>8. Orders(pool', Have(chain'))
  <2>1. Orders(Tail(pool), Have(chain) \cup {k})
    BY <1>1, <1>2, OrdersTail DEF Ordered
  <2>2. QED
    BY <1>2, <1>7, <2>1, OrdersMore
<1>9. Prepares(run.todo, Have(chain') \cup Items(pool'))
  <2>1. Prepares(run.todo, Have(chain) \cup Items(pool))
    BY DEF Ordered
  <2>2. \A c : \A f \in Terms : SetField(c, f) \in Have(chain) \cup Items(pool) => SetField(c, f) \in Have(chain') \cup Items(pool')
    BY <1>3, <1>7
  <2>3. QED
    BY <2>1, <2>2, PreparesMore
<1>10. Prepares(run'.todo, Have(chain') \cup Items(pool'))
  <2>1. CASE run' = NoRun
    BY <2>1, NoRunOrdered
  <2>2. CASE run'.todo = run.todo
    BY <2>2, <1>9 DEF Ordered
  <2>3. QED
    BY <2>1, <2>2 DEF Mines
<1>11. QED
  BY <1>6, <1>8, <1>10 DEF Ordered

LEMMA BeginsOrdered ==
  ASSUME Typed, Ordered, NEW task, NEW c, NEW steps, Begins(task, c, steps),
         Prepares(steps, Have(chain) \cup Items(pool))
  PROVE  Ordered'
<1>1. run'.todo = steps /\ chain' = chain /\ pool' = pool
  BY DEF Begins
<1>2. QED
  BY <1>1 DEF Ordered

LEMMA InitOrdered ==
  ASSUME Init
  PROVE  Ordered
<1>1. pool = <<>> /\ run = NoRun
  BY DEF Init
<1>2. Len(pool) = 0
  BY <1>1, SeqNone
<1>3. \A c \in Collections : ~chain.reserves[c].active
  BY DEF Init
<1>4. Orders(pool, Have(chain))
  BY <1>2 DEF Orders
<1>5. QED
  BY <1>1, <1>3, <1>4, NoRunOrdered DEF Ordered

LEMMA NextOrdered ==
  ASSUME Typed, Ordered, [Next]_vars
  PROVE  Ordered'
<1>1. CASE UNCHANGED vars
  BY <1>1 DEF vars, Ordered
<1>2. ASSUME NEW k, NEW a, Emits(k, a)
      PROVE  Ordered'
  BY <1>2, EmitsOrdered
<1>3. CASE Leaves \/ Ends
  <2>1. run' = NoRun /\ chain' = chain /\ pool' = pool
    BY <1>3 DEF Leaves, Ends
  <2>2. QED
    BY <2>1, NoRunOrdered DEF Ordered
<1>4. PICK B : B = Have(chain) \cup Items(pool)
  OBVIOUS
<1>5. ASSUME NEW task \in Tasks, NEW c \in Targets \cup {Crab}, Begins(task, c, TaskSteps(task, c))
      PROVE  Ordered'
  <2>1. task \in TaskNames /\ c \in Collections
    BY NamesKnown
  <2>2. PICK I : Plan(TaskSteps(task, c), B, I)
    BY <2>1, TaskPlan
  <2>3. Prepares(TaskSteps(task, c), B)
    BY <2>2 DEF Plan
  <2>4. QED
    BY <1>4, <1>5, <2>3, BeginsOrdered
<1>6. ASSUME NEW name \in Manual[mining], NEW c \in Targets, Begins(name, c, ManualSteps(name, c))
      PROVE  Ordered'
  <2>1. name \in ManualNames /\ c \in Collections
    BY NamesKnown DEF Typed
  <2>2. PICK I : Plan(ManualSteps(name, c), B, I)
    BY <2>1, ManualPlan
  <2>3. Prepares(ManualSteps(name, c), B)
    BY <2>2 DEF Plan
  <2>4. QED
    BY <1>4, <1>6, <2>3, BeginsOrdered
<1>7. ASSUME NEW selection \in Selections, Begins("runner", selection, Runner(selection))
      PROVE  Ordered'
  <2>1. \A x \in Items(Runner(selection)) : RunnerStep(x)
    BY RunnerPlan DEF Piece
  <2>2. Prepares(Runner(selection), B)
    BY <2>1, PreparesNone DEF RunnerStep
  <2>3. QED
    BY <1>4, <1>7, <2>2, BeginsOrdered
<1>8. QED
  BY <1>1, <1>2, <1>3, <1>5, <1>6, <1>7, StepForms, ReadsOrdered, SkipsOrdered, MinesOrdered

\* The mined state is of its types, an instant chain has no pool, and a
\* process that waits waits for something.
THEOREM SetupTypes ==
  Spec => []TypeOK
<1>1. Init => Typed
  BY InitTyped
<1>2. Typed /\ [Next]_vars => Typed'
  BY NextTyped
<1>3. Typed => TypeOK
  BY ChainKnown DEF Typed, TypeOK
<1>4. QED
  BY <1>1, <1>2, <1>3, PTL DEF Spec

\* Whatever tasks and scripts are run for whatever collections, broken off and
\* run again, with their transactions mined late or at once: a reserve that is
\* active has its terms, unless it was activated on its own
\* (dev:activate-reserve) or in place of another (initialize-reserve.ts:144).
THEOREM TermsFirst ==
  Spec => []ReservesConsistent
<1>1. Init => Typed /\ Ordered
  BY InitTyped, InitOrdered
<1>2. Typed /\ Ordered /\ [Next]_vars => (Typed /\ Ordered)'
  BY NextTyped, NextOrdered
<1>3. Typed /\ Ordered => ReservesConsistent
  <2>1. SUFFICES ASSUME Typed, Ordered
                 PROVE  TypeOK /\ TermsBeforeActivation
    BY DEF ReservesConsistent
  <2>2. TypeOK
    BY <2>1, ChainKnown DEF Typed, TypeOK
  <2>3. TermsBeforeActivation
    BY <2>1, HaveMeans DEF TermsBeforeActivation, Ordered, Readied, Terms
  <2>4. QED
    BY <2>2, <2>3
<1>4. QED
  BY <1>1, <1>2, <1>3, PTL DEF Spec

-----------------------------------------------------------------------------
(***************************************************************************)
(* What has ended has set up its reserve.                                  *)
(***************************************************************************)
Settled == Working /\ Quiet /\ Closed

LEMMA EndsAtLast ==
  ASSUME NEW s, IsSeq(s), s # <<>>, EndsAwaited(s), Tail(s) = <<>>
  PROVE  Head(s).op = "status" \/ (Head(s).op = "send" /\ Head(s).await)
<1>1. Len(s) \in Nat /\ Len(Tail(s)) = Len(s) - 1 /\ Head(s) = s[1]
  BY SeqTail
<1>2. Len(Tail(s)) = 0
  BY SeqNone
<1>3. Len(s) = 1
  BY <1>1, <1>2
<1>4. QED
  BY <1>1, <1>3 DEF EndsAwaited

LEMMA EndsThenNone ==
  ASSUME NEW s, NEW t, IsSeq(s), s # <<>>, EndsAwaited(s), t = <<>>
  PROVE  EndsAwaited(Joined(s, t)) /\ Joined(s, t) # <<>>
<1>1. IsSeq(t) /\ Len(t) = 0
  BY SeqNone
<1>2. PICK S : s \in Seq(S)
  BY DEF IsSeq
<1>3. Len(s) \in Nat /\ Len(s) > 0
  BY <1>2
<1>4. PICK u : u = Joined(s, t)
  OBVIOUS
<1>5. Len(u) = Len(s) + Len(t) /\ \A i \in 1..Len(s) : u[i] = s[i]
  BY <1>1, <1>4, SeqJoined
<1>6. Len(u) = Len(s)
  BY <1>1, <1>3, <1>5
<1>7. u[Len(u)] = s[Len(s)]
  BY <1>3, <1>5, <1>6
<1>8. u # <<>>
  BY <1>3, <1>6, SeqNone
<1>9. QED
  BY <1>4, <1>7, <1>8 DEF EndsAwaited

LEMMA NoRunSettled ==
  ASSUME run' = NoRun, pool' = pool \/ (IsSeq(pool) /\ pool # <<>> /\ pool' = Tail(pool)), Quiet
  PROVE  Working' /\ Quiet'
<1>1. run'.todo = <<>> /\ run'.task = None
  BY DEF NoRun
<1>2. None \notin Complete
  BY NamesKnown
<1>3. Sent(<<>>) = {}
  BY SeqNone
<1>4. "deactivate" # None
  BY NamesKnown DEF ManualNames
<1>5. \A k \in Items(pool') : k \in Items(pool)
  BY SeqTail
<1>6. Working'
  BY <1>1, <1>2 DEF Working
<1>7. QED
  BY <1>1, <1>3, <1>4, <1>5, <1>6 DEF Quiet

\* Nothing sent or pending undoes an activation while a task sets one up.
LEMMA EmitsCalm ==
  ASSUME NoLateDeactivation, Typed, Quiet, NEW k, NEW a, Emits(k, a)
  PROVE  /\ Quiet'
         /\ run.task # "deactivate" => k.fn # "deactivateReserve"
<1>1. Goes /\ run'.task = run.task /\ run'.todo = Tail(run.todo) /\ mining' = mining
  BY DEF Emits, Keeps
<1>2. Sent(run.todo) = Adds(Head(run.todo)) \cup Sent(Tail(run.todo))
  BY <1>1, HeadAndTail
<1>3. k.fn = "deactivateReserve" => run.task = "deactivate"
  <2>1. SUFFICES ASSUME k.fn = "deactivateReserve"
                 PROVE  run.task = "deactivate"
    OBVIOUS
  <2>2. k \in Adds(Head(run.todo))
    BY <2>1, EmitsAdds DEF Adds
  <2>3. QED
    BY <2>1, <2>2, <1>2 DEF Quiet
<1>4. /\ \A q \in Sent(run'.todo) : q.fn = "deactivateReserve" => run'.task = "deactivate"
      /\ run'.task = "deactivate" => "deactivate" \in Manual[mining']
  BY <1>1, <1>2 DEF Quiet
<1>5. \A q \in Items(pool') : q.fn # "deactivateReserve"
  <2>1. CASE mining = "auto"
    BY <2>1 DEF Emits, Quiet
  <2>2. CASE mining # "auto"
    <3>5. pool' = Append(pool, k)
      BY <2>2 DEF Emits
    <3>1. Items(pool') = Items(pool) \cup {k}
      BY <3>5, SeqAppend DEF Typed
    <3>2. "deactivate" \notin Manual[mining]
      BY <2>2 DEF NoLateDeactivation, Typed
    <3>3. k.fn # "deactivateReserve"
      BY <1>3, <3>2 DEF Quiet
    <3>4. QED
      BY <3>1, <3>3 DEF Quiet
  <2>3. QED
    BY <2>1, <2>2
<1>6. QED
  BY <1>3, <1>4, <1>5 DEF Quiet

LEMMA EmitsWorking ==
  ASSUME NoLateDeactivation, Typed, Working, Quiet, NEW k, NEW a, Emits(k, a)
  PROVE  Working'
<1>1. SUFFICES ASSUME run'.task \in Complete, run'.on = Crab
               PROVE  /\ EndsAwaited(run'.todo)
                      /\ run'.todo = <<>> /\ ~run'.waiting => pool' = <<>>
                      /\ \A x \in Items(run'.todo) : x.op = "status" => x.task = "initialize-reserve" /\ x.c = Crab
                      /\ \/ StatusLeft(run'.todo)
                         \/ \A g \in Goals : Done(g, chain') \/ g \in Sent(run'.todo) \cup Items(pool')
                      /\ run'.task = "bootstrap" =>
                           \A t \in Tranches : Funded(t, chain') \/ DepositOf(t) \in Sent(run'.todo) \/ Awaits(DepositOf(t))'
  BY DEF Working
<1>2. PICK s : s = run.todo
  OBVIOUS
<1>3. PICK x : x = Head(s)
  OBVIOUS
<1>4. Goes /\ run'.task = run.task /\ run'.on = run.on /\ run'.todo = Tail(s) /\ GoodCall(k) /\ chain \in Chains
  BY <1>2 DEF Emits, Keeps, Typed
<1>5. IsSeq(s) /\ s # <<>> /\ Items(s) = {x} \cup Items(Tail(s)) /\ Sent(s) = Adds(x) \cup Sent(Tail(s))
  BY <1>2, <1>3, <1>4, HeadAndTail
<1>6. run.task \in Complete /\ run.on = Crab /\ EndsAwaited(s)
  BY <1>1, <1>2, <1>4 DEF Working
<1>7. k.fn # "deactivateReserve"
  BY <1>6, EmitsCalm DEF Complete
<1>8. Adds(x) \subseteq {k} /\ x.op # "status"
  BY <1>2, <1>3, EmitsAdds
<1>9. EndsAwaited(run'.todo)
  BY <1>4, <1>5, <1>6, EndsTail
<1>10. \A y \in Items(run'.todo) : y.op = "status" => y.task = "initialize-reserve" /\ y.c = Crab
  BY <1>2, <1>4, <1>5, <1>6 DEF Working
<1>11. StatusLeft(s) => StatusLeft(run'.todo)
  BY <1>4, <1>5, <1>8 DEF StatusLeft
<1>12. StatusLeft(s) \/ \A g \in Goals : Done(g, chain) \/ g \in Sent(s) \cup Items(pool)
  BY <1>2, <1>6 DEF Working
<1>13. run.task = "bootstrap" => \A t \in Tranches : Funded(t, chain) \/ DepositOf(t) \in Sent(s)
  BY <1>2, <1>4, <1>6 DEF Working, Awaits, Goes
<1>14. CASE mining = "auto"
  <2>1. chain' = After(k, chain) /\ pool' = pool /\ pool = <<>>
    BY <1>14 DEF Emits, Typed
  <2>2. Items(pool) = {}
    BY <2>1, SeqNone
  <2>3. ASSUME NEW g \in Goals, Done(g, chain) \/ g \in Sent(s) \cup Items(pool)
        PROVE  Done(g, chain') \/ g \in Sent(run'.todo)
    <3>1. CASE Done(g, chain)
      BY <3>1, <1>4, <1>7, <2>1, GoalKept
    <3>2. CASE g = k
      BY <3>2, <1>4, <2>1, GoalReached
    <3>3. CASE g \in Sent(Tail(s))
      BY <3>3, <1>4
    <3>4. QED
      BY <2>2, <2>3, <3>1, <3>2, <3>3, <1>5, <1>8
  <2>4. ASSUME NEW t \in Tranches, Funded(t, chain) \/ DepositOf(t) \in Sent(s)
        PROVE  Funded(t, chain') \/ DepositOf(t) \in Sent(run'.todo)
    <3>1. CASE Funded(t, chain)
      BY <3>1, <1>4, <2>1, FundedKept
    <3>2. CASE DepositOf(t) = k
      <4>1. Succeeds(DepositOf(t), chain)
        BY <3>2 DEF Emits
      <4>2. QED
        BY <3>2, <4>1, <1>4, <2>1, FundedReached
    <3>3. CASE DepositOf(t) \in Sent(Tail(s))
      BY <3>3, <1>4
    <3>4. QED
      BY <2>4, <3>1, <3>2, <3>3, <1>5, <1>8
  <2>5. QED
    BY <1>4, <1>6, <1>9, <1>10, <1>11, <1>12, <1>13, <2>1, <2>3, <2>4
<1>15. CASE mining # "auto"
  <2>1. chain' = chain /\ pool' = Append(pool, k) /\ run'.waiting = a
    BY <1>15 DEF Emits
  <2>2. /\ IsSeq(pool) /\ Len(pool) \in Nat /\ Items(pool') = Items(pool) \cup {k}
        /\ Len(pool') = Len(pool) + 1 /\ pool'[Len(pool) + 1] = k
    BY <2>1, SeqAppend DEF Typed
  <2>3. run'.todo = <<>> => run'.waiting
    <3>1. SUFFICES ASSUME Tail(s) = <<>>
                   PROVE  a
      BY <1>4, <2>1
    <3>2. x.op = "send" /\ x.await
      BY <3>1, <1>3, <1>5, <1>6, <1>8, EndsAtLast
    <3>3. QED
      BY <3>2, <1>2, <1>3 DEF Emits
  <2>4. \A g \in Goals : Done(g, chain) \/ g \in Sent(s) \cup Items(pool) => Done(g, chain') \/ g \in Sent(run'.todo) \cup Items(pool')
    BY <1>4, <1>5, <1>8, <2>1, <2>2
  <2>5. ASSUME NEW t \in Tranches, Funded(t, chain) \/ DepositOf(t) \in Sent(s)
        PROVE  Funded(t, chain') \/ DepositOf(t) \in Sent(run'.todo) \/ Awaits(DepositOf(t))'
    <3>1. CASE Funded(t, chain)
      BY <3>1, <2>1
    <3>2. CASE DepositOf(t) = k
      <4>1. k.fn = "deposit"
        BY <3>2, CallFields DEF DepositOf
      <4>2. run'.waiting = TRUE
        BY <4>1, <2>1 DEF Emits, Awaited
      <4>3. pool'[Len(pool')] = DepositOf(t)
        BY <3>2, <2>2
      <4>4. QED
        BY <4>2, <4>3 DEF Awaits
    <3>3. CASE DepositOf(t) \in Sent(Tail(s))
      BY <3>3, <1>4
    <3>4. QED
      BY <2>5, <3>1, <3>2, <3>3, <1>5, <1>8
  <2>6. QED
    BY <1>4, <1>6, <1>9, <1>10, <1>11, <1>12, <1>13, <2>3, <2>4, <2>5
<1>16. QED
  BY <1>14, <1>15

LEMMA ReadsSettled ==
  ASSUME Typed, Working, Quiet, Reads
  PROVE  Working' /\ Quiet'
<1>1. PICK x : x = Head(run.todo)
  OBVIOUS
<1>2. PICK t : t = Tail(run.todo)
  OBVIOUS
<1>3. /\ Goes /\ x.op = "status" /\ chain' = chain /\ pool' = pool /\ mining' = mining
      /\ run'.task = run.task /\ run'.on = run.on
  BY <1>1 DEF Reads, Keeps
<1>4. /\ IsSeq(run.todo) /\ run.todo # <<>> /\ GoodSteps(t) /\ Items(run.todo) = {x} \cup Items(t)
      /\ Sent(run.todo) = Adds(x) \cup Sent(t)
  BY <1>1, <1>2, <1>3, HeadAndTail
<1>5. PICK s : s = AfterStatus(x.task, x.c, chain.reserves[x.c])
  OBVIOUS
<1>6. PICK B : B = {SetField(Crab, f) : f \in Terms}
  OBVIOUS
<1>8. /\ Plan(s, B, StatusItems(x.task, x.c, chain.reserves[x.c])) /\ x.task \in StatusTasks
      /\ chain.reserves[x.c] \in Statuses /\ x.c \in Collections
  BY <1>1, <1>3, <1>5, ReadGives
<1>9. IsSeq(s) /\ Items(s) = StatusItems(x.task, x.c, chain.reserves[x.c]) /\ IsSeq(t)
  BY <1>4, <1>8 DEF Plan, GoodSteps
<1>10. Items(Joined(s, t)) = Items(s) \cup Items(t) /\ Sent(Joined(s, t)) = Sent(s) \cup Sent(t)
  BY <1>9, SeqJoined, SentJoined
<1>11. run'.todo = Joined(s, t)
  BY <1>1, <1>2, <1>5 DEF Reads
<1>12. Adds(x) = {}
  BY <1>3 DEF Adds
<1>13. ASSUME NEW y \in Items(s)
       PROVE  y.op = "send" /\ y.call.fn # "deactivateReserve"
  BY <1>8, <1>9, StatusSends
<1>14. Quiet'
  <2>1. \A k \in Sent(s) : k.fn # "deactivateReserve"
    BY <1>13 DEF Sent, SentOf, Adds
  <2>2. QED
    BY <1>3, <1>4, <1>10, <1>11, <2>1 DEF Quiet
<1>15. Working'
  <2>1. SUFFICES ASSUME run'.task \in Complete, run'.on = Crab
                 PROVE  /\ EndsAwaited(run'.todo)
                        /\ run'.todo = <<>> /\ ~run'.waiting => pool' = <<>>
                        /\ \A y \in Items(run'.todo) : y.op = "status" => y.task = "initialize-reserve" /\ y.c = Crab
                        /\ \/ StatusLeft(run'.todo)
                           \/ \A g \in Goals : Done(g, chain') \/ g \in Sent(run'.todo) \cup Items(pool')
                        /\ run'.task = "bootstrap" =>
                             \A u \in Tranches : Funded(u, chain') \/ DepositOf(u) \in Sent(run'.todo) \/ Awaits(DepositOf(u))'
    BY DEF Working
  <2>2. run.task \in Complete /\ run.on = Crab /\ EndsAwaited(run.todo)
    BY <1>3, <2>1 DEF Working
  <2>3. x.task = "initialize-reserve" /\ x.c = Crab
    BY <1>3, <1>4, <2>2 DEF Working
  <2>4. PICK status : status = chain.reserves[Crab]
    OBVIOUS
  <2>5. s = InitializeReserve(Crab, status) /\ status \in Statuses /\ Crab \in Collections
    BY <1>5, <1>8, <2>3, <2>4 DEF AfterStatus
  <2>6. EndsAwaited(s) /\ s # <<>>
    BY <2>5, InitializePlan
  <2>7. EndsAwaited(Joined(s, t)) /\ Joined(s, t) # <<>>
    <3>1. CASE t = <<>>
      BY <3>1, <1>9, <2>6, EndsThenNone
    <3>2. CASE t # <<>>
      <4>1. EndsAwaited(t)
        BY <1>2, <1>4, <2>2, EndsTail
      <4>2. QED
        BY <3>2, <4>1, <1>9, EndsJoined
    <3>3. QED
      BY <3>1, <3>2
  <2>8. \A y \in Items(Joined(s, t)) : y.op = "status" => y.task = "initialize-reserve" /\ y.c = Crab
    <3>1. \A y \in Items(t) : y.op = "status" => y.task = "initialize-reserve" /\ y.c = Crab
      BY <1>4, <2>2 DEF Working
    <3>2. \A y \in Items(s) : y.op # "status"
      BY <1>13
    <3>3. QED
      BY <1>10, <3>1, <3>2
  <2>9. ASSUME NEW g \in Goals
        PROVE  Done(g, chain) \/ g \in Sent(s)
    <3>1. Items(s) = InitializeItems(Crab, chain.reserves[Crab])
      BY <1>9, <2>3 DEF StatusItems
    <3>2. chain \in Chains
      BY DEF Typed
    <3>3. QED
      BY <3>1, <3>2, InitializeSends DEF Sent
  <2>10. run.task = "bootstrap" => \A u \in Tranches : Funded(u, chain) \/ DepositOf(u) \in Sent(t)
    BY <1>3, <1>4, <1>12, <2>2 DEF Working, Awaits, Goes
  <2>11. QED
    BY <1>3, <1>10, <1>11, <2>2, <2>7, <2>8, <2>9, <2>10
<1>16. QED
  BY <1>14, <1>15

LEMMA SkipsSettled ==
  ASSUME Typed, Working, Quiet, Skips
  PROVE  Working' /\ Quiet'
<1>1. PICK s : s = run.todo
  OBVIOUS
<1>2. PICK x : x = Head(s)
  OBVIOUS
<1>3. /\ Goes /\ x.op \in {"wrapMissing", "approveOnce", "needs"} /\ run'.todo = Tail(s) /\ run'.waiting = FALSE
      /\ chain' = chain /\ pool' = pool /\ mining' = mining /\ run'.task = run.task /\ run'.on = run.on
  BY <1>1, <1>2 DEF Skips, Keeps
<1>4. IsSeq(s) /\ s # <<>> /\ Items(s) = {x} \cup Items(Tail(s)) /\ Sent(s) = Adds(x) \cup Sent(Tail(s))
  BY <1>1, <1>2, <1>3, HeadAndTail
<1>5. Sent(Tail(s)) = Sent(s)
  BY <1>3, <1>4 DEF Adds
<1>6. Quiet'
  BY <1>1, <1>3, <1>5 DEF Quiet
<1>7. Working'
  <2>1. SUFFICES ASSUME run'.task \in Complete, run'.on = Crab
                 PROVE  /\ EndsAwaited(run'.todo)
                        /\ run'.todo = <<>> /\ ~run'.waiting => pool' = <<>>
                        /\ \A y \in Items(run'.todo) : y.op = "status" => y.task = "initialize-reserve" /\ y.c = Crab
                        /\ \/ StatusLeft(run'.todo)
                           \/ \A g \in Goals : Done(g, chain') \/ g \in Sent(run'.todo) \cup Items(pool')
                        /\ run'.task = "bootstrap" =>
                             \A u \in Tranches : Funded(u, chain') \/ DepositOf(u) \in Sent(run'.todo) \/ Awaits(DepositOf(u))'
    BY DEF Working
  <2>2. run.task \in Complete /\ run.on = Crab /\ EndsAwaited(s)
    BY <1>1, <1>3, <2>1 DEF Working
  <2>3. EndsAwaited(run'.todo)
    BY <1>3, <1>4, <2>2, EndsTail
  <2>4. run'.todo # <<>>
    BY <1>2, <1>3, <1>4, <2>2, EndsAtLast
  <2>5. \A y \in Items(run'.todo) : y.op = "status" => y.task = "initialize-reserve" /\ y.c = Crab
    BY <1>1, <1>3, <1>4, <2>2 DEF Working
  <2>6. \/ StatusLeft(run'.todo)
        \/ \A g \in Goals : Done(g, chain') \/ g \in Sent(run'.todo) \cup Items(pool')
    <3>1. StatusLeft(s) => StatusLeft(Tail(s))
      BY <1>3, <1>4 DEF StatusLeft
    <3>2. StatusLeft(s) \/ \A g \in Goals : Done(g, chain) \/ g \in Sent(s) \cup Items(pool)
      BY <1>1, <2>2 DEF Working
    <3>3. QED
      BY <1>3, <1>5, <3>1, <3>2
  <2>7. run.task = "bootstrap" => \A u \in Tranches : Funded(u, chain) \/ DepositOf(u) \in Sent(s)
    BY <1>1, <1>3, <2>2 DEF Working, Awaits, Goes
  <2>8. QED
    BY <1>3, <1>5, <2>2, <2>3, <2>4, <2>5, <2>6, <2>7
<1>8. QED
  BY <1>6, <1>7

LEMMA MinesSettled ==
  ASSUME Typed, Working, Quiet, Closed, Mines
  PROVE  Working' /\ Quiet' /\ Closed'
<1>1. PICK k : k = Head(pool)
  OBVIOUS
<1>2. /\ IsSeq(pool) /\ pool # <<>> /\ pool' = Tail(pool) /\ chain' = After(k, chain) /\ chain \in Chains
      /\ mining' = mining /\ finished' = finished
  BY <1>1 DEF Mines, Typed
<1>3. PICK n \in Nat : n = Len(pool)
  BY <1>2, SeqTail
<1>4. /\ n > 0 /\ k = pool[1] /\ Items(pool) = {k} \cup Items(pool') /\ Len(pool') = n - 1
      /\ \A i \in 1..n - 1 : pool'[i] = pool[i + 1]
  BY <1>1, <1>2, <1>3, SeqTail
<1>5. GoodCall(k) /\ k.fn # "deactivateReserve"
  BY <1>4 DEF Typed, Quiet
<1>6. Closed'
  <2>1. SUFFICES ASSUME finished # None
                 PROVE  run'.task = None /\ ~(finished.task \in Complete /\ finished.on = Crab)
    BY <1>2 DEF Closed
  <2>2. run.task = None /\ ~(finished.task \in Complete /\ finished.on = Crab)
    BY <1>2, <2>1 DEF Closed
  <2>3. run' = run \/ run' = NoRun
    BY <2>2 DEF Mines, Typed
  <2>4. QED
    BY <2>2, <2>3 DEF NoRun
<1>7. CASE run' = NoRun
  BY <1>2, <1>6, <1>7, NoRunSettled
<1>8. CASE run' # NoRun
  <2>1. run'.task = run.task /\ run'.on = run.on /\ run'.todo = run.todo
    BY <1>8 DEF Mines, Keeps
  <2>2. \/ run' = run /\ ~(n = 1 /\ run.waiting)
        \/ n = 1 /\ run.waiting /\ Succeeds(k, chain) /\ run'.waiting = FALSE
    BY <1>1, <1>3, <1>8 DEF Mines
  <2>3. Quiet'
    BY <1>2, <1>4, <2>1 DEF Quiet
  <2>4. Working'
    <3>1. SUFFICES ASSUME run'.task \in Complete, run'.on = Crab
                   PROVE  /\ EndsAwaited(run'.todo)
                          /\ run'.todo = <<>> /\ ~run'.waiting => pool' = <<>>
                          /\ \A y \in Items(run'.todo) : y.op = "status" => y.task = "initialize-reserve" /\ y.c = Crab
                          /\ \/ StatusLeft(run'.todo)
                             \/ \A g \in Goals : Done(g, chain') \/ g \in Sent(run'.todo) \cup Items(pool')
                          /\ run'.task = "bootstrap" =>
                               \A u \in Tranches : Funded(u, chain') \/ DepositOf(u) \in Sent(run'.todo) \/ Awaits(DepositOf(u))'
      BY DEF Working
    <3>2. run.task \in Complete /\ run.on = Crab
      BY <2>1, <3>1
    <3>3. /\ EndsAwaited(run'.todo)
          /\ \A y \in Items(run'.todo) : y.op = "status" => y.task = "initialize-reserve" /\ y.c = Crab
      BY <2>1, <3>2 DEF Working
    <3>4. run'.todo = <<>> /\ ~run'.waiting => pool' = <<>>
      <4>1. CASE run' = run
        BY <1>2, <3>2, <4>1 DEF Working
      <4>2. CASE n = 1
        <5>1. Len(pool') = 0
          BY <1>4, <4>2
        <5>2. IsSeq(pool')
          BY <1>2, SeqTail
        <5>3. PICK S : pool' \in Seq(S)
          BY <5>2 DEF IsSeq
        <5>4. QED
          BY <5>1, <5>3
      <4>3. QED
        BY <2>2, <4>1, <4>2
    <3>5. ASSUME NEW g \in Goals, Done(g, chain) \/ g \in Sent(run.todo) \cup Items(pool)
          PROVE  Done(g, chain') \/ g \in Sent(run'.todo) \cup Items(pool')
      <4>1. CASE Done(g, chain)
        BY <4>1, <1>2, <1>5, GoalKept
      <4>2. CASE g = k
        BY <4>2, <1>2, GoalReached
      <4>3. QED
        BY <3>5, <4>1, <4>2, <1>4, <2>1
    <3>6. ASSUME NEW u \in Tranches, Funded(u, chain) \/ DepositOf(u) \in Sent(run.todo) \/ Awaits(DepositOf(u))
          PROVE  Funded(u, chain') \/ DepositOf(u) \in Sent(run'.todo) \/ Awaits(DepositOf(u))'
      <4>1. CASE Funded(u, chain)
        BY <4>1, <1>2, <1>5, FundedKept
      <4>2. CASE DepositOf(u) \in Sent(run.todo)
        BY <4>2, <2>1
      <4>3. CASE Awaits(DepositOf(u)) /\ n # 1
        <5>1. run' = run /\ run.waiting
          BY <2>2, <4>3 DEF Awaits
        <5>2. n - 1 \in 1..n - 1 /\ (n - 1) + 1 = n
          BY <1>4, <4>3
        <5>3. pool'[Len(pool')] = pool[n]
          BY <1>4, <5>2
        <5>4. pool'[Len(pool')] = DepositOf(u)
          BY <1>3, <4>3, <5>3 DEF Awaits
        <5>5. QED
          BY <5>1, <5>4 DEF Awaits
      <4>4. CASE Awaits(DepositOf(u)) /\ n = 1
        <5>1. k = DepositOf(u)
          BY <1>3, <1>4, <4>4 DEF Awaits
        <5>2. Succeeds(DepositOf(u), chain)
          BY <2>2, <4>4, <5>1 DEF Awaits
        <5>3. QED
          BY <1>2, <5>1, <5>2, FundedReached
      <4>5. QED
        BY <3>6, <4>1, <4>2, <4>3, <4>4
    <3>7. StatusLeft(run'.todo) \/ \A g \in Goals : Done(g, chain') \/ g \in Sent(run'.todo) \cup Items(pool')
      BY <2>1, <3>2, <3>5 DEF Working
    <3>8. run'.task = "bootstrap" =>
            \A u \in Tranches : Funded(u, chain') \/ DepositOf(u) \in Sent(run'.todo) \/ Awaits(DepositOf(u))'
      BY <2>1, <3>2, <3>6 DEF Working
    <3>9. QED
      BY <3>3, <3>4, <3>7, <3>8
  <2>5. QED
    BY <1>6, <2>3, <2>4
<1>9. QED
  BY <1>7, <1>8

LEMMA EndsSettled ==
  ASSUME Typed, Working, Quiet, Ends
  PROVE  Working' /\ Quiet' /\ Closed'
<1>1. run' = NoRun /\ pool' = pool /\ chain' = chain /\ run.todo = <<>> /\ ~run.waiting
  BY DEF Ends
<1>2. finished' = [task |-> run.task, on |-> run.on]
  BY DEF Ends
<1>3. run'.task = None /\ finished'.task = run.task /\ finished'.on = run.on
  BY <1>1, <1>2 DEF NoRun
<1>4. Items(<<>>) = {} /\ Sent(<<>>) = {}
  BY SeqNone
<1>5. ASSUME run.task \in Complete, run.on = Crab
      PROVE  /\ pool = <<>>
             /\ \A g \in Goals : Done(g, chain)
             /\ run.task = "bootstrap" => \A t \in Tranches : Funded(t, chain)
  <2>1. pool = <<>>
    BY <1>1, <1>5 DEF Working
  <2>2. ~StatusLeft(run.todo)
    BY <1>1, <1>4 DEF StatusLeft
  <2>3. \A g \in Goals : Done(g, chain)
    BY <1>1, <1>4, <1>5, <2>1, <2>2 DEF Working
  <2>4. run.task = "bootstrap" => \A t \in Tranches : Funded(t, chain)
    BY <1>1, <1>4, <1>5 DEF Working, Awaits
  <2>5. QED
    BY <2>1, <2>3, <2>4
<1>6. Closed'
  BY <1>1, <1>3, <1>5 DEF Closed
<1>7. QED
  BY <1>1, <1>6, NoRunSettled

LEMMA InitSettled ==
  ASSUME Init
  PROVE  Settled
<1>1. run.todo = <<>> /\ run.task = None /\ pool = <<>> /\ finished = None
  BY DEF Init, NoRun
<1>2. Items(<<>>) = {} /\ Sent(<<>>) = {}
  BY SeqNone
<1>3. None \notin Complete /\ "deactivate" # None
  BY NamesKnown DEF ManualNames
<1>4. QED
  BY <1>1, <1>2, <1>3 DEF Settled, Working, Quiet, Closed

LEMMA BeginsQuiet ==
  ASSUME Quiet, NEW task, NEW c, NEW steps, Begins(task, c, steps),
         \A x \in Items(steps) : x.op = "send" /\ x.call.fn = "deactivateReserve" => task = "deactivate",
         task = "deactivate" => "deactivate" \in Manual[mining]
  PROVE  Quiet' /\ Closed'
<1>1. run'.todo = steps /\ run'.task = task /\ pool' = pool /\ mining' = mining /\ finished' = None
  BY DEF Begins
<1>2. \A k \in Sent(steps) : k.fn = "deactivateReserve" => task = "deactivate"
  BY DEF Sent, SentOf, Adds
<1>3. QED
  BY <1>1, <1>2 DEF Quiet, Closed

LEMMA TaskBegins ==
  ASSUME Typed, Quiet, NEW task \in TaskNames, NEW c \in Collections,
         Begins(task, c, TaskSteps(task, c))
  PROVE  Working' /\ Quiet' /\ Closed'
<1>1. PICK B : B = {}
  OBVIOUS
<1>2. PICK s : s = TaskSteps(task, c)
  OBVIOUS
<1>4. PICK I : /\ Plan(s, B, I)
               /\ \A x \in I : /\ x.op = "send" => x.call.fn # "deactivateReserve"
                               /\ x.op = "status" => x.c = c
               /\ task \in Complete =>
                    /\ EndsAwaited(s) /\ s # <<>>
                    /\ StatusStep("initialize-reserve", c) \in I
                    /\ \A x \in I : x.op = "status" => x.task = "initialize-reserve"
               /\ task = "bootstrap" =>
                    /\ DepositItems(c, "junior", Junior) \subseteq I
                    /\ DepositItems(c, "senior", Senior) \subseteq I
  BY <1>2, TaskPlan
<1>5. Items(s) = I
  BY <1>4 DEF Plan
<1>6. Quiet' /\ Closed'
  BY <1>2, <1>4, <1>5, NamesKnown, BeginsQuiet
<1>7. run'.task = task /\ run'.on = c /\ run'.todo = s /\ run'.waiting = FALSE
  BY <1>2 DEF Begins
<1>8. task \in Complete => StatusLeft(s)
  BY <1>4, <1>5 DEF StatusLeft, StatusStep
<1>9. task = "bootstrap" /\ c = Crab => \A t \in Tranches : DepositOf(t) \in Sent(s)
  <2>1. SUFFICES ASSUME task = "bootstrap", c = Crab, NEW t \in Tranches
                 PROVE  DepositOf(t) \in Sent(s)
    OBVIOUS
  <2>2. Await(DepositOf(t)) \in DepositItems(Crab, t, AmountOf(t))
    BY DEF DepositItems, DepositOf
  <2>3. DepositItems(Crab, t, AmountOf(t)) \subseteq I
    BY <1>4, <2>1 DEF Tranches, AmountOf
  <2>4. Await(DepositOf(t)) \in Items(s) /\ DepositOf(t) \in Adds(Await(DepositOf(t)))
    BY <1>5, <2>2, <2>3 DEF Adds, Await
  <2>5. QED
    BY <2>4 DEF Sent, SentOf
<1>10. Working'
  BY <1>4, <1>5, <1>7, <1>8, <1>9 DEF Working
<1>11. QED
  BY <1>6, <1>10

LEMMA NextSettled ==
  ASSUME NoLateDeactivation, Typed, Settled, [Next]_vars
  PROVE  Settled'
<1>0. Working /\ Quiet /\ Closed
  BY DEF Settled
<1>1. CASE UNCHANGED vars
  BY <1>0, <1>1 DEF vars, Settled, Working, Quiet, Closed, Awaits
<1>2. ASSUME Goes, run'.task = run.task, finished' = finished
      PROVE  Closed'
  BY <1>0, <1>2 DEF Goes, Closed
<1>3. ASSUME NEW k, NEW a, Emits(k, a)
      PROVE  Settled'
  <2>1. Closed'
    BY <1>2, <1>3 DEF Emits, Keeps
  <2>2. QED
    BY <1>0, <1>3, <2>1, EmitsCalm, EmitsWorking DEF Settled
<1>4. CASE Reads
  <2>1. Closed'
    BY <1>2, <1>4 DEF Reads, Keeps
  <2>2. QED
    BY <1>0, <1>4, <2>1, ReadsSettled DEF Settled
<1>5. CASE Skips
  <2>1. Closed'
    BY <1>2, <1>5 DEF Skips, Keeps
  <2>2. QED
    BY <1>0, <1>5, <2>1, SkipsSettled DEF Settled
<1>6. CASE Leaves
  <2>1. run' = NoRun /\ chain' = chain /\ pool' = pool /\ finished' = finished /\ run'.task = None
    BY <1>6 DEF Leaves, NoRun
  <2>2. Closed'
    BY <1>0, <2>1 DEF Closed
  <2>3. QED
    BY <1>0, <2>1, <2>2, NoRunSettled DEF Settled
<1>7. CASE Ends
  BY <1>0, <1>7, EndsSettled DEF Settled
<1>8. CASE Mines
  BY <1>0, <1>8, MinesSettled DEF Settled
<1>9. ASSUME NEW task \in Tasks, NEW c \in Targets \cup {Crab}, Begins(task, c, TaskSteps(task, c))
      PROVE  Settled'
  <2>1. c \in Collections /\ task \in TaskNames
    BY NamesKnown
  <2>2. QED
    BY <1>0, <1>9, <2>1, TaskBegins DEF Settled
<1>10. ASSUME NEW name \in Manual[mining], NEW c \in Targets, Begins(name, c, ManualSteps(name, c))
       PROVE  Settled'
  <2>1. name \in ManualNames /\ c \in Collections
    BY NamesKnown DEF Typed
  <2>2. Quiet' /\ Closed'
    BY <1>0, <1>10, <2>1, ManualGood, BeginsQuiet
  <2>3. run'.task = name
    BY <1>10 DEF Begins
  <2>4. Working'
    BY <2>1, <2>3, NamesKnown DEF Working
  <2>5. QED
    BY <2>2, <2>4 DEF Settled
<1>11. ASSUME NEW selection \in Selections, Begins("runner", selection, Runner(selection))
       PROVE  Settled'
  <2>1. \A x \in Items(Runner(selection)) : x.op = "send" => x.call.fn # "deactivateReserve"
    BY RunnerPlan DEF Piece, RunnerStep
  <2>2. Quiet' /\ Closed'
    BY <1>0, <1>11, <2>1, BeginsQuiet
  <2>3. run'.task = "runner" /\ "runner" \notin Complete
    BY <1>11, NamesKnown DEF Begins
  <2>4. Working'
    BY <2>3 DEF Working
  <2>5. QED
    BY <2>2, <2>4 DEF Settled
<1>12. QED
  BY <1>1, <1>3, <1>4, <1>5, <1>6, <1>7, <1>8, <1>9, <1>10, <1>11, StepForms

\* dev:initialize-reserve and dev:bootstrap, when they end, leave a reserve
\* that is set up and, the second, funded, whatever was pending when they
\* began, except a deactivation.
THEOREM EndedIsSetUp ==
  ASSUME NoLateDeactivation
  PROVE  Spec => []FinishedRunSetsUp
<1>1. Init => Typed /\ Settled
  BY InitTyped, InitSettled
<1>2. Typed /\ Settled /\ [Next]_vars => (Typed /\ Settled)'
  BY NextTyped, NextSettled
<1>3. Typed /\ Settled => FinishedRunSetsUp
  <2>1. SUFFICES ASSUME Typed, Settled, finished # None, finished.task \in Complete, finished.on = Crab
                 PROVE  LET r == chain.reserves[finished.on]
                        IN /\ r.initialized /\ r.active /\ r.set = Fields
                           /\ chain.treasury # None /\ finished.on \in chain.twap
                           /\ finished.task = "bootstrap" =>
                                /\ chain.tranches[finished.on]["junior"] >= Junior
                                /\ chain.tranches[finished.on]["senior"] >= Senior
    BY DEF FinishedRunSetsUp, Complete
  <2>2. /\ finished.on = Crab
        /\ \A g \in Goals : Done(g, chain)
        /\ finished.task = "bootstrap" => \A t \in Tranches : Funded(t, chain)
    BY <2>1 DEF Settled, Closed
  <2>3. chain.reserves[Crab].initialized
    <3>1. PICK g : g = Call("initReserve", Crab, None)
      OBVIOUS
    <3>2. g \in Goals /\ g.fn = "initReserve"
      BY <3>1, CallFields DEF Goals
    <3>3. Done(g, chain)
      BY <2>2, <3>2
    <3>4. QED
      BY <3>2, <3>3 DEF Done
  <2>4. chain.reserves[Crab].active
    <3>1. PICK g : g = Call("activateReserve", Crab, Crab)
      OBVIOUS
    <3>2. g \in Goals /\ g.fn = "activateReserve"
      BY <3>1, CallFields DEF Goals
    <3>3. Done(g, chain)
      BY <2>2, <3>2
    <3>4. QED
      BY <3>2, <3>3 DEF Done
  <2>5. chain.reserves[Crab].set = Fields
    <3>1. ASSUME NEW f \in Fields
          PROVE  f \in chain.reserves[Crab].set
      <4>1. PICK g : g = SetField(Crab, f)
        OBVIOUS
      <4>2. g \in Goals /\ g.fn = "set" /\ g.x = f
        BY <4>1, CallFields DEF Goals, SetField
      <4>3. Done(g, chain)
        BY <2>2, <4>2
      <4>4. QED
        BY <4>2, <4>3 DEF Done
    <3>2. chain.reserves[Crab].set \subseteq Fields
      BY <2>1, ChainKnown, SetupAssumption DEF Typed
    <3>3. QED
      BY <3>1, <3>2
  <2>6. chain.treasury # None
    <3>1. PICK g : g = Call("updateProtocolFee", None, "owner")
      OBVIOUS
    <3>2. g \in Goals /\ g.fn = "updateProtocolFee"
      BY <3>1, CallFields DEF Goals
    <3>3. Done(g, chain)
      BY <2>2, <3>2
    <3>4. QED
      BY <3>2, <3>3 DEF Done
  <2>7. Crab \in chain.twap
    <3>1. PICK g : g = Call("updateTwap", Crab, None)
      OBVIOUS
    <3>2. g \in Goals /\ g.fn = "updateTwap"
      BY <3>1, CallFields DEF Goals
    <3>3. Done(g, chain)
      BY <2>2, <3>2
    <3>4. QED
      BY <3>2, <3>3 DEF Done
  <2>8. finished.task = "bootstrap" => chain.tranches[Crab]["junior"] >= Junior /\ chain.tranches[Crab]["senior"] >= Senior
    <3>1. "junior" \in Tranches /\ "senior" \in Tranches /\ AmountOf("junior") = Junior /\ AmountOf("senior") = Senior
      BY DEF Tranches, AmountOf
    <3>2. QED
      BY <2>2, <3>1 DEF Funded
  <2>9. QED
    BY <2>2, <2>3, <2>4, <2>5, <2>6, <2>7, <2>8
<1>4. QED
  BY <1>1, <1>2, <1>3, PTL DEF Spec

-----------------------------------------------------------------------------
(***************************************************************************)
(* A run of all scripts finds what it builds on.                           *)
(***************************************************************************)
Whole == run.task = "runner" /\ run.on = {}
SetUp == \/ chain.reserves[Fixed].initialized \/ StatusLeft(run.todo)
         \/ FixedInit \in Sent(run.todo) \/ Awaits(FixedInit)
Approved == chain.approved \/ ApproveCall \in Sent(run.todo) \/ Awaits(ApproveCall)
Wrapped == WrapCall \in Sent(run.todo) \/ Awaits(WrapCall) \/ Enough

LEMMA SerialMeans ==
  Serial <=> (Whole => Phase(run.todo, 1, 7) /\ SetUp /\ Approved /\ Wrapped)
BY DEF Serial, Whole, SetUp, Approved, Wrapped

LEMMA SpendingKnown ==
  /\ Junior \in Nat /\ 4 * Junior \in Nat
  /\ WrapCall.fn = "wrap" /\ WrapCall.x = 4 * Junior /\ ApproveCall.fn = "approve"
  /\ FixedInit.fn = "initReserve" /\ FixedInit.c = Fixed
  /\ GoodCall(WrapCall) /\ GoodCall(ApproveCall) /\ GoodCall(FixedInit)
  /\ FixedDeposit("junior").fn = "deposit" /\ FixedDeposit("senior").fn = "deposit"
  /\ FixedDeposit("junior").x.tranche = "junior" /\ FixedDeposit("senior").x.tranche = "senior"
  /\ FixedDeposit("junior").c = Fixed /\ FixedDeposit("senior").c = Fixed
  /\ FixedDeposit("junior").x.amount = Junior /\ FixedDeposit("senior").x.amount = Junior
  /\ TransferCall.fn = "transfer" /\ TransferCall.x = Junior
<1>1. Junior \in Nat /\ 4 * Junior \in Nat /\ Fixed \in Collections
  BY AmountsAssumption, SetupAssumption
<1>2. /\ WrapCall.fn = "wrap" /\ WrapCall.x = 4 * Junior /\ ApproveCall.fn = "approve"
      /\ FixedInit.fn = "initReserve" /\ FixedInit.c = Fixed
      /\ TransferCall.fn = "transfer" /\ TransferCall.x = Junior
  BY CallFields DEF WrapCall, ApproveCall, FixedInit, TransferCall
<1>3. /\ FixedDeposit("junior").fn = "deposit" /\ FixedDeposit("junior").c = Fixed
      /\ FixedDeposit("junior").x = [tranche |-> "junior", amount |-> Junior]
  BY CallFields DEF FixedDeposit
<1>4. /\ FixedDeposit("senior").fn = "deposit" /\ FixedDeposit("senior").c = Fixed
      /\ FixedDeposit("senior").x = [tranche |-> "senior", amount |-> Junior]
  BY CallFields DEF FixedDeposit
<1>5. GoodCall(WrapCall) /\ GoodCall(ApproveCall) /\ GoodCall(FixedInit)
  BY <1>1, <1>2 DEF GoodCall, OfReserve
<1>6. QED
  BY <1>1, <1>2, <1>3, <1>4, <1>5

LEMMA LeftKnown ==
  ASSUME NEW s
  PROVE  Left(s) \in Nat /\ Left(s) <= 3 * Junior
<1>1. PICK j \in Nat : j = Junior
  BY AmountsAssumption
<1>2. PICK a \in {0, j} : a = IF FixedDeposit("junior") \in Sent(s) THEN Junior ELSE 0
  BY <1>1
<1>3. PICK b \in {0, j} : b = IF FixedDeposit("senior") \in Sent(s) THEN Junior ELSE 0
  BY <1>1
<1>4. PICK c \in {0, j} : c = IF TransferCall \in Sent(s) THEN Junior ELSE 0
  BY <1>1
<1>5. Left(s) = a + b + c
  BY <1>2, <1>3, <1>4 DEF Left
<1>6. a + b + c \in Nat /\ a + b + c <= 3 * j
  OBVIOUS
<1>7. QED
  BY <1>1, <1>5, <1>6

LEMMA LeftSame ==
  ASSUME NEW s, NEW t, \A q \in Spending : q \in Sent(s) <=> q \in Sent(t)
  PROVE  Left(s) = Left(t)
BY DEF Left, Spending

\* The call that is made is one less to pay for.
LEMMA LeftLess ==
  ASSUME NEW s, NEW t, NEW k \in Spending, k \notin Sent(t),
         \A q \in Spending : q \in Sent(s) <=> q = k \/ q \in Sent(t)
  PROVE  Left(s) = Left(t) + Junior
<1>1. PICK j \in Nat : j = Junior
  BY AmountsAssumption
<1>2. FixedDeposit("junior") # FixedDeposit("senior")
  BY SpendingKnown
<1>3. TransferCall # FixedDeposit("junior") /\ TransferCall # FixedDeposit("senior")
  BY SpendingKnown
<1>4. PICK d1 : d1 = FixedDeposit("junior")
  OBVIOUS
<1>5. PICK d2 : d2 = FixedDeposit("senior")
  OBVIOUS
<1>6. PICK d3 : d3 = TransferCall
  OBVIOUS
<1>7. Spending = {d1, d2, d3} /\ d1 # d2 /\ d1 # d3 /\ d2 # d3
  BY <1>2, <1>3, <1>4, <1>5, <1>6 DEF Spending
<1>8. Left(s) = (IF d1 \in Sent(s) THEN j ELSE 0) + (IF d2 \in Sent(s) THEN j ELSE 0) + (IF d3 \in Sent(s) THEN j ELSE 0)
  BY <1>1, <1>4, <1>5, <1>6 DEF Left
<1>9. Left(t) = (IF d1 \in Sent(t) THEN j ELSE 0) + (IF d2 \in Sent(t) THEN j ELSE 0) + (IF d3 \in Sent(t) THEN j ELSE 0)
  BY <1>1, <1>4, <1>5, <1>6 DEF Left
<1>10. /\ d1 \in Sent(s) <=> d1 = k \/ d1 \in Sent(t)
       /\ d2 \in Sent(s) <=> d2 = k \/ d2 \in Sent(t)
       /\ d3 \in Sent(s) <=> d3 = k \/ d3 \in Sent(t)
  BY <1>7
<1>11. CASE k = d1
  BY <1>1, <1>7, <1>8, <1>9, <1>10, <1>11
<1>12. CASE k = d2
  BY <1>1, <1>7, <1>8, <1>9, <1>10, <1>12
<1>13. CASE k = d3
  BY <1>1, <1>7, <1>8, <1>9, <1>10, <1>13
<1>14. QED
  BY <1>7, <1>11, <1>12, <1>13

LEMMA SpendsKnown ==
  ASSUME NEW k \in Spending
  PROVE  /\ Spends(k) /\ CallRank(k) \in {4, 5, 7} /\ k.fn \in Awaited
         /\ k.fn = "deposit" => k.x.amount = Junior /\ k.c = Fixed
         /\ k.fn = "transfer" => k.x = Junior
<1>1. CASE k = FixedDeposit("junior")
  BY <1>1, SpendingKnown DEF Spends, CallRank, Awaited
<1>2. CASE k = FixedDeposit("senior")
  BY <1>2, SpendingKnown DEF Spends, CallRank, Awaited
<1>3. CASE k = TransferCall
  BY <1>3, SpendingKnown DEF Spends, CallRank, Awaited
<1>4. QED
  BY <1>1, <1>2, <1>3 DEF Spending

\* What mining one call does to the money.
LEMMA PaidAfter ==
  ASSUME NEW k, NEW ch \in Chains, GoodCall(k)
  PROVE  /\ After(k, ch).weth \in Nat /\ ch.weth \in Nat
         /\ ~Spends(k) => After(k, ch).weth >= ch.weth
         /\ k = WrapCall => After(k, ch).weth = ch.weth + 4 * Junior
         /\ k \in Spending => After(k, ch).weth >= ch.weth - Junior
<1>1. After(k, ch).weth \in Nat /\ ch.weth \in Nat
  BY AfterTyped, ChainKnown
<1>2. ~Spends(k) => After(k, ch).weth >= ch.weth
  BY MoneyAfter
<1>3. k = WrapCall => After(k, ch).weth = ch.weth + 4 * Junior
  BY MoneyAfter, SpendingKnown
<1>4. ASSUME k \in Spending
      PROVE  After(k, ch).weth >= ch.weth - Junior
  <2>1. CASE Succeeds(k, ch)
    <3>1. After(k, ch).weth = ch.weth - Junior
      BY <2>1, <1>4, MoneyAfter, SpendsKnown DEF Spends
    <3>2. QED
      BY <1>1, <3>1, AmountsAssumption
  <2>2. CASE ~Succeeds(k, ch)
    <3>1. After(k, ch).weth = ch.weth
      BY <2>2 DEF After
    <3>2. QED
      BY <1>1, <3>1, AmountsAssumption
  <2>3. QED
    BY <2>1, <2>2
<1>5. QED
  BY <1>1, <1>2, <1>3, <1>4

LEMMA PhaseTail ==
  ASSUME NEW s, IsSeq(s), s # <<>>, Phase(s, 1, 7)
  PROVE  /\ ScriptStep(Head(s)) /\ Rank(Head(s)) \in 1..7 /\ Phase(Tail(s), 1, 7)
         /\ \A x \in Items(Tail(s)) :
              /\ ScriptStep(x) /\ Rank(x) \in 1..7 /\ Rank(Head(s)) <= Rank(x)
              /\ Rank(Head(s)) = Rank(x) => Rank(x) \in {1, 6}
<1>1. PICK t : t = Tail(s)
  OBVIOUS
<1>2. PICK n \in Nat : n = Len(s)
  BY SeqTail
<1>3. PICK m \in Nat : m = Len(t)
  BY <1>1, SeqTail
<1>4. /\ IsSeq(t) /\ n > 0 /\ m = n - 1 /\ Head(s) = s[1]
      /\ \A i \in 1..m : t[i] = s[i + 1] /\ i + 1 \in 1..n
  BY <1>1, <1>2, <1>3, SeqTail
<1>5. \A i \in 1..n : ScriptStep(s[i]) /\ 1 <= Rank(s[i]) /\ Rank(s[i]) <= 7 /\ Rank(s[i]) \in 1..7
  BY <1>2, RankKnown DEF Phase
<1>6. \A i, j \in 1..n : i < j => Rank(s[i]) <= Rank(s[j]) /\ (Rank(s[i]) = Rank(s[j]) => Rank(s[i]) \in {1, 6})
  BY <1>2 DEF Phase
<1>7. ASSUME NEW i \in 1..m, NEW j \in 1..m, i < j
      PROVE  Rank(t[i]) <= Rank(t[j]) /\ (Rank(t[i]) = Rank(t[j]) => Rank(t[i]) \in {1, 6})
  <2>1. i + 1 \in 1..n /\ j + 1 \in 1..n /\ i + 1 < j + 1 /\ t[i] = s[i + 1] /\ t[j] = s[j + 1]
    BY <1>4, <1>7
  <2>2. QED
    BY <2>1, <1>6
<1>8. Phase(t, 1, 7)
  BY <1>3, <1>4, <1>5, <1>7 DEF Phase
<1>9. ASSUME NEW x \in Items(t)
      PROVE  /\ ScriptStep(x) /\ Rank(x) \in 1..7 /\ Rank(s[1]) <= Rank(x)
             /\ Rank(s[1]) = Rank(x) => Rank(x) \in {1, 6}
  <2>1. PICK i \in 1..m : x = t[i]
    BY <1>3 DEF Items
  <2>2. i + 1 \in 1..n /\ 1 \in 1..n /\ 1 < i + 1 /\ x = s[i + 1]
    BY <1>4, <2>1
  <2>3. QED
    BY <2>2, <1>5, <1>6
<1>10. 1 \in 1..n
  BY <1>4
<1>11. QED
  BY <1>1, <1>4, <1>5, <1>8, <1>9, <1>10

LEMMA PhaseOfOnes ==
  ASSUME NEW s, IsSeq(s), \A x \in Items(s) : ScriptStep(x) /\ Rank(x) = 1
  PROVE  Phase(s, 1, 1)
<1>1. \A i \in 1..Len(s) : ScriptStep(s[i]) /\ Rank(s[i]) = 1
  BY DEF Items
<1>2. QED
  BY <1>1 DEF Phase

\* A call that spends is not made twice.
LEMMA SpentOnce ==
  ASSUME NEW s, IsSeq(s), s # <<>>, Phase(s, 1, 7), Head(s).op = "send", NEW k \in Spending, Head(s).call = k
  PROVE  k \notin Sent(Tail(s))
<1>1. Rank(Head(s)) = CallRank(k)
  BY DEF Rank
<1>2. SUFFICES ASSUME k \in Sent(Tail(s))
               PROVE  FALSE
  OBVIOUS
<1>3. PICK x \in Items(Tail(s)) : k \in Adds(x)
  BY <1>2 DEF Sent, SentOf
<1>4. x.op = "send" /\ x.call = k
  BY <1>3 DEF Adds
<1>5. Rank(x) = CallRank(k)
  BY <1>4 DEF Rank
<1>6. Rank(x) \in {1, 6}
  BY <1>1, <1>3, <1>5, PhaseTail
<1>7. QED
  BY <1>5, <1>6, SpendsKnown

LEMMA SerialNext ==
  ASSUME Whole' => Phase(run.todo, 1, 7)' /\ SetUp' /\ Approved' /\ Wrapped'
  PROVE  Serial'
BY DEF Serial, Whole, SetUp, Approved, Wrapped

LEMMA SetUpKept ==
  ASSUME NEW k, NEW ch \in Chains, GoodCall(k)
  PROVE  /\ ch.reserves[Fixed].initialized => After(k, ch).reserves[Fixed].initialized
         /\ k = FixedInit => After(k, ch).reserves[Fixed].initialized
         /\ ch.approved => After(k, ch).approved
         /\ k = ApproveCall => After(k, ch).approved
BY NamesKnown, ReservesAfter, OthersAfter, SpendingKnown

LEMMA EmitsSerial ==
  ASSUME Typed, Serial, NEW k, NEW a, Emits(k, a)
  PROVE  Serial'
<1>1. SUFFICES ASSUME Whole'
               PROVE  Phase(run.todo, 1, 7)' /\ SetUp' /\ Approved' /\ Wrapped'
  BY SerialNext
<1>2. PICK s : s = run.todo
  OBVIOUS
<1>3. PICK t : t = Tail(s)
  OBVIOUS
<1>4. PICK x : x = Head(s)
  OBVIOUS
<1>5. Goes /\ run'.task = run.task /\ run'.on = run.on /\ run'.todo = t /\ GoodCall(k) /\ chain \in Chains
  BY <1>2, <1>3 DEF Emits, Keeps, Typed
<1>6. IsSeq(s) /\ s # <<>> /\ Items(s) = {x} \cup Items(t) /\ Sent(s) = Adds(x) \cup Sent(t)
  BY <1>2, <1>3, <1>4, <1>5, HeadAndTail
<1>7. Phase(s, 1, 7) /\ SetUp /\ Approved /\ Wrapped
  BY <1>1, <1>2, <1>5 DEF Serial, Whole, SetUp, Approved, Wrapped
<1>8. ScriptStep(x) /\ Phase(t, 1, 7)
  BY <1>3, <1>4, <1>6, <1>7, PhaseTail
<1>9. x.op = "send" /\ x.call = k /\ x.await = a /\ ScriptCall(k) /\ Adds(x) = {k} /\ (k.fn \in Awaited => a)
  BY <1>2, <1>4, <1>8 DEF Emits, ScriptStep, Adds
<1>10. ~run.waiting /\ \A q : ~Awaits(q)
  BY <1>5 DEF Goes, Awaits
<1>11. StatusLeft(s) => StatusLeft(t)
  BY <1>6, <1>9 DEF StatusLeft
<1>12. ASSUME NEW q
       PROVE  q \in Sent(s) <=> q = k \/ q \in Sent(t)
  BY <1>6, <1>9
<1>13. Spends(k) => k \in Spending /\ k \notin Sent(t)
  BY <1>3, <1>4, <1>6, <1>7, <1>9, SpentOnce DEF ScriptCall
<1>14. Left(s) \in Nat /\ Left(t) \in Nat /\ Left(t) <= 3 * Junior /\ Junior \in Nat
  BY LeftKnown, AmountsAssumption
<1>15. Spends(k) => Left(s) = Left(t) + Junior
  BY <1>12, <1>13, LeftLess
<1>16. ~Spends(k) => Left(s) = Left(t)
  <2>1. ~Spends(k) => k \notin Spending
    BY SpendsKnown
  <2>2. QED
    BY <1>12, <2>1, LeftSame
<1>17. CASE mining = "auto"
  <2>1. chain' = After(k, chain) /\ pool' = pool /\ pool = <<>> /\ run'.waiting = FALSE
    BY <1>17 DEF Emits, Typed
  <2>2. SetUp'
    <3>1. \/ chain.reserves[Fixed].initialized \/ StatusLeft(t) \/ FixedInit = k \/ FixedInit \in Sent(t)
      BY <1>2, <1>7, <1>10, <1>11, <1>12 DEF SetUp
    <3>2. \/ chain'.reserves[Fixed].initialized \/ StatusLeft(run'.todo) \/ FixedInit \in Sent(run'.todo)
      BY <1>5, <2>1, <3>1, SetUpKept
    <3>3. QED
      BY <3>2 DEF SetUp
  <2>3. Approved'
    <3>1. \/ chain.approved \/ ApproveCall = k \/ ApproveCall \in Sent(t)
      BY <1>2, <1>7, <1>10, <1>12 DEF Approved
    <3>2. chain'.approved \/ ApproveCall \in Sent(run'.todo)
      BY <1>5, <2>1, <3>1, SetUpKept
    <3>3. QED
      BY <3>2 DEF Approved
  <2>4. Wrapped'
    <3>1. Len(pool') = 0
      BY <2>1, SeqNone
    <3>2. chain'.weth >= Left(t) => Enough'
      <4>1. chain'.weth \in Nat
        BY <1>5, <2>1, PaidAfter
      <4>2. QED
        BY <1>5, <1>14, <2>1, <3>1, <4>1 DEF Enough
    <3>3. CASE WrapCall \in Sent(t)
      BY <3>3, <1>5 DEF Wrapped
    <3>4. CASE WrapCall = k
      <4>1. chain'.weth = chain.weth + 4 * Junior /\ chain.weth \in Nat
        BY <3>4, <1>5, <2>1, PaidAfter
      <4>2. QED
        BY <4>1, <1>14, <3>2 DEF Wrapped
    <3>5. CASE Enough
      <4>1. chain.weth >= Left(s) /\ chain.weth \in Nat
        <5>1. chain.weth >= Left(run.todo) + 0 /\ chain.weth \in Nat
          BY <3>5, <1>5, <1>10, PaidAfter DEF Enough
        <5>2. QED
          BY <5>1, <1>2, <1>14
      <4>2. chain'.weth \in Nat /\ (Spends(k) => chain'.weth >= chain.weth - Junior) /\ (~Spends(k) => chain'.weth >= chain.weth)
        BY <1>5, <1>13, <2>1, PaidAfter
      <4>3. chain'.weth >= Left(t)
        <5>1. CASE Spends(k)
          <6>1. Left(s) = Left(t) + Junior /\ chain'.weth >= chain.weth - Junior
            BY <5>1, <1>15, <4>2
          <6>2. QED
            BY <6>1, <1>14, <4>1, <4>2
        <5>2. CASE ~Spends(k)
          BY <5>2, <1>14, <1>16, <4>1, <4>2
        <5>3. QED
          BY <5>1, <5>2
      <4>4. QED
        BY <4>3, <3>2 DEF Wrapped
    <3>6. QED
      BY <3>3, <3>4, <3>5, <1>2, <1>7, <1>10, <1>12 DEF Wrapped
  <2>5. QED
    BY <1>5, <1>8, <2>2, <2>3, <2>4
<1>18. CASE mining # "auto"
  <2>1. chain' = chain /\ pool' = Append(pool, k) /\ run'.waiting = a
    BY <1>18 DEF Emits
  <2>2. PICK n \in Nat : n = Len(pool)
    BY SeqAppend DEF Typed
  <2>3. /\ Len(pool') = n + 1 /\ pool'[n + 1] = k
        /\ \A i \in 1..n : pool'[i] = pool[i]
    BY <2>1, <2>2, SeqAppend DEF Typed
  <2>4. pool'[Len(pool')] = k
    BY <2>3
  <2>5. k.fn \in Awaited => Awaits(k)'
    BY <1>9, <2>1, <2>4 DEF Awaits
  <2>6. SetUp'
    <3>1. \/ chain.reserves[Fixed].initialized \/ StatusLeft(t) \/ FixedInit = k \/ FixedInit \in Sent(t)
      BY <1>2, <1>7, <1>10, <1>11, <1>12 DEF SetUp
    <3>2. FixedInit = k => Awaits(FixedInit)'
      <4>1. FixedInit.fn \in Awaited
        BY SpendingKnown DEF Awaited
      <4>2. FixedInit = k => run'.waiting /\ pool'[Len(pool')] = FixedInit
        BY <4>1, <1>9, <2>1, <2>4
      <4>3. QED
        BY <4>2 DEF Awaits
    <3>3. QED
      BY <1>5, <2>1, <3>1, <3>2 DEF SetUp
  <2>7. Approved'
    <3>1. \/ chain.approved \/ ApproveCall = k \/ ApproveCall \in Sent(t)
      BY <1>2, <1>7, <1>10, <1>12 DEF Approved
    <3>2. ApproveCall = k => Awaits(ApproveCall)'
      <4>1. ApproveCall.fn \in Awaited
        BY SpendingKnown DEF Awaited
      <4>2. ApproveCall = k => run'.waiting /\ pool'[Len(pool')] = ApproveCall
        BY <4>1, <1>9, <2>1, <2>4
      <4>3. QED
        BY <4>2 DEF Awaits
    <3>3. QED
      BY <1>5, <2>1, <3>1, <3>2 DEF Approved
  <2>8. Wrapped'
    <3>1. CASE WrapCall \in Sent(t)
      BY <3>1, <1>5 DEF Wrapped
    <3>2. CASE WrapCall = k
      <4>1. WrapCall.fn \in Awaited
        BY SpendingKnown DEF Awaited
      <4>2. run'.waiting /\ pool'[Len(pool')] = WrapCall
        BY <3>2, <4>1, <1>9, <2>1, <2>4
      <4>3. QED
        BY <4>2 DEF Awaits, Wrapped
    <3>3. CASE Enough
      <4>1. chain.weth >= Left(s) /\ chain.weth \in Nat
        <5>1. chain.weth >= Left(run.todo) + 0 /\ chain.weth \in Nat
          BY <3>3, <1>5, <1>10, PaidAfter DEF Enough
        <5>2. QED
          BY <5>1, <1>2, <1>14
      <4>2. \A i \in 1..n : ~Spends(pool[i])
        BY <3>3, <1>10, <2>2 DEF Enough
      <4>3. \A i \in 1..Len(pool') : Spends(pool'[i]) => i = Len(pool') /\ run'.waiting /\ pool'[i] \in Spending
        <5>1. SUFFICES ASSUME NEW i \in 1..Len(pool'), Spends(pool'[i])
                       PROVE  i = Len(pool') /\ run'.waiting /\ pool'[i] \in Spending
          OBVIOUS
        <5>2. i = n + 1
          BY <2>3, <4>2, <5>1
        <5>3. Spends(k)
          BY <5>1, <5>2, <2>3
        <5>4. k \in Spending /\ k.fn \in Awaited
          BY <5>3, <1>13, SpendsKnown
        <5>5. run'.waiting
          BY <5>4, <1>9, <2>1
        <5>6. QED
          BY <5>2, <5>4, <5>5, <2>3
      <4>4. chain'.weth >= Left(run'.todo) + (IF run'.waiting /\ Spends(pool'[Len(pool')]) THEN Junior ELSE 0)
        <5>1. CASE Spends(k)
          <6>1. Left(s) = Left(t) + Junior
            BY <5>1, <1>15
          <6>2. chain'.weth >= Left(t) + Junior /\ chain'.weth >= Left(t) + 0
            BY <6>1, <4>1, <2>1, <1>14
          <6>3. QED
            BY <6>2, <1>5
        <5>2. CASE ~Spends(k)
          <6>1. chain'.weth >= Left(t) + 0
            BY <5>2, <1>16, <4>1, <2>1, <1>14
          <6>2. QED
            BY <5>2, <6>1, <1>5, <2>4
        <5>3. QED
          BY <5>1, <5>2
      <4>5. Enough'
        BY <4>3, <4>4 DEF Enough
      <4>6. QED
        BY <4>5 DEF Wrapped
    <3>4. QED
      BY <3>1, <3>2, <3>3, <1>2, <1>7, <1>10, <1>12 DEF Wrapped
  <2>9. QED
    BY <1>5, <1>8, <2>6, <2>7, <2>8
<1>19. QED
  BY <1>17, <1>18

\* The process goes on with steps that send what it was to send, and no other
\* call that spends.
LEMMA CarriedOn ==
  ASSUME chain' = chain, pool' = pool, run.waiting = FALSE, run'.waiting = FALSE,
         Sent(run.todo) \subseteq Sent(run'.todo),
         \A q \in Spending : q \in Sent(run'.todo) => q \in Sent(run.todo)
  PROVE  (Approved => Approved') /\ (Wrapped => Wrapped')
<1>1. Left(run'.todo) = Left(run.todo)
  BY LeftSame
<1>2. Enough => Enough'
  BY <1>1 DEF Enough
<1>3. Approved => Approved'
  BY DEF Approved, Awaits
<1>4. QED
  BY <1>2, <1>3 DEF Wrapped, Awaits

LEMMA ReadsSerial ==
  ASSUME Typed, Serial, Reads
  PROVE  Serial'
<1>1. SUFFICES ASSUME Whole'
               PROVE  Phase(run.todo, 1, 7)' /\ SetUp' /\ Approved' /\ Wrapped'
  BY SerialNext
<1>2. PICK x : x = Head(run.todo)
  OBVIOUS
<1>3. PICK t : t = Tail(run.todo)
  OBVIOUS
<1>4. /\ Goes /\ x.op = "status" /\ chain' = chain /\ pool' = pool
      /\ run'.task = run.task /\ run'.on = run.on /\ run'.waiting = FALSE
  BY <1>2 DEF Reads, Keeps
<1>5. /\ IsSeq(run.todo) /\ run.todo # <<>> /\ GoodSteps(t) /\ Items(run.todo) = {x} \cup Items(t)
      /\ Sent(run.todo) = Adds(x) \cup Sent(t)
  BY <1>2, <1>3, <1>4, HeadAndTail
<1>6. Phase(run.todo, 1, 7) /\ SetUp /\ Approved /\ Wrapped
  BY <1>1, <1>4 DEF Serial, Whole, SetUp, Approved, Wrapped
<1>7. ScriptStep(x) /\ Phase(t, 1, 7)
  BY <1>2, <1>3, <1>5, <1>6, PhaseTail
<1>8. x.task = "create_reserve" /\ x.c = Fixed /\ Adds(x) = {}
  BY <1>4, <1>7 DEF ScriptStep, Adds
<1>9. PICK status : status = chain.reserves[Fixed]
  OBVIOUS
<1>10. PICK s : s = CreateReserve(Fixed, status)
  OBVIOUS
<1>11. run'.todo = Joined(s, t)
  BY <1>2, <1>3, <1>8, <1>9, <1>10 DEF Reads, AfterStatus
<1>12. Fixed \in Collections /\ chain \in Chains
  BY SetupAssumption DEF Typed
<1>13. status \in Statuses
  BY <1>9, <1>12, ChainKnown DEF Reserve, Statuses
<1>14. PICK B : B = {}
  OBVIOUS
<1>15. Plan(s, B, CreateItems(Fixed, status))
  BY <1>10, <1>12, <1>13, CreatePlan
<1>16. IsSeq(s) /\ Items(s) = CreateItems(Fixed, status) /\ IsSeq(t)
  BY <1>5, <1>15 DEF Plan, GoodSteps
<1>17. ASSUME NEW y \in Items(s)
       PROVE  ScriptStep(y) /\ Rank(y) = 1 /\ y.op = "send" /\ ~Spends(y.call)
  <2>1. PICK k : y = Await(k) /\ (k = FixedInit \/ k = Call("activateReserve", Fixed, Fixed) \/ \E f \in Terms : k = SetField(Fixed, f))
    BY <1>16 DEF CreateItems, FixedInit, Terms
  <2>2. y.op = "send" /\ y.call = k
    BY <2>1 DEF Await
  <2>3. k.fn \in {"initReserve", "set", "activateReserve"} /\ (k.fn = "initReserve" => k = FixedInit)
    <3>1. CASE k = FixedInit
      BY <3>1, SpendingKnown
    <3>2. CASE k = Call("activateReserve", Fixed, Fixed)
      BY <3>2, CallFields
    <3>3. CASE \E f \in Terms : k = SetField(Fixed, f)
      BY <3>3, CallFields DEF SetField
    <3>4. QED
      BY <2>1, <3>1, <3>2, <3>3
  <2>4. CallRank(k) = 1 /\ ScriptCall(k) /\ ~Spends(k)
    BY <2>3 DEF CallRank, ScriptCall, Spends
  <2>5. QED
    BY <2>2, <2>4 DEF ScriptStep, Rank
<1>18. Phase(s, 1, 1)
  BY <1>16, <1>17, PhaseOfOnes
<1>19. Phase(Joined(s, t), 1, 7)
  <2>1. 1 \in 1..7 /\ 7 \in 1..7 /\ 1 <= 1 /\ 1 <= 7 /\ MayPrecede(1, 1)
    BY DEF MayPrecede
  <2>2. QED
    BY <1>7, <1>18, <2>1, PhaseJoined
<1>20. Sent(Joined(s, t)) = Sent(s) \cup Sent(t)
  BY <1>16, SentJoined
<1>21. SetUp'
  <2>1. chain.reserves[Fixed].initialized \/ FixedInit \in Sent(s)
    <3>1. CASE ~status.initialized
      <4>1. Await(FixedInit) \in Items(s)
        BY <3>1, <1>16 DEF CreateItems, FixedInit
      <4>2. FixedInit \in Adds(Await(FixedInit))
        BY DEF Adds, Await
      <4>3. QED
        BY <4>1, <4>2 DEF Sent, SentOf
    <3>2. QED
      BY <3>1, <1>9
  <2>2. QED
    BY <1>4, <1>11, <1>20, <2>1 DEF SetUp
<1>22. \A q \in Sent(s) : ~Spends(q)
  BY <1>17 DEF Sent, SentOf, Adds
<1>23. \A q \in Spending : q \in Sent(run'.todo) => q \in Sent(run.todo)
  BY <1>5, <1>8, <1>11, <1>20, <1>22, SpendsKnown
<1>24. Sent(run.todo) \subseteq Sent(run'.todo)
  BY <1>5, <1>8, <1>11, <1>20
<1>25. run.waiting = FALSE
  BY <1>4 DEF Goes, Typed
<1>26. Approved' /\ Wrapped'
  BY <1>4, <1>6, <1>23, <1>24, <1>25, CarriedOn
<1>27. QED
  BY <1>11, <1>19, <1>21, <1>26

LEMMA SkipsSerial ==
  ASSUME Typed, Serial, Skips
  PROVE  Serial'
<1>1. SUFFICES ASSUME Whole'
               PROVE  Phase(run.todo, 1, 7)' /\ SetUp' /\ Approved' /\ Wrapped'
  BY SerialNext
<1>2. PICK x : x = Head(run.todo)
  OBVIOUS
<1>3. PICK t : t = Tail(run.todo)
  OBVIOUS
<1>4. /\ Goes /\ x.op # "send" /\ x.op # "status" /\ chain' = chain /\ pool' = pool
      /\ run'.task = run.task /\ run'.on = run.on /\ run'.waiting = FALSE /\ run'.todo = t
  BY <1>2, <1>3 DEF Skips, Keeps
<1>5. /\ IsSeq(run.todo) /\ run.todo # <<>> /\ Items(run.todo) = {x} \cup Items(t)
      /\ Sent(run.todo) = Adds(x) \cup Sent(t)
  BY <1>2, <1>3, <1>4, HeadAndTail
<1>6. Phase(run.todo, 1, 7) /\ SetUp /\ Approved /\ Wrapped
  BY <1>1, <1>4 DEF Serial, Whole, SetUp, Approved, Wrapped
<1>7. Phase(t, 1, 7)
  BY <1>3, <1>5, <1>6, PhaseTail
<1>8. Sent(run'.todo) = Sent(run.todo)
  BY <1>4, <1>5 DEF Adds
<1>9. StatusLeft(run.todo) => StatusLeft(run'.todo)
  BY <1>4, <1>5 DEF StatusLeft
<1>10. run.waiting = FALSE
  BY <1>4 DEF Goes, Typed
<1>11. Approved' /\ Wrapped'
  BY <1>4, <1>6, <1>8, <1>10, CarriedOn
<1>12. SetUp'
  BY <1>4, <1>6, <1>8, <1>9, <1>10 DEF SetUp, Awaits
<1>13. QED
  BY <1>4, <1>7, <1>11, <1>12

LEMMA MinesSerial ==
  ASSUME Typed, Serial, Mines
  PROVE  Serial'
<1>1. SUFFICES ASSUME Whole'
               PROVE  Phase(run.todo, 1, 7)' /\ SetUp' /\ Approved' /\ Wrapped'
  BY SerialNext
<1>2. PICK k : k = Head(pool)
  OBVIOUS
<1>3. IsSeq(pool) /\ pool # <<>> /\ pool' = Tail(pool) /\ chain' = After(k, chain) /\ chain \in Chains
  BY <1>2 DEF Mines, Typed
<1>4. PICK n \in Nat : n = Len(pool)
  BY <1>3, SeqTail
<1>5. /\ n > 0 /\ k = pool[1] /\ Items(pool) = {k} \cup Items(pool') /\ Len(pool') = n - 1
      /\ \A i \in 1..n - 1 : pool'[i] = pool[i + 1] /\ i + 1 \in 1..n
  BY <1>2, <1>3, <1>4, SeqTail
<1>6. GoodCall(k)
  BY <1>5 DEF Typed
<1>7. run' # NoRun
  BY <1>1, NamesKnown DEF Whole, NoRun
<1>8. run'.task = run.task /\ run'.on = run.on /\ run'.todo = run.todo
  BY <1>7 DEF Mines, Keeps
<1>9. \/ run' = run /\ ~(n = 1 /\ run.waiting)
      \/ n = 1 /\ run.waiting /\ run'.waiting = FALSE
  BY <1>4, <1>7 DEF Mines
<1>10. Phase(run.todo, 1, 7) /\ SetUp /\ Approved /\ Wrapped
  BY <1>1, <1>8 DEF Serial, Whole, SetUp, Approved, Wrapped
\* What the process waits for is mined now, or waits on.
<1>11. ASSUME NEW q, Awaits(q)
       PROVE  q = k \/ Awaits(q)'
  <2>1. run.waiting /\ pool[n] = q
    BY <1>4, <1>11 DEF Awaits
  <2>2. CASE n = 1
    BY <2>1, <2>2, <1>5
  <2>3. CASE n # 1
    <3>1. n - 1 \in 1..n - 1 /\ (n - 1) + 1 = n
      BY <2>3, <1>5
    <3>2. pool'[Len(pool')] = pool[n]
      BY <1>5, <3>1
    <3>3. run'.waiting
      BY <2>1, <2>3, <1>9
    <3>4. QED
      BY <2>1, <3>2, <3>3 DEF Awaits
  <2>4. QED
    BY <2>2, <2>3
<1>12. SetUp'
  <2>1. CASE chain.reserves[Fixed].initialized
    BY <2>1, <1>3, <1>6, SetUpKept DEF SetUp
  <2>2. CASE StatusLeft(run.todo) \/ FixedInit \in Sent(run.todo)
    BY <2>2, <1>8 DEF SetUp
  <2>3. CASE Awaits(FixedInit)
    <3>1. CASE FixedInit = k
      BY <3>1, <1>3, <1>6, SetUpKept DEF SetUp
    <3>2. CASE Awaits(FixedInit)'
      BY <3>2 DEF SetUp
    <3>3. QED
      BY <2>3, <3>1, <3>2, <1>11
  <2>4. QED
    BY <2>1, <2>2, <2>3, <1>10 DEF SetUp
<1>13. Approved'
  <2>1. CASE chain.approved
    BY <2>1, <1>3, <1>6, SetUpKept DEF Approved
  <2>2. CASE ApproveCall \in Sent(run.todo)
    BY <2>2, <1>8 DEF Approved
  <2>3. CASE Awaits(ApproveCall)
    <3>1. CASE ApproveCall = k
      BY <3>1, <1>3, <1>6, SetUpKept DEF Approved
    <3>2. CASE Awaits(ApproveCall)'
      BY <3>2 DEF Approved
    <3>3. QED
      BY <2>3, <3>1, <3>2, <1>11
  <2>4. QED
    BY <2>1, <2>2, <2>3, <1>10 DEF Approved
<1>14. PICK l \in Nat : l = Left(run.todo)
  BY LeftKnown
<1>15. PICK j \in Nat : j = Junior
  BY AmountsAssumption
<1>16. PICK w \in Nat : w = chain.weth
  BY <1>3, <1>6, PaidAfter
<1>17. PICK v \in Nat : v = chain'.weth
  BY <1>3, <1>6, PaidAfter
<1>18. CASE WrapCall \in Sent(run.todo)
  <2>1. Wrapped'
    BY <1>8, <1>18 DEF Wrapped
  <2>2. QED
    BY <1>8, <1>10, <1>12, <1>13, <2>1
<1>19. CASE Awaits(WrapCall)
  <2>1. CASE Awaits(WrapCall)'
    BY <2>1, <1>8, <1>10, <1>12, <1>13 DEF Wrapped
  <2>2. CASE WrapCall = k /\ ~Awaits(WrapCall)'
    <3>1. n = 1
      <4>1. SUFFICES ASSUME n # 1
                     PROVE  FALSE
        OBVIOUS
      <4>2. run'.waiting /\ n - 1 \in 1..n - 1 /\ (n - 1) + 1 = n
        BY <4>1, <1>5, <1>9, <1>19 DEF Awaits
      <4>3. pool'[Len(pool')] = pool[n]
        BY <1>5, <4>2
      <4>4. pool'[Len(pool')] = WrapCall
        BY <4>3, <1>4, <1>19 DEF Awaits
      <4>5. QED
        BY <2>2, <4>2, <4>4 DEF Awaits
    <3>2. run'.waiting = FALSE
      BY <3>1, <1>9, <1>19 DEF Awaits
    <3>3. v = w + 4 * j /\ l <= 3 * j
      BY <2>2, <1>3, <1>6, <1>14, <1>15, <1>16, <1>17, PaidAfter, LeftKnown
    <3>4. v >= l + 0
      BY <3>3
    <3>5. Len(pool') = 0
      BY <1>5, <3>1
    <3>6. Enough'
      BY <1>8, <1>14, <1>17, <3>2, <3>4, <3>5 DEF Enough
    <3>7. QED
      BY <3>6, <1>8, <1>10, <1>12, <1>13 DEF Wrapped
  <2>3. QED
    BY <2>1, <2>2, <1>11, <1>19
<1>20. CASE Enough
  <2>1. \A i \in 1..n : Spends(pool[i]) => i = n /\ run.waiting /\ pool[i] \in Spending
    BY <1>4, <1>20 DEF Enough
  <2>2. w >= l + (IF run.waiting /\ Spends(pool[n]) THEN j ELSE 0)
    BY <1>4, <1>14, <1>15, <1>16, <1>20 DEF Enough
  <2>3. w >= l
    BY <2>2
  <2>4. ~Spends(k) => v >= w
    BY <1>3, <1>6, <1>16, <1>17, PaidAfter
  <2>5. k \in Spending => v >= w - j
    BY <1>3, <1>6, <1>15, <1>16, <1>17, PaidAfter
  <2>6. CASE n = 1 /\ run.waiting
    <3>1. run'.waiting = FALSE
      BY <1>9, <2>6
    <3>2. v >= l
      <4>1. CASE Spends(k)
        <5>1. k \in Spending /\ w >= l + j
          BY <4>1, <1>5, <2>1, <2>2, <2>6
        <5>2. v >= w - j
          BY <5>1, <2>5
        <5>3. QED
          BY <5>1, <5>2
      <4>2. CASE ~Spends(k)
        BY <4>2, <2>3, <2>4
      <4>3. QED
        BY <4>1, <4>2
    <3>3. Len(pool') = 0
      BY <1>5, <2>6
    <3>4. v >= l + 0
      BY <3>2
    <3>5. Enough'
      BY <1>8, <1>14, <1>17, <3>1, <3>3, <3>4 DEF Enough
    <3>6. QED
      BY <3>5, <1>8, <1>10, <1>12, <1>13 DEF Wrapped
  <2>7. CASE ~(n = 1 /\ run.waiting)
    <3>1. run' = run
      BY <1>9, <2>7
    <3>2. ~Spends(k)
      <4>1. 1 \in 1..n
        BY <1>5
      <4>2. QED
        BY <1>5, <2>1, <2>7, <4>1
    <3>3. v >= w
      BY <2>4, <3>2
    <3>4. \A i \in 1..Len(pool') : Spends(pool'[i]) => i = Len(pool') /\ run'.waiting /\ pool'[i] \in Spending
      <4>1. ASSUME NEW i \in 1..n - 1, Spends(pool[i + 1])
            PROVE  i = n - 1 /\ run.waiting /\ pool[i + 1] \in Spending
        <5>1. i + 1 \in 1..n
          BY <1>5
        <5>2. i + 1 = n
          BY <2>1, <4>1, <5>1
        <5>3. QED
          BY <2>1, <4>1, <5>1, <5>2
      <4>2. QED
        BY <1>5, <3>1, <4>1
    <3>5. run'.waiting => Spends(pool'[Len(pool')]) = Spends(pool[n])
      <4>1. SUFFICES ASSUME run.waiting
                     PROVE  pool'[Len(pool')] = pool[n]
        BY <3>1
      <4>2. n - 1 \in 1..n - 1 /\ (n - 1) + 1 = n
        BY <1>5, <2>7, <4>1
      <4>3. QED
        BY <1>5, <4>2
    <3>6. v >= l + (IF run'.waiting /\ Spends(pool'[Len(pool')]) THEN j ELSE 0)
      <4>1. PICK e \in {0, j} : e = IF run.waiting /\ Spends(pool[n]) THEN j ELSE 0
        OBVIOUS
      <4>2. e = IF run'.waiting /\ Spends(pool'[Len(pool')]) THEN j ELSE 0
        BY <3>1, <3>5, <4>1
      <4>3. w >= l + e
        BY <2>2, <4>1
      <4>4. v >= l + e
        BY <3>3, <4>3
      <4>5. QED
        BY <4>2, <4>4
    <3>7. Enough'
      BY <1>8, <1>14, <1>15, <1>17, <3>4, <3>6 DEF Enough
    <3>8. QED
      BY <3>7, <1>8, <1>10, <1>12, <1>13 DEF Wrapped
  <2>8. QED
    BY <2>6, <2>7
<1>21. QED
  BY <1>10, <1>18, <1>19, <1>20 DEF Wrapped

LEMMA NextSerial ==
  ASSUME Typed, Serial, [Next]_vars
  PROVE  Serial'
<1>1. CASE UNCHANGED vars
  BY <1>1 DEF vars, Serial, Enough, Awaits
<1>2. ASSUME run'.task # "runner"
      PROVE  Serial'
  BY <1>2 DEF Serial
<1>3. CASE Leaves \/ Ends
  <2>1. run'.task = None
    BY <1>3 DEF Leaves, Ends, NoRun
  <2>2. QED
    BY <1>2, <2>1, NamesKnown
<1>4. ASSUME NEW k, NEW a, Emits(k, a)
      PROVE  Serial'
  BY <1>4, EmitsSerial
<1>5. ASSUME NEW task \in Tasks, NEW c \in Targets \cup {Crab}, Begins(task, c, TaskSteps(task, c))
      PROVE  Serial'
  <2>1. run'.task = task /\ task \in TaskNames
    BY <1>5, NamesKnown DEF Begins
  <2>2. QED
    BY <1>2, <2>1, NamesKnown
<1>6. ASSUME NEW name \in Manual[mining], NEW c \in Targets, Begins(name, c, ManualSteps(name, c))
      PROVE  Serial'
  <2>1. run'.task = name /\ name \in ManualNames
    BY <1>6, NamesKnown DEF Begins, Typed
  <2>2. QED
    BY <1>2, <2>1, NamesKnown
<1>7. ASSUME NEW selection \in Selections, Begins("runner", selection, Runner(selection))
      PROVE  Serial'
  <2>1. run'.on = selection /\ run'.todo = Runner(selection)
    BY <1>7 DEF Begins
  <2>2. SUFFICES ASSUME selection = {}
                 PROVE  Phase(run.todo, 1, 7)' /\ SetUp' /\ Approved' /\ Wrapped'
    BY <2>1, SerialNext DEF Whole
  <2>3. /\ Phase(run'.todo, 1, 7)
        /\ StatusStep("create_reserve", Fixed) \in Items(run'.todo)
        /\ {WrapCall, ApproveCall} \subseteq Sent(run'.todo)
    BY <2>1, <2>2, RunnerPlan DEF Piece
  <2>4. StatusLeft(run'.todo)
    BY <2>3 DEF StatusLeft, StatusStep
  <2>5. QED
    BY <2>3, <2>4 DEF SetUp, Approved, Wrapped
<1>8. QED
  BY <1>1, <1>3, <1>4, <1>5, <1>6, <1>7, StepForms, ReadsSerial, SkipsSerial, MinesSerial

LEMMA InitSerial ==
  ASSUME Init
  PROVE  Serial
<1>1. run.task = None
  BY DEF Init, NoRun
<1>2. QED
  BY <1>1, NamesKnown DEF Serial

\* In a run of all scripts no deposit meets a reserve that is missing or an
\* allowance that is not there, and neither they nor the last transfer want
\* for WETH.
LEMMA SpendingSucceeds ==
  ASSUME Typed, Serial, Whole, Ready, Next1.op = "send", Spends(Next1.call)
  PROVE  Succeeds(Next1.call, chain)
<1>1. PICK s : s = run.todo
  OBVIOUS
<1>2. PICK k : k = Next1.call
  OBVIOUS
<1>3. Goes /\ Head(s) = Next1 /\ chain \in Chains
  BY <1>1 DEF Ready, Goes, Typed, Next1
<1>4. /\ IsSeq(s) /\ s # <<>> /\ Items(s) = {Next1} \cup Items(Tail(s))
      /\ Sent(s) = Adds(Next1) \cup Sent(Tail(s))
  BY <1>1, <1>3, HeadAndTail
<1>5. Phase(s, 1, 7) /\ SetUp /\ Approved /\ Wrapped
  BY <1>1 DEF Serial, Whole, SetUp, Approved, Wrapped
<1>6. ScriptStep(Next1)
  BY <1>3, <1>4, <1>5, PhaseTail
<1>7. k \in Spending /\ Adds(Next1) = {k}
  BY <1>2, <1>6 DEF ScriptStep, ScriptCall, Adds
<1>8. Rank(Next1) = CallRank(k) /\ CallRank(k) \in {4, 5, 7}
  BY <1>2, <1>7, SpendsKnown DEF Rank
<1>9. \A x \in Items(s) : Rank(x) >= 4
  BY <1>3, <1>4, <1>5, <1>8, PhaseTail
<1>10. ~StatusLeft(s)
  <2>1. \A x \in Items(s) : x.op = "status" => Rank(x) = 1
    BY DEF Rank
  <2>2. QED
    BY <1>9, <2>1 DEF StatusLeft
<1>11. ASSUME NEW q \in Sent(s)
       PROVE  CallRank(q) >= 4
  <2>1. PICK x \in Items(s) : q \in Adds(x)
    BY <1>11 DEF Sent, SentOf
  <2>2. x.op = "send" /\ x.call = q
    BY <2>1 DEF Adds
  <2>3. Rank(x) = CallRank(q)
    BY <2>2 DEF Rank
  <2>4. QED
    BY <2>1, <2>3, <1>9
<1>12. CallRank(FixedInit) = 1 /\ CallRank(ApproveCall) = 3 /\ CallRank(WrapCall) = 2
  BY SpendingKnown DEF CallRank
<1>13. FixedInit \notin Sent(s) /\ ApproveCall \notin Sent(s) /\ WrapCall \notin Sent(s)
  BY <1>11, <1>12
<1>14. \A q : ~Awaits(q)
  BY <1>3 DEF Goes, Awaits
<1>15. chain.reserves[Fixed].initialized /\ chain.approved /\ Enough
  BY <1>1, <1>5, <1>10, <1>13, <1>14 DEF SetUp, Approved, Wrapped
<1>16. chain.weth >= Junior
  <2>1. PICK j \in Nat : j = Junior
    BY AmountsAssumption
  <2>2. PICK w \in Nat : w = chain.weth
    BY <1>3, ChainKnown
  <2>3. PICK l \in Nat : l = Left(s)
    BY LeftKnown
  <2>4. w >= l
    <3>1. w >= l + 0
      BY <1>1, <1>3, <1>15, <2>2, <2>3 DEF Enough, Goes
    <3>2. QED
      BY <3>1
  <2>5. k \in Sent(s)
    BY <1>4, <1>7
  <2>6. l >= j
    <3>1. PICK a \in {0, j} : a = IF FixedDeposit("junior") \in Sent(s) THEN Junior ELSE 0
      BY <2>1
    <3>2. PICK b \in {0, j} : b = IF FixedDeposit("senior") \in Sent(s) THEN Junior ELSE 0
      BY <2>1
    <3>3. PICK c \in {0, j} : c = IF TransferCall \in Sent(s) THEN Junior ELSE 0
      BY <2>1
    <3>4. l = a + b + c
      BY <2>3, <3>1, <3>2, <3>3 DEF Left
    <3>5. a = j \/ b = j \/ c = j
      BY <1>7, <2>1, <2>5, <3>1, <3>2, <3>3 DEF Spending
    <3>6. QED
      BY <3>4, <3>5
  <2>7. QED
    BY <2>1, <2>2, <2>4, <2>6
<1>17. k.fn = "deposit" => k.x.amount = Junior /\ k.c = Fixed
  BY <1>7, SpendsKnown
<1>18. k.fn = "transfer" => k.x = Junior
  BY <1>7, SpendsKnown
<1>19. CASE k.fn = "deposit"
  BY <1>2, <1>15, <1>16, <1>17, <1>19 DEF Succeeds
<1>20. CASE k.fn = "transfer"
  BY <1>2, <1>16, <1>18, <1>20 DEF Succeeds
<1>21. QED
  BY <1>2, <1>19, <1>20 DEF Spends

\* The scripts in their order never fail for what an earlier one was to
\* provide, whatever was broken off before and however late it is mined.
THEOREM WholeRunFinds ==
  Spec => []ScriptsInOrder
<1>1. Init => Typed /\ Serial
  BY InitTyped, InitSerial
<1>2. Typed /\ Serial /\ [Next]_vars => (Typed /\ Serial)'
  BY NextTyped, NextSerial
<1>3. Typed /\ Serial => ScriptsInOrder
  <2>1. SUFFICES ASSUME Typed, Serial, Whole, Fails, Next1.op = "send", Spends(Next1.call)
                 PROVE  FALSE
    BY DEF ScriptsInOrder, Whole, Spends
  <2>2. Ready /\ ~Succeeds(Next1.call, chain)
    BY <2>1 DEF Fails
  <2>3. QED
    BY <2>1, <2>2, SpendingSucceeds
<1>4. QED
  BY <1>1, <1>2, <1>3, PTL DEF Spec
=============================================================================
