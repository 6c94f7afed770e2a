--------------------- MODULE ReserveAdministrationProofs ---------------------
(***************************************************************************)
(* For every set of collections, currencies, strategies and oracles, and   *)
(* every set of values administrators pass: the list of reserves is exact, *)
(* and the ten fields of the configuration word are independent.           *)
(***************************************************************************)
EXTENDS ReserveAdministration, NumberLemmas

\* What the proof needs of the types: ReservesListedOnce speaks of the reserve
\* of every collection and of a list of collections.
RegistryTyped ==
  /\ reserveList \in Seq(Collections)
  /\ reserve \in [Collections -> [initialized : BOOLEAN, currency : {"none"} \cup Currencies,
                                  strategy : {"none"} \cup Strategies,
                                  oracle : {"none"} \cup Oracles]]
  /\ weth \in Currencies

Registry == RegistryTyped /\ ReservesListedOnce

-----------------------------------------------------------------------------
(***************************************************************************)
(* Lists without repetition.                                               *)
(***************************************************************************)
\* Two lists without repetition and without a common member, one after the
\* other, are such a list.
LEMMA ConcatDistinct ==
  ASSUME NEW S, NEW s \in Seq(S), NEW t \in Seq(S),
         IsInjective(s), IsInjective(t), ToSet(s) \cap ToSet(t) = {}
  PROVE  /\ s \o t \in Seq(S)
         /\ IsInjective(s \o t)
         /\ ToSet(s \o t) = ToSet(s) \cup ToSet(t)
<1> DEFINE u == s \o t
<1>1. u \in Seq(S) /\ Len(u) = Len(s) + Len(t)
  OBVIOUS
<1>2. DOMAIN s = 1 .. Len(s) /\ DOMAIN t = 1 .. Len(t) /\ DOMAIN u = 1 .. Len(u)
  BY <1>1
<1>3. Len(s) \in Nat /\ Len(t) \in Nat
  OBVIOUS
<1>4. \A i \in DOMAIN u : u[i] = IF i <= Len(s) THEN s[i] ELSE t[i - Len(s)]
  OBVIOUS
<1>5. \A i \in DOMAIN u : IF i <= Len(s) THEN i \in DOMAIN s ELSE i - Len(s) \in DOMAIN t
  BY <1>1, <1>2, <1>3
<1>6. \A i \in DOMAIN s, j \in DOMAIN t : s[i] # t[j]
  BY DEF ToSet
<1>7. IsInjective(u)
  <2> SUFFICES ASSUME NEW i \in DOMAIN u, NEW j \in DOMAIN u, u[i] = u[j]
               PROVE  i = j
    BY DEF IsInjective
  <2>1. CASE i <= Len(s) /\ j <= Len(s)
    BY <2>1, <1>4, <1>5 DEF IsInjective
  <2>2. CASE i > Len(s) /\ j > Len(s)
    <3>1. i - Len(s) = j - Len(s)
      BY <2>2, <1>2, <1>3, <1>4, <1>5 DEF IsInjective
    <3> QED
      BY <3>1, <1>2, <1>3
  <2>3. CASE i <= Len(s) /\ j > Len(s)
    BY <2>3, <1>2, <1>3, <1>4, <1>5, <1>6
  <2>4. CASE i > Len(s) /\ j <= Len(s)
    BY <2>4, <1>2, <1>3, <1>4, <1>5, <1>6
  <2> QED
    BY <2>1, <2>2, <2>3, <2>4, <1>2, <1>3
<1>8. ToSet(u) \subseteq ToSet(s) \cup ToSet(t)
  BY <1>4, <1>5 DEF ToSet
<1>9. \A i \in DOMAIN s : i \in DOMAIN u /\ u[i] = s[i]
  BY <1>1, <1>2, <1>3, <1>4
<1>10. \A j \in DOMAIN t : j + Len(s) \in DOMAIN u /\ u[j + Len(s)] = t[j]
  BY <1>1, <1>2, <1>3, <1>4
<1>11. ToSet(s) \cup ToSet(t) \subseteq ToSet(u)
  BY <1>9, <1>10 DEF ToSet
<1> QED
  BY <1>1, <1>7, <1>8, <1>11

\* The same for a list with one more member.
LEMMA AppendDistinct ==
  ASSUME NEW S, NEW s \in Seq(S), NEW c \in S, IsInjective(s), c \notin ToSet(s)
  PROVE  /\ Append(s, c) \in Seq(S)
         /\ IsInjective(Append(s, c))
         /\ ToSet(Append(s, c)) = ToSet(s) \cup {c}
<1> DEFINE one == <<c>>
<1>1. one \in Seq(S) /\ Len(one) = 1 /\ one[1] = c
  OBVIOUS
<1>2. DOMAIN one = {1}
  BY <1>1
<1>3. IsInjective(one) /\ ToSet(one) = {c}
  BY <1>1, <1>2 DEF IsInjective, ToSet
<1>4. ToSet(s) \cap ToSet(one) = {}
  BY <1>3
<1>5. Append(s, c) = s \o one
  OBVIOUS
<1> HIDE DEF one
<1>6. QED
  BY <1>1, <1>3, <1>4, <1>5, ConcatDistinct

-----------------------------------------------------------------------------
(***************************************************************************)
(* The list of reserves.                                                   *)
(***************************************************************************)
\* A batch of the configurator is a list of collections.
LEMMA BatchIsList == ASSUME NEW batch \in Batches PROVE batch \in Seq(Collections)
<1>1. Cardinality(Collections) \in Nat
  BY CollectionsFinite, FS_CardinalityType
<1>2. PICK n \in 1 .. Cardinality(Collections) : batch \in [1 .. n -> Collections]
  BY DEF Batches
<1>3. n \in Nat
  BY <1>1, <1>2
<1> QED
  BY <1>2, <1>3

\* Listing an uninitialized collection and initializing it, alone.
LEMMA InitReserveKeeps ==
  ASSUME Registry, NEW c \in Collections, NEW currency \in Currencies,
         NEW strategy \in Strategies, NEW oracle \in Oracles,
         InitReserve(c, currency, strategy, oracle)
  PROVE  Registry'
<1> USE DEF Registry, RegistryTyped, ReservesListedOnce, InitReserve
<1>1. c \notin ToSet(reserveList)
  OBVIOUS
<1>2. /\ reserveList' \in Seq(Collections)
      /\ IsInjective(reserveList')
      /\ ToSet(reserveList') = ToSet(reserveList) \cup {c}
  BY <1>1, AppendDistinct
<1>3. \A d \in Collections : reserve'[d].initialized <=> (d = c \/ reserve[d].initialized)
  BY DEF ReserveFor
<1>4. RegistryTyped'
  BY <1>2 DEF ReserveFor
<1> QED
  BY <1>2, <1>3, <1>4

\* The same for a batch, whose collections are distinct and all uninitialized.
LEMMA InitReservesKeeps ==
  ASSUME Registry, NEW batch \in Batches,
         NEW inputs \in [ToSet(batch) -> ConfiguratorInputs],
         NEW strategy \in Strategies, NEW oracle \in Oracles,
         InitReserves(batch, inputs, strategy, oracle)
  PROVE  Registry'
<1> USE DEF Registry, RegistryTyped, ReservesListedOnce
<1>1. /\ IsInjective(batch)
      /\ \A c \in ToSet(batch) : ~reserve[c].initialized
      /\ reserve' = [c \in Collections |->
           IF c \in ToSet(batch) THEN ReserveFor(weth, strategy, oracle) ELSE reserve[c]]
      /\ reserveList' = reserveList \o batch
      /\ weth' = weth
  BY DEF InitReserves
<1>2. ToSet(reserveList) \cap ToSet(batch) = {}
  BY <1>1
<1>3. /\ reserveList' \in Seq(Collections)
      /\ IsInjective(reserveList')
      /\ ToSet(reserveList') = ToSet(reserveList) \cup ToSet(batch)
  BY <1>1, <1>2, BatchIsList, ConcatDistinct
<1>4. ToSet(batch) \subseteq Collections
  BY BatchIsList DEF ToSet
<1>5. \A d \in Collections :
        reserve'[d].initialized <=> (d \in ToSet(batch) \/ reserve[d].initialized)
  BY <1>1 DEF ReserveFor
<1>6. RegistryTyped'
  BY <1>1, <1>3 DEF ReserveFor
<1> QED
  BY <1>3, <1>4, <1>5, <1>6

\* No administrative transaction breaks the list.
LEMMA RegistryInductive == Registry /\ [Next]_vars => Registry'
<1> SUFFICES ASSUME Registry, [Next]_vars PROVE Registry'
  OBVIOUS
<1> USE DEF Registry, RegistryTyped, ReservesListedOnce
<1>1. CASE UNCHANGED <<reserve, reserveList, weth>>
  BY <1>1
<1>2. ASSUME NEW c \in Collections, NEW f \in Fields, NEW v \in FieldValues[c][f],
             SetParameter(c, f, v)
      PROVE  Registry'
  BY <1>1, <1>2 DEF SetParameter
<1>3. ASSUME NEW c \in Collections, NEW epoch \in FieldValues[c].loanInterval,
             NEW term \in FieldValues[c].loanTerm, NEW gracePeriod \in FieldValues[c].gracePeriod,
             SetLoanParams(c, epoch, term, gracePeriod)
      PROVE  Registry'
  BY <1>1, <1>3 DEF SetLoanParams
<1>4. ASSUME NEW c \in Collections, NEW active \in BOOLEAN, ModifyReserveStatus(c, active)
      PROVE  Registry'
  BY <1>1, <1>4 DEF ModifyReserveStatus
<1>5. ASSUME NEW c \in Collections, NEW strategy \in Strategies,
             SetInterestRateStrategyAddress(c, strategy)
      PROVE  Registry'
  BY <1>5 DEF SetInterestRateStrategyAddress
<1>6. ASSUME NEW c \in Collections, NEW oracle \in Oracles, UpgradePriceOracleImpl(c, oracle)
      PROVE  Registry'
  BY <1>6 DEF UpgradePriceOracleImpl
<1>7. ASSUME NEW currency \in Currencies, UpdateWETH9(currency)
      PROVE  Registry'
  BY <1>7 DEF UpdateWETH9
<1>8. CASE UNCHANGED vars
  BY <1>1, <1>8 DEF vars
<1> QED
  BY <1>2, <1>3, <1>4, <1>5, <1>6, <1>7, <1>8, InitReserveKeeps, InitReservesKeeps DEF Next

\* The list of reserves has each initialized reserve once and nothing else,
\* for every set of collections and every sequence of administrators' calls.
THEOREM ReservesStayListed == Spec => []ReservesListedOnce
<1>1. Init => Registry
  BY DEF Init, Registry, RegistryTyped, ReservesListedOnce, NoReserve, IsInjective, ToSet
<1>2. Registry => ReservesListedOnce
  BY DEF Registry
<1> QED
  BY <1>1, <1>2, RegistryInductive, PTL DEF Spec

-----------------------------------------------------------------------------
(***************************************************************************)
(* The fields of a configuration word.                                     *)
(***************************************************************************)
\* FieldsIndependent, of one word and the values its setters accepted.
Independent(d, g) ==
  /\ \A f \in Fields \ {"optimalLiquidityRatio", "maxTwapStaleness"} : GetField(d, f) = g[f]
  /\ GetField(d, "optimalLiquidityRatio") = g.optimalLiquidityRatio \cap 0 .. 15
  /\ g.maxTwapStaleness \subseteq GetField(d, "maxTwapStaleness")
  /\ GetField(d, "maxTwapStaleness") \ g.maxTwapStaleness \subseteq 0 .. 15

Words == (SUBSET Bits) \X [Fields -> SUBSET Bits]
Good == {p \in Words : Independent(p[1], p[2])}

\* How many bits a setter accepts.
Accepts(f) == IF f = "optimalLiquidityRatio" THEN 32 ELSE Width[f]

\* The masks are in the word, and apart; what a setter accepts is in its mask,
\* but for the optimal liquidity ratio, which reaches into one other field.
LEMMA Layout ==
  /\ \A f \in Fields : Low[f] \in Nat /\ Width[f] \in Nat /\ Accepts(f) \in Nat
                      /\ Width[f] <= Accepts(f) /\ Low[f] + Accepts(f) <= 256
  /\ \A f \in Fields, h \in Fields :
       f # h /\ ~(f = "optimalLiquidityRatio" /\ h = "maxTwapStaleness")
         => Low[f] + Accepts(f) <= Low[h] \/ Low[h] + Width[h] <= Low[f]
BY DEF Fields, Low, Width, Accepts

\* A field reads back what is set, and setting another field leaves it.
LEMMA GetOwn ==
  ASSUME NEW d, NEW f \in Fields, NEW v \in SUBSET (0 .. Width[f] - 1)
  PROVE  GetField(SetField(d, f, v), f) = v
<1>1. PICK l \in Nat, w \in Nat : l = Low[f] /\ w = Width[f]
  BY Layout
<1>2. SetField(d, f, v) \cap Mask(f) = {b + l : b \in v}
  <2>1. Mask(f) = l .. l + w - 1
    BY <1>1 DEF Mask
  <2>2. \A b \in v : b + l \in l .. l + w - 1
    BY <1>1
  <2>3. QED
    BY <1>1, <2>1, <2>2 DEF SetField
<1>3. GetField(SetField(d, f, v), f) = {c - l : c \in {b + l : b \in v}}
  BY <1>1, <1>2 DEF GetField
<1>4. {c - l : c \in {b + l : b \in v}} = v
  <2>1. \A b \in v : b \in Int /\ (b + l) - l = b
    BY <1>1
  <2>2. QED
    BY <2>1
<1>5. QED
  BY <1>3, <1>4

LEMMA GetOther ==
  ASSUME NEW d, NEW f \in Fields, NEW v \in SUBSET (0 .. Accepts(f) - 1), NEW h \in Fields,
         f # h, ~(f = "optimalLiquidityRatio" /\ h = "maxTwapStaleness")
  PROVE  GetField(SetField(d, f, v), h) = GetField(d, h)
<1>1. PICK l \in Nat, w \in Nat, a \in Nat, k \in Nat, x \in Nat :
        /\ l = Low[f] /\ w = Width[f] /\ a = Accepts(f) /\ k = Low[h] /\ x = Width[h]
        /\ w <= a /\ (l + a <= k \/ k + x <= l)
  BY Layout
<1>2. Mask(f) = l .. l + w - 1 /\ Mask(h) = k .. k + x - 1
  BY <1>1 DEF Mask
<1>3. ASSUME NEW i \in Mask(h)
      PROVE  i \notin Mask(f)
  <2>1. i \in Int /\ k <= i /\ i <= (k + x) - 1
    BY <1>2
  <2>2. ~(l <= i /\ i <= (l + w) - 1)
    BY <1>1, <2>1
  <2>3. QED
    BY <1>2, <2>2
<1>4. ASSUME NEW b \in v
      PROVE  b + l \notin Mask(h)
  <2>1. b \in Int /\ 0 <= b /\ b <= a - 1
    BY <1>1
  <2>2. ~(k <= b + l /\ b + l <= (k + x) - 1)
    BY <1>1, <2>1
  <2>3. QED
    BY <1>2, <2>2
<1>5. SetField(d, f, v) \cap Mask(h) = d \cap Mask(h)
  BY <1>1, <1>3, <1>4 DEF SetField
<1>6. QED
  BY <1>5 DEF GetField

\* The setter that lets too many bits pass: where they go.
LEMMA GetOptimal ==
  ASSUME NEW d, NEW v \in SUBSET (0 .. 31)
  PROVE  /\ GetField(SetField(d, "optimalLiquidityRatio", v), "optimalLiquidityRatio")
              = v \cap 0 .. 15
         /\ GetField(d, "maxTwapStaleness")
              \subseteq GetField(SetField(d, "optimalLiquidityRatio", v), "maxTwapStaleness")
         /\ GetField(SetField(d, "optimalLiquidityRatio", v), "maxTwapStaleness")
              \subseteq GetField(d, "maxTwapStaleness") \cup 0 .. 15
<1> DEFINE after == SetField(d, "optimalLiquidityRatio", v)
           shifted == {b + 164 : b \in v}
<1>1. /\ Mask("optimalLiquidityRatio") = 164 .. 179 /\ Mask("maxTwapStaleness") = 180 .. 219
      /\ Low["optimalLiquidityRatio"] = 164 /\ Low["maxTwapStaleness"] = 180
  BY DEF Mask, Low, Width
<1>2. after = (d \ 164 .. 179) \cup shifted
  BY <1>1 DEF SetField
<1>3. GetField(after, "optimalLiquidityRatio") = v \cap 0 .. 15
  <2>1. after \cap 164 .. 179 = {b + 164 : b \in v \cap 0 .. 15}
    BY <1>2
  <2>2. GetField(after, "optimalLiquidityRatio") = {c - 164 : c \in after \cap 164 .. 179}
    BY <1>1 DEF GetField
  <2>3. {c - 164 : c \in {b + 164 : b \in v \cap 0 .. 15}} = v \cap 0 .. 15
    <3>1. PICK s : s = v \cap 0 .. 15
      OBVIOUS
    <3>2. s \in SUBSET Int
      BY <3>1
    <3>3. PICK l \in Int : l = 164
      OBVIOUS
    <3>4. \A b \in s : b \in Int /\ (b + l) - l = b
      BY <3>2
    <3>5. {c - l : c \in {b + l : b \in s}} = s
      BY <3>4
    <3>6. QED
      BY <3>1, <3>3, <3>5
  <2>4. QED
    BY <2>1, <2>2, <2>3
<1>4. /\ d \cap 180 .. 219 \subseteq after \cap 180 .. 219
      /\ after \cap 180 .. 219 \subseteq (d \cap 180 .. 219) \cup 180 .. 195
  BY <1>2
<1>5. /\ GetField(d, "maxTwapStaleness") = {c - 180 : c \in d \cap 180 .. 219}
      /\ GetField(after, "maxTwapStaleness") = {c - 180 : c \in after \cap 180 .. 219}
  BY <1>1 DEF GetField
<1>6. \A c \in 180 .. 195 : c - 180 \in 0 .. 15
  OBVIOUS
<1> HIDE DEF after
<1>7. /\ GetField(d, "maxTwapStaleness") \subseteq GetField(after, "maxTwapStaleness")
      /\ GetField(after, "maxTwapStaleness") \subseteq GetField(d, "maxTwapStaleness") \cup 0 .. 15
  BY <1>4, <1>5, <1>6
<1>8. QED
  BY <1>3, <1>7 DEF after

\* One setter keeps the fields independent.
LEMMA SetFieldGood ==
  ASSUME NEW d, NEW g, <<d, g>> \in Good, NEW f \in Fields, NEW v, Valid(f, v)
  PROVE  <<SetField(d, f, v), Record(g, f, v)>> \in Good
<1>1. d \in SUBSET Bits /\ g \in [Fields -> SUBSET Bits] /\ Independent(d, g)
  BY DEF Good, Words
<1>2. v \in SUBSET (0 .. Accepts(f) - 1)
  BY DEF Valid, Accepts
<1>3. SetField(d, f, v) \in SUBSET Bits /\ v \in SUBSET Bits
  <2>1. PICK l \in Nat, a \in Nat : l = Low[f] /\ a = Accepts(f) /\ l + a <= 256
    BY Layout
  <2>2. \A b \in v : b + l \in 0 .. 255 /\ b \in 0 .. 255
    BY <1>2, <2>1
  <2>3. QED
    BY <1>1, <2>1, <2>2 DEF SetField, Bits
<1> DEFINE after == SetField(d, f, v)
           h == Record(g, f, v)
<1>4. h \in [Fields -> SUBSET Bits] /\ h[f] = v /\ \A k \in Fields \ {f} : h[k] = g[k]
  BY <1>1, <1>3 DEF Record
<1>5. \A k \in Fields \ {f} :
        ~(f = "optimalLiquidityRatio" /\ k = "maxTwapStaleness")
          => GetField(after, k) = GetField(d, k)
  BY <1>2, GetOther
<1>6. f # "optimalLiquidityRatio" => GetField(after, f) = v
  BY <1>2, GetOwn DEF Accepts
<1>7. "optimalLiquidityRatio" \in Fields /\ "maxTwapStaleness" \in Fields
  BY DEF Fields, Low
<1> HIDE DEF after, h
<1>8. Independent(after, h)
  <2>1. CASE f = "optimalLiquidityRatio"
    <3>1. v \in SUBSET (0 .. 31)
      BY <1>2, <2>1 DEF Accepts
    <3>2. /\ GetField(after, "optimalLiquidityRatio") = v \cap 0 .. 15
          /\ GetField(d, "maxTwapStaleness") \subseteq GetField(after, "maxTwapStaleness")
          /\ GetField(after, "maxTwapStaleness")
               \subseteq GetField(d, "maxTwapStaleness") \cup 0 .. 15
      BY <2>1, <3>1, GetOptimal DEF after
    <3>3. QED
      BY <1>1, <1>4, <1>5, <1>7, <2>1, <3>2 DEF Independent
  <2>2. CASE f = "maxTwapStaleness"
    BY <1>1, <1>4, <1>5, <1>6, <1>7, <2>2 DEF Independent
  <2>3. CASE f \notin {"optimalLiquidityRatio", "maxTwapStaleness"}
    BY <1>1, <1>4, <1>5, <1>6, <1>7, <2>3 DEF Independent
  <2>4. QED
    BY <2>1, <2>2, <2>3
<1>9. QED
  BY <1>3, <1>4, <1>8 DEF Good, Words, after, h

\* Setters one after the other.
LEMMA SetFieldsRun ==
  ASSUME NEW d, NEW s, Len(s) \in Nat
  PROVE  \E w : /\ w[0] = d /\ w[Len(s)] = SetFields(d, s)
                /\ \A i \in 1 .. Len(s) : w[i] = SetField(w[i - 1], s[i][1], s[i][2])
<1> DEFINE Runs(w, k) ==
             w = [i \in 0 .. k |-> IF i = 0 THEN d ELSE SetField(w[i - 1], s[i][1], s[i][2])]
           T == {k \in Nat : \E w : Runs(w, k)}
<1>1. 0 \in T
  <2>1. Runs([i \in 0 .. 0 |-> d], 0)
    OBVIOUS
  <2>2. QED
    BY <2>1
<1>2. ASSUME NEW k \in Nat, k \in T
      PROVE  k + 1 \in T
  <2>1. PICK w : Runs(w, k)
    BY <1>2
  <2> DEFINE u == [i \in 0 .. k + 1 |->
                     IF i = k + 1 THEN SetField(w[k], s[i][1], s[i][2]) ELSE w[i]]
  <2>2. \A i \in 0 .. k + 1 :
          u[i] = IF i = 0 THEN d ELSE SetField(u[i - 1], s[i][1], s[i][2])
    BY <2>1
  <2>3. Runs(u, k + 1)
    BY <2>2
  <2> HIDE DEF u
  <2>4. \E z : Runs(z, k + 1)
    BY <2>3
  <2>5. QED
    BY <2>4
<1> HIDE DEF T
<1>3. Len(s) \in T
  BY <1>1, <1>2, AllNaturals
<1>4. \E w : Runs(w, Len(s))
  BY <1>3 DEF T
<1> DEFINE word == CHOOSE w : Runs(w, Len(s))
<1>5. Runs(word, Len(s))
  BY <1>4
<1>6. SetFields(d, s) = word[Len(s)]
  BY DEF SetFields
<1> HIDE DEF word
<1>7. QED
  BY <1>5, <1>6

\* The values accepted, one after the other.
LEMMA AcceptedRun ==
  ASSUME NEW g, NEW s, Len(s) \in Nat
  PROVE  \E w : /\ w[0] = g /\ w[Len(s)] = Accepted(g, s)
                /\ \A i \in 1 .. Len(s) : w[i] = Record(w[i - 1], s[i][1], s[i][2])
<1> DEFINE Runs(w, k) ==
             w = [i \in 0 .. k |-> IF i = 0 THEN g ELSE Record(w[i - 1], s[i][1], s[i][2])]
           T == {k \in Nat : \E w : Runs(w, k)}
<1>1. 0 \in T
  <2>1. Runs([i \in 0 .. 0 |-> g], 0)
    OBVIOUS
  <2>2. QED
    BY <2>1
<1>2. ASSUME NEW k \in Nat, k \in T
      PROVE  k + 1 \in T
  <2>1. PICK w : Runs(w, k)
    BY <1>2
  <2> DEFINE u == [i \in 0 .. k + 1 |->
                     IF i = k + 1 THEN Record(w[k], s[i][1], s[i][2]) ELSE w[i]]
  <2>2. \A i \in 0 .. k + 1 :
          u[i] = IF i = 0 THEN g ELSE Record(u[i - 1], s[i][1], s[i][2])
    BY <2>1
  <2>3. Runs(u, k + 1)
    BY <2>2
  <2> HIDE DEF u
  <2>4. \E z : Runs(z, k + 1)
    BY <2>3
  <2>5. QED
    BY <2>4
<1> HIDE DEF T
<1>3. Len(s) \in T
  BY <1>1, <1>2, AllNaturals
<1>4. \E w : Runs(w, Len(s))
  BY <1>3 DEF T
<1> DEFINE record == CHOOSE w : Runs(w, Len(s))
<1>5. Runs(record, Len(s))
  BY <1>4
<1>6. Accepted(g, s) = record[Len(s)]
  BY DEF Accepted
<1> HIDE DEF record
<1>7. QED
  BY <1>5, <1>6

\* However many setters are called, and whichever.
LEMMA ConfigureGood ==
  ASSUME NEW d, NEW g, <<d, g>> \in Good, NEW s, Len(s) \in Nat,
         \A i \in 1 .. Len(s) : s[i][1] \in Fields /\ Valid(s[i][1], s[i][2])
  PROVE  <<SetFields(d, s), Accepted(g, s)>> \in Good
<1>1. PICK w : /\ w[0] = d /\ w[Len(s)] = SetFields(d, s)
               /\ \A i \in 1 .. Len(s) : w[i] = SetField(w[i - 1], s[i][1], s[i][2])
  BY SetFieldsRun
<1>2. PICK r : /\ r[0] = g /\ r[Len(s)] = Accepted(g, s)
               /\ \A i \in 1 .. Len(s) : r[i] = Record(r[i - 1], s[i][1], s[i][2])
  BY AcceptedRun
<1> DEFINE run == [i \in 0 .. Len(s) |-> <<w[i], r[i]>>]
<1>3. ASSUME NEW i \in 1 .. Len(s), run[i - 1] \in Good
      PROVE  run[i] \in Good
  <2>1. <<w[i - 1], r[i - 1]>> \in Good
    BY <1>3
  <2>2. <<SetField(w[i - 1], s[i][1], s[i][2]), Record(r[i - 1], s[i][1], s[i][2])>> \in Good
    BY <2>1, SetFieldGood
  <2>3. run[i] = <<w[i], r[i]>>
    OBVIOUS
  <2>4. QED
    BY <1>1, <1>2, <2>2, <2>3
<1>4. run[0] = <<d, g>> /\ run[Len(s)] = <<SetFields(d, s), Accepted(g, s)>>
  BY <1>1, <1>2
<1> HIDE DEF run
<1>5. run[Len(s)] \in Good
  BY <1>3, <1>4, RunKeeps
<1>6. QED
  BY <1>4, <1>5

-----------------------------------------------------------------------------
(***************************************************************************)
(* Every administrative transaction.                                       *)
(***************************************************************************)
\* What the proof needs of the words, and of everything else.
WordsGood ==
  /\ data \in [Collections -> SUBSET Bits]
  /\ given \in [Collections -> [Fields -> SUBSET Bits]]
  /\ \A c \in Collections : <<data[c], given[c]>> \in Good

ReservesTyped ==
  \A c \in Collections :
    reserve[c] = NoReserve
      \/ reserve[c] \in [initialized : {TRUE}, currency : Currencies,
                         strategy : Strategies, oracle : Oracles]

Administered == Registry /\ ReservesTyped /\ WordsGood

LEMMA WordsGoodMeans == WordsGood => FieldsIndependent
<1> SUFFICES ASSUME WordsGood, NEW c \in Collections
             PROVE  LET read == [f \in Fields |-> GetField(data[c], f)] IN
    /\ \A f \in Fields \ {"optimalLiquidityRatio", "maxTwapStaleness"} :
         read[f] = given[c][f]
    /\ read.optimalLiquidityRatio = given[c].optimalLiquidityRatio \cap 0 .. 15
    /\ given[c].maxTwapStaleness \subseteq read.maxTwapStaleness
    /\ read.maxTwapStaleness \ given[c].maxTwapStaleness \subseteq 0 .. 15
  BY DEF FieldsIndependent
<1> DEFINE read == [f \in Fields |-> GetField(data[c], f)]
<1>1. Independent(data[c], given[c])
  BY DEF WordsGood, Good
<1>2. "optimalLiquidityRatio" \in Fields /\ "maxTwapStaleness" \in Fields
  BY DEF Fields, Low
<1>3. QED
  BY <1>1, <1>2 DEF Independent

\* One collection's setters.
LEMMA ConfigureKeeps ==
  ASSUME WordsGood, NEW c \in Collections, NEW s, Len(s) \in Nat, DOMAIN s = 1 .. Len(s),
         \A i \in 1 .. Len(s) : s[i][1] \in Fields, Configure(c, s)
  PROVE  WordsGood'
<1>1. <<SetFields(data[c], s), Accepted(given[c], s)>> \in Good
  BY ConfigureGood DEF WordsGood, Configure
<1>2. SetFields(data[c], s) \in SUBSET Bits /\ Accepted(given[c], s) \in [Fields -> SUBSET Bits]
  BY <1>1 DEF Good, Words
<1>3. /\ data' = [data EXCEPT ![c] = SetFields(data[c], s)]
      /\ given' = [given EXCEPT ![c] = Accepted(given[c], s)]
  BY DEF Configure
<1>4. \A e \in Collections : <<data'[e], given'[e]>> \in Good
  BY <1>1, <1>3 DEF WordsGood
<1>5. QED
  BY <1>2, <1>3, <1>4 DEF WordsGood

\* What the configurator calls for one collection are setters of the word.
LEMMA CallsAreSetters ==
  ASSUME NEW input
  PROVE  LET s == ConfiguratorCalls(input) IN
         Len(s) \in Nat /\ DOMAIN s = 1 .. Len(s) /\ \A i \in 1 .. Len(s) : s[i][1] \in Fields
<1> DEFINE first ==
             <<<<"decimals", DecimalsOf[weth]>>, <<"active", {0}>>,
               <<"liquidationBonus", input.liquidationBonus>>,
               <<"incomeRatio", input.incomeRatio>>,
               <<"optimalLiquidityRatio", input.optimalLiquidityRatio>>,
               <<"maxTwapStaleness", input.maxTwapStaleness>>>>
           second == LoanParams(input.loanInterval, input.loanTerm, input.gracePeriod)
           third == <<<<"twapTolerance", input.twapTolerance>>>>
           V == {DecimalsOf[weth], {0}, input.liquidationBonus, input.incomeRatio,
                 input.optimalLiquidityRatio, input.maxTwapStaleness, input.loanInterval,
                 input.loanTerm, input.gracePeriod, input.twapTolerance}
           X == Fields \X V
<1>1. first \in Seq(X) /\ third \in Seq(X)
  BY DEF Fields, Low
<1>2. second \in Seq(X)
  BY DEF Fields, Low, LoanParams
<1>3. ConfiguratorCalls(input) = first \o second \o third
  BY DEF ConfiguratorCalls
<1> HIDE DEF first, second, third, V
<1>4. first \o second \o third \in Seq(X)
  BY <1>1, <1>2
<1>5. QED
  BY <1>3, <1>4

LEMMA BatchKeepsWords ==
  ASSUME WordsGood, NEW batch \in Batches,
         NEW inputs \in [ToSet(batch) -> ConfiguratorInputs],
         NEW strategy \in Strategies, NEW oracle \in Oracles,
         InitReserves(batch, inputs, strategy, oracle)
  PROVE  WordsGood'
<1> DEFINE calls(c) == ConfiguratorCalls(inputs[c])
           word(c) == SetFields(data[c], calls(c))
           values(c) == Accepted(given[c], calls(c))
<1>1. ASSUME NEW c \in Collections, c \in ToSet(batch)
      PROVE  <<word(c), values(c)>> \in Good
  <2> HIDE DEF calls
  <2>1. PICK s : s = calls(c)
    OBVIOUS
  <2>2. Len(s) \in Nat /\ DOMAIN s = 1 .. Len(s) /\ \A i \in 1 .. Len(s) : s[i][1] \in Fields
    BY <2>1, CallsAreSetters DEF calls
  <2>3. \A i \in DOMAIN s : Valid(s[i][1], s[i][2])
    BY <1>1, <2>1 DEF InitReserves, calls
  <2>4. <<data[c], given[c]>> \in Good
    BY DEF WordsGood
  <2>5. <<SetFields(data[c], s), Accepted(given[c], s)>> \in Good
    BY <2>2, <2>3, <2>4, ConfigureGood
  <2>6. QED
    BY <2>1, <2>5
<1>2. /\ data' = [c \in Collections |-> IF c \in ToSet(batch) THEN word(c) ELSE data[c]]
      /\ given' = [c \in Collections |-> IF c \in ToSet(batch) THEN values(c) ELSE given[c]]
  BY DEF InitReserves
<1> HIDE DEF word, values
<1>3. \A c \in Collections : <<data'[c], given'[c]>> \in Good
  BY <1>1, <1>2 DEF WordsGood
<1>4. \A c \in Collections : data'[c] \in SUBSET Bits /\ given'[c] \in [Fields -> SUBSET Bits]
  BY <1>3 DEF Good, Words
<1>5. QED
  BY <1>2, <1>3, <1>4 DEF WordsGood

LEMMA AdministeredInductive == Administered /\ [Next]_vars => Administered'
<1> SUFFICES ASSUME Administered, [Next]_vars
             PROVE  Administered'
  OBVIOUS
<1>0. WordsGood /\ ReservesTyped /\ Registry /\ weth \in Currencies
  BY DEF Administered, Registry, RegistryTyped
<1>1. Registry'
  BY <1>0, RegistryInductive
<1>2. ASSUME NEW c \in Collections, NEW f \in Fields, NEW v \in FieldValues[c][f],
             SetParameter(c, f, v)
      PROVE  WordsGood' /\ ReservesTyped'
  <2>1. PICK s : s = <<<<f, v>>>>
    OBVIOUS
  <2>2. Len(s) = 1 /\ DOMAIN s = 1 .. Len(s) /\ s[1][1] = f
    BY <2>1
  <2>3. Configure(c, s) /\ reserve' = reserve
    BY <1>2, <2>1 DEF SetParameter
  <2>4. WordsGood'
    BY <1>0, <2>2, <2>3, ConfigureKeeps
  <2>5. QED
    BY <1>0, <2>3, <2>4 DEF ReservesTyped
<1>3. ASSUME NEW c \in Collections, NEW epoch \in FieldValues[c].loanInterval,
             NEW term \in FieldValues[c].loanTerm, NEW gracePeriod \in FieldValues[c].gracePeriod,
             SetLoanParams(c, epoch, term, gracePeriod)
      PROVE  WordsGood' /\ ReservesTyped'
  <2>1. PICK s : s = LoanParams(epoch, term, gracePeriod)
    OBVIOUS
  <2>2. /\ Len(s) = 3 /\ DOMAIN s = 1 .. Len(s)
        /\ s[1][1] = "loanInterval" /\ s[2][1] = "loanTerm" /\ s[3][1] = "gracePeriod"
    BY <2>1 DEF LoanParams
  <2>3. \A i \in 1 .. Len(s) : s[i][1] \in Fields
    <3>1. {"loanInterval", "loanTerm", "gracePeriod"} \subseteq Fields
      BY DEF Fields, Low
    <3>2. \A i \in 1 .. Len(s) : i = 1 \/ i = 2 \/ i = 3
      BY <2>2
    <3>3. QED
      BY <2>2, <3>1, <3>2
  <2>4. Configure(c, s) /\ reserve' = reserve
    BY <1>3, <2>1 DEF SetLoanParams
  <2>5. WordsGood'
    BY <1>0, <2>2, <2>3, <2>4, ConfigureKeeps
  <2>6. QED
    BY <1>0, <2>4, <2>5 DEF ReservesTyped
<1>4. ASSUME NEW c \in Collections, NEW active \in BOOLEAN, ModifyReserveStatus(c, active)
      PROVE  WordsGood' /\ ReservesTyped'
  <2>1. PICK s : s = <<<<"active", Flag(active)>>>>
    OBVIOUS
  <2>2. Len(s) = 1 /\ DOMAIN s = 1 .. Len(s) /\ s[1][1] \in Fields
    BY <2>1 DEF Fields, Low
  <2>3. Configure(c, s) /\ reserve' = reserve
    BY <1>4, <2>1 DEF ModifyReserveStatus
  <2>4. WordsGood'
    BY <1>0, <2>2, <2>3, ConfigureKeeps
  <2>5. QED
    BY <1>0, <2>3, <2>4 DEF ReservesTyped
<1>5. ASSUME NEW c \in Collections, NEW currency \in Currencies,
             NEW strategy \in Strategies, NEW oracle \in Oracles,
             InitReserve(c, currency, strategy, oracle)
      PROVE  WordsGood' /\ ReservesTyped'
  <2>1. PICK s : s = <<<<"decimals", DecimalsOf[currency]>>>>
    OBVIOUS
  <2>2. Len(s) = 1 /\ DOMAIN s = 1 .. Len(s) /\ s[1][1] \in Fields
    BY <2>1 DEF Fields, Low
  <2>3. Configure(c, s) /\ reserve' = [reserve EXCEPT ![c] = ReserveFor(currency, strategy, oracle)]
    BY <1>5, <2>1 DEF InitReserve
  <2>4. WordsGood'
    BY <1>0, <2>2, <2>3, ConfigureKeeps
  <2>5. ReservesTyped'
    BY <1>0, <2>3 DEF ReservesTyped, ReserveFor, Registry, RegistryTyped
  <2>6. QED
    BY <2>4, <2>5
<1>6. ASSUME NEW batch \in Batches, NEW inputs \in [ToSet(batch) -> ConfiguratorInputs],
             NEW strategy \in Strategies, NEW oracle \in Oracles,
             InitReserves(batch, inputs, strategy, oracle)
      PROVE  WordsGood' /\ ReservesTyped'
  <2>1. WordsGood'
    BY <1>0, <1>6, BatchKeepsWords
  <2>2. reserve' = [c \in Collections |->
          IF c \in ToSet(batch) THEN ReserveFor(weth, strategy, oracle) ELSE reserve[c]]
    BY <1>6 DEF InitReserves
  <2>3. ReservesTyped'
    BY <1>0, <2>2 DEF ReservesTyped, ReserveFor
  <2>4. QED
    BY <2>1, <2>3
<1>7. ASSUME NEW c \in Collections, NEW strategy \in Strategies,
             SetInterestRateStrategyAddress(c, strategy)
      PROVE  WordsGood' /\ ReservesTyped'
  <2>1. /\ reserve[c].initialized /\ data' = data /\ given' = given
        /\ reserve' = [reserve EXCEPT ![c].strategy = strategy]
    BY <1>7 DEF SetInterestRateStrategyAddress
  <2>2. reserve[c] # NoReserve
    BY <2>1 DEF NoReserve
  <2>3. reserve[c] \in [initialized : {TRUE}, currency : Currencies,
                        strategy : Strategies, oracle : Oracles]
    BY <1>0, <2>2 DEF ReservesTyped
  <2>4. reserve'[c] = [reserve[c] EXCEPT !.strategy = strategy]
    BY <1>0, <2>1 DEF Registry, RegistryTyped
  <2>5. \A e \in Collections \ {c} : reserve'[e] = reserve[e]
    BY <1>0, <2>1 DEF Registry, RegistryTyped
  <2>6. ReservesTyped'
    BY <1>0, <2>3, <2>4, <2>5 DEF ReservesTyped
  <2>7. QED
    BY <1>0, <2>1, <2>6 DEF WordsGood
<1>8. ASSUME NEW c \in Collections, NEW oracle \in Oracles, UpgradePriceOracleImpl(c, oracle)
      PROVE  WordsGood' /\ ReservesTyped'
  <2>1. /\ reserve[c].initialized /\ data' = data /\ given' = given
        /\ reserve' = [reserve EXCEPT ![c].oracle = oracle]
    BY <1>8 DEF UpgradePriceOracleImpl
  <2>2. reserve[c] # NoReserve
    BY <2>1 DEF NoReserve
  <2>3. reserve[c] \in [initialized : {TRUE}, currency : Currencies,
                        strategy : Strategies, oracle : Oracles]
    BY <1>0, <2>2 DEF ReservesTyped
  <2>4. reserve'[c] = [reserve[c] EXCEPT !.oracle = oracle]
    BY <1>0, <2>1 DEF Registry, RegistryTyped
  <2>5. \A e \in Collections \ {c} : reserve'[e] = reserve[e]
    BY <1>0, <2>1 DEF Registry, RegistryTyped
  <2>6. ReservesTyped'
    BY <1>0, <2>3, <2>4, <2>5 DEF ReservesTyped
  <2>7. QED
    BY <1>0, <2>1, <2>6 DEF WordsGood
<1>9. ASSUME NEW currency \in Currencies, UpdateWETH9(currency)
      PROVE  WordsGood' /\ ReservesTyped'
  BY <1>0, <1>9 DEF UpdateWETH9, ReservesTyped, WordsGood
<1>10. CASE UNCHANGED vars
  BY <1>0, <1>1, <1>10 DEF vars, ReservesTyped, WordsGood, Administered
<1>11. QED
  BY <1>1, <1>2, <1>3, <1>4, <1>5, <1>6, <1>7, <1>8, <1>9, <1>10 DEF Next, Administered

LEMMA AdministeredInitially == Init => Administered
<1> SUFFICES ASSUME Init
             PROVE  Administered
  OBVIOUS
<1>1. Registry /\ ReservesTyped
  BY DEF Init, Registry, RegistryTyped, ReservesListedOnce, ReservesTyped, NoReserve,
         IsInjective, ToSet
<1>2. ASSUME NEW c \in Collections
      PROVE  <<data[c], given[c]>> \in Good
  <2>1. data[c] = {} /\ given[c] = [f \in Fields |-> {}]
    BY DEF Init
  <2>2. \A f \in Fields : GetField({}, f) = {}
    BY DEF GetField
  <2>3. "optimalLiquidityRatio" \in Fields /\ "maxTwapStaleness" \in Fields
    BY DEF Fields, Low
  <2>4. QED
    BY <2>1, <2>2, <2>3 DEF Good, Words, Independent
<1>3. WordsGood
  BY <1>2 DEF Init, WordsGood
<1>4. QED
  BY <1>1, <1>3 DEF Administered

LEMMA AdministeredTyped == Administered => TypeOK
BY DEF Administered, Registry, RegistryTyped, ReservesTyped, WordsGood, TypeOK

\* The administrators' state keeps its types.
THEOREM AdministrationTyped == Spec => []TypeOK
BY AdministeredInitially, AdministeredInductive, AdministeredTyped, PTL DEF Spec

\* After any calls in any order, alone or in batches, a field of a
\* configuration word reads back what its setter last accepted; only the
\* optimal liquidity ratio disturbs another field (LibReserveConfiguration).
THEOREM FieldsStayIndependent == Spec => []FieldsIndependent
<1>1. Administered => FieldsIndependent
  BY WordsGoodMeans DEF Administered
<1>2. QED
  BY <1>1, AdministeredInitially, AdministeredInductive, PTL DEF Spec
=============================================================================
