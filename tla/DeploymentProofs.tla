--------------------------- MODULE DeploymentProofs ---------------------------
(***************************************************************************)
(* The deployment pipeline on every network and for every choice of tags,  *)
(* releases and bounds: the saved ABI is never stale, only unpause and a   *)
(* cut end a pause, and a run that reaches its end has configured          *)
(* everything, wherever earlier runs broke off.                            *)
(***************************************************************************)
EXTENDS Deployment, NumberLemmas

Facets == ToSet(FacetNames)
MarketAdapters == {"LooksRareAdapter", "SeaportAdapter"}
AdapterConfigs(n) == ToSet(AdaptersToSet(SetHRE(n)))

(***************************************************************************)
(* Steps, and the order a run takes them in.                               *)
(***************************************************************************)
Ops == {"deploy", "saveCoreABI", "readVoyage", "deployInit", "cut", "saveMergedABI",
        "firstForwarder", "firstHub", "adapter", "impl", "gsn", "signer", "forwarder", "authorize"}
Steps ==
  {x \in [op : Ops, of : Artifacts \cup {None} \cup AdapterConfigs(net)] :
     /\ x.op = "deploy" => x.of \in Artifacts
     /\ x.op = "impl" => x.of \in Impls
     /\ x.op = "adapter" => x.of \in AdapterConfigs(net)
     /\ x.op \notin {"deploy", "impl", "adapter"} => x.of = None}

DeployRank(a) ==
  IF a = "Voyage" THEN 2 ELSE IF a \in Facets THEN 5 ELSE IF a = "VoyagePaymaster" THEN 9
  ELSE IF a = "VoyageReserveConfigurator" THEN 10 ELSE 1
OpRank ==
  [saveCoreABI |-> 3, readVoyage |-> 4, deployInit |-> 6, cut |-> 7, saveMergedABI |-> 8,
   firstForwarder |-> 10, firstHub |-> 10, adapter |-> 11, impl |-> 11, gsn |-> 11, signer |-> 11,
   forwarder |-> 11, authorize |-> 11]
Rank(x) == IF x.op = "deploy" THEN DeployRank(x.of) ELSE OpRank[x.op]

\* Steps in order, with ranks from lo to hi.
Phase(s, lo, hi) ==
  /\ s \in Seq(Steps)
  /\ \A i \in 1..Len(s) : lo <= Rank(s[i]) /\ Rank(s[i]) <= hi
  /\ \A i, j \in 1..Len(s) : i <= j => Rank(s[i]) <= Rank(s[j])

(***************************************************************************)
(* What a run has achieved by a step it has taken.                         *)
(***************************************************************************)
Todo == {run.todo[i] : i \in 1..Len(run.todo)}
CoreStep == Step("saveCoreABI", None)
ReadStep == Step("readVoyage", None)
CutStep == Step("cut", None)
MergeStep == Step("saveMergedABI", None)

FacetSteps == {CoreStep, ReadStep, CutStep} \cup {Step("deploy", f) : f \in Facets}
Needed == Impls \cup Facets \cup MarketAdapters \cup {"Voyage", "VoyagePaymaster", "VoyageReserveConfigurator"}
CommonSteps ==
  FacetSteps \cup {MergeStep, Step("gsn", None), Step("signer", None)}
    \cup {Step("deploy", a) : a \in Needed}
Required(kind) ==
  CASE kind = "full" ->
         CommonSteps \cup {Step("impl", i) : i \in Impls} \cup {Step("adapter", c) : c \in AdapterConfigs(net)}
    [] kind = "fixture" -> CommonSteps \cup {Step("authorize", None)}
    [] OTHER -> {}
Promised == Required(run.kind) \cup IF MergeStep \in Todo THEN FacetSteps ELSE {}

Matches == \A f \in Facets : diamond.routes[f] = saved[f].code
Goal(x) ==
  CASE x.op = "saveCoreABI" -> ReadStep \in Todo \/ CutStep \in Todo => abi = CoreABI
    [] x.op = "readVoyage" -> saved["Voyage"] # None /\ (MergeStep \in Todo => run.base = CoreABI)
    [] x.op = "deploy" -> saved[x.of] = Instance(x.of)
    [] x.op = "cut" -> Matches /\ (run.kind = "fixture" => \A i \in Impls : diamond.impl[i] = saved[i])
    [] x.op = "saveMergedABI" -> abi = CoreABI \cup MergedABI(FacetABIs)
    [] x.op = "gsn" -> /\ diamond.paymaster = saved["VoyagePaymaster"]
                       /\ diamond.forwarder = GetTrustedForwarder(net)
                       /\ paymaster.forwarder = GetTrustedForwarder(net)
    [] x.op = "signer" -> diamond.signer = GetTwapSigner(net)
    [] x.op = "impl" -> diamond.impl[x.of] = saved[x.of]
    [] x.op = "adapter" -> /\ x.of.marketplace \in DOMAIN diamond.adapters
                           /\ diamond.adapters[x.of.marketplace] = saved[x.of.adapter]
    [] x.op = "authorize" -> saved["VoyageReserveConfigurator"] \in diamond.configurators
    [] OTHER -> TRUE

\* A promised step is still to come, or it has been taken, and so has every
\* step that could undo what it achieved.
Settled(x) == Goal(x) /\ \A y \in Todo : Rank(x) <= Rank(y)
Progress ==
  /\ Phase(run.todo, 1, 11)
  /\ (ReadStep \in Todo \/ CutStep \in Todo) => MergeStep \in Todo
  /\ \A x \in Promised : x \in Todo \/ Settled(x)

Kinds == {"none", "full", "tagged", "task", "fixture"}
Types ==
  /\ net \in Settings
  /\ releases \in 0..MaxReleases /\ source \in [Artifacts -> 1..releases + 1]
  /\ DOMAIN saved = Artifacts
  /\ \A a \in Artifacts : saved[a] = None \/ (saved[a].name = a /\ saved[a].code \in 1..source[a])
  /\ DOMAIN diamond = DOMAIN FreshDiamond /\ diamond.paused \in BOOLEAN
  /\ DOMAIN diamond.routes = Facets /\ \A f \in Facets : diamond.routes[f] \in 0..source[f]
  /\ DOMAIN diamond.impl = Impls
  /\ \A i \in Impls : diamond.impl[i] = None \/ diamond.impl[i].name = i
  /\ DOMAIN paymaster = {"forwarder", "hub"}
  /\ \A x \in abi : x.fn \in CoreFacets \cup Facets
  /\ DOMAIN run = DOMAIN NoRun /\ run.kind \in Kinds /\ completed \in Kinds
  /\ Idle => run.todo = <<>>
  /\ ~Idle => completed = "none"

Routed == \E f \in Facets : diamond.routes[f] # 0
Chained ==
  /\ SavedABINeverStale
  /\ Routed => diamond.weth9 = GetWETH9(net)
  /\ saved["Voyage"] = None => ~Routed /\ \A i \in Impls : diamond.impl[i] = None
  /\ run.kind = "fixture" /\ CutStep \in Todo =>
       (~Routed /\ \A i \in Impls : diamond.impl[i] = None) \/ Settled(CutStep)
  /\ diamond.paused => diamond.routes["SecurityFacet"] # 0

PipelineInv == Types /\ Progress /\ Chained /\ CompletedRunConfigures

(***************************************************************************)
(* Steps and ranks.                                                        *)
(***************************************************************************)
LEMMA NamesKnown ==
  /\ Facets = {"SecurityFacet", "LiquidityFacet", "LiquidateFacet", "LoanFacet", "RepaymentFacet",
               "VaultFacet", "ConfigurationFacet", "DataProviderFacet", "OracleFacet"}
  /\ Len(FacetNames) = 9 /\ DOMAIN FacetNames = 1..9
  /\ Facets \subseteq Artifacts /\ Impls \subseteq Artifacts /\ MarketAdapters \subseteq Artifacts
  /\ "Voyage" \in Artifacts /\ BoundToVoyage \subseteq Artifacts /\ "InitDiamond" \in Artifacts
  /\ Needed \subseteq Artifacts
<1>1. DOMAIN FacetNames = 1..9 /\ Len(FacetNames) = 9
  BY DEF FacetNames
<1>2. Facets = {"SecurityFacet", "LiquidityFacet", "LiquidateFacet", "LoanFacet", "RepaymentFacet",
               "VaultFacet", "ConfigurationFacet", "DataProviderFacet", "OracleFacet"}
  <2>1. Facets = {FacetNames[i] : i \in 1..9}
    BY <1>1 DEF Facets, ToSet
  <2>2. 1..9 = {1, 2, 3, 4, 5, 6, 7, 8, 9}
    OBVIOUS
  <2>3. QED
    BY <2>1, <2>2 DEF FacetNames
<1>3. Facets \subseteq Artifacts
  BY DEF Facets, Artifacts
<1>4. /\ Impls \subseteq Artifacts /\ MarketAdapters \subseteq Artifacts
      /\ "Voyage" \in Artifacts /\ BoundToVoyage \subseteq Artifacts /\ "InitDiamond" \in Artifacts
  BY DEF Artifacts, MarketAdapters, BoundToVoyage
<1>5. QED
  BY <1>1, <1>2, <1>3, <1>4 DEF Needed, BoundToVoyage

LEMMA RanksKnown ==
  /\ Rank(CoreStep) = 3 /\ Rank(ReadStep) = 4 /\ Rank(CutStep) = 7 /\ Rank(MergeStep) = 8
  /\ \A a \in Artifacts : Rank(Step("deploy", a)) = DeployRank(a)
  /\ DeployRank("Voyage") = 2 /\ \A f \in Facets : DeployRank(f) = 5
  /\ \A i \in Impls : DeployRank(i) = 1
  /\ DeployRank("VoyagePaymaster") = 9 /\ DeployRank("VoyageReserveConfigurator") = 10
  /\ \A a \in Artifacts : DeployRank(a) \in {1, 2, 5, 9, 10}
BY NamesKnown DEF Rank, DeployRank, OpRank, Step, CoreStep, ReadStep, CutStep, MergeStep, Impls

LEMMA StepForm ==
  ASSUME NEW x \in Steps
  PROVE  x = Step(x.op, x.of) /\ Rank(x) \in 1..11 /\ x.op \in Ops
<1>1. x = Step(x.op, x.of) /\ x.op \in Ops
  BY DEF Steps, Step
<1>2. Rank(x) \in 1..11
  BY <1>1 DEF Rank, DeployRank, OpRank, Ops
<1>3. QED
  BY <1>1, <1>2

\* No two configurations of a network share a marketplace and differ.
LEMMA ConfigsKnown ==
  ASSUME NEW n
  PROVE  /\ Len(AdaptersToSet(n)) \in Nat
         /\ DOMAIN AdaptersToSet(n) = 1..Len(AdaptersToSet(n))
         /\ \A c \in ToSet(AdaptersToSet(n)) : c.adapter \in MarketAdapters
         /\ \A c, d \in ToSet(AdaptersToSet(n)) :
              c.marketplace = d.marketplace /\ c.marketplace # None => c.adapter = d.adapter
<1>1. PICK looks : looks = [marketplace |-> Entry("LOOKS_ADDRESS", n.chainId), adapter |-> "LooksRareAdapter"]
  OBVIOUS
<1>2. PICK sea : sea = [marketplace |-> <<"CROSS_CHAIN_SEAPORT_ADDRESS", 0>>, adapter |-> "SeaportAdapter"]
  OBVIOUS
<1>3. PICK mock : mock = [marketplace |-> MockMarketplace, adapter |-> "LooksRareAdapter"]
  OBVIOUS
<1>4. PICK a : a = MarketplaceAdapterConfiguration(n)
  OBVIOUS
<1>5. PICK b : b = IF IsHardhat(n) THEN <<mock>> ELSE <<>>
  OBVIOUS
<1>6. AdaptersToSet(n) = a \o b
  BY <1>3, <1>4, <1>5 DEF AdaptersToSet
<1>7. (a = <<>> \/ a = <<looks, sea>>) /\ (b = <<>> \/ b = <<mock>>)
  BY <1>1, <1>2, <1>4, <1>5 DEF MarketplaceAdapterConfiguration
<1>8. a \in Seq({looks, sea, mock}) /\ b \in Seq({looks, sea, mock})
  <2>1. /\ <<>> \in Seq({looks, sea, mock}) /\ <<looks, sea>> \in Seq({looks, sea, mock})
        /\ <<mock>> \in Seq({looks, sea, mock})
    OBVIOUS
  <2>2. QED
    BY <1>7, <2>1
<1>9. PICK ab : ab = a \o b
  OBVIOUS
<1>10. ab \in Seq({looks, sea, mock})
  BY <1>8, <1>9
<1>11. Len(ab) \in Nat /\ DOMAIN ab = 1..Len(ab) /\ ToSet(ab) \subseteq {looks, sea, mock}
  BY <1>10 DEF ToSet
<1>12. /\ looks.adapter = "LooksRareAdapter" /\ sea.adapter = "SeaportAdapter"
       /\ mock.adapter = "LooksRareAdapter"
  BY <1>1, <1>2, <1>3
<1>13. /\ looks.marketplace = sea.marketplace => looks.marketplace = None
       /\ sea.marketplace # mock.marketplace
  BY <1>1, <1>2, <1>3 DEF Entry, MockMarketplace
<1>14. /\ \A c \in {looks, sea, mock} : c.adapter \in MarketAdapters
       /\ \A c, d \in {looks, sea, mock} :
            c.marketplace = d.marketplace /\ c.marketplace # None => c.adapter = d.adapter
  BY <1>12, <1>13 DEF MarketAdapters
<1>15. QED
  BY <1>6, <1>9, <1>11, <1>14, Zenon

LEMMA PromisedSteps ==
  ASSUME NEW x \in Promised
  PROVE  x \in Steps /\ x = Step(x.op, x.of)
<1>1. \A a \in Artifacts : Step("deploy", a) \in Steps
  BY DEF Steps, Step, Ops
<1>2. \A i \in Impls : Step("impl", i) \in Steps
  BY NamesKnown DEF Steps, Step, Ops
<1>3. \A c \in AdapterConfigs(net) : Step("adapter", c) \in Steps
  BY DEF Steps, Step, Ops
<1>4. /\ CoreStep \in Steps /\ ReadStep \in Steps /\ CutStep \in Steps /\ MergeStep \in Steps
      /\ Step("gsn", None) \in Steps /\ Step("signer", None) \in Steps /\ Step("authorize", None) \in Steps
  BY DEF Steps, Step, Ops, CoreStep, ReadStep, CutStep, MergeStep
<1>5. FacetSteps \subseteq Steps /\ CommonSteps \subseteq Steps
  BY <1>1, <1>4, NamesKnown DEF FacetSteps, CommonSteps
<1>6. Required(run.kind) \subseteq Steps
  BY <1>2, <1>3, <1>4, <1>5 DEF Required
<1>7. QED
  BY <1>5, <1>6, StepForm DEF Promised

(***************************************************************************)
(* Taking one step.                                                        *)
(***************************************************************************)
Next1 == Head(run.todo)

LEMMA TailFacts ==
  ASSUME Phase(run.todo, 1, 11), run.todo # <<>>
  PROVE  /\ Next1 \in Todo /\ Next1 \in Steps
         /\ \A y \in Todo : y \in Steps /\ Rank(Next1) <= Rank(y)
         /\ Todo = {Next1} \cup {Tail(run.todo)[i] : i \in 1..Len(Tail(run.todo))}
         /\ Phase(Tail(run.todo), 1, 11)
<1>1. PICK s : s = run.todo
  OBVIOUS
<1>2. s \in Seq(Steps) /\ s # <<>> /\ Len(s) \in Nat /\ Len(s) >= 1 /\ Head(s) = s[1]
  BY <1>1 DEF Phase
<1>3. /\ Tail(s) \in Seq(Steps) /\ Len(Tail(s)) = Len(s) - 1
      /\ \A i \in 1..Len(Tail(s)) : i + 1 \in 1..Len(s) /\ Tail(s)[i] = s[i + 1]
  BY <1>2
<1>4. \A i \in 1..Len(s) : s[i] \in Steps /\ Rank(s[1]) <= Rank(s[i])
  BY <1>1, <1>2 DEF Phase
<1>5. Phase(Tail(s), 1, 11)
  <2>1. \A i \in 1..Len(Tail(s)) : 1 <= Rank(Tail(s)[i]) /\ Rank(Tail(s)[i]) <= 11
    BY <1>1, <1>3 DEF Phase
  <2>2. \A i, j \in 1..Len(Tail(s)) : i <= j => Rank(Tail(s)[i]) <= Rank(Tail(s)[j])
    <3>1. SUFFICES ASSUME NEW i \in 1..Len(Tail(s)), NEW j \in 1..Len(Tail(s)), i <= j
                   PROVE  Rank(Tail(s)[i]) <= Rank(Tail(s)[j])
      OBVIOUS
    <3>2. i + 1 \in 1..Len(s) /\ j + 1 \in 1..Len(s) /\ i + 1 <= j + 1
      BY <3>1, <1>3
    <3>3. Rank(s[i + 1]) <= Rank(s[j + 1])
      BY <3>2, <1>1 DEF Phase
    <3>4. QED
      BY <3>3, <1>3
  <2>3. QED
    BY <1>3, <2>1, <2>2 DEF Phase
<1>6. {s[i] : i \in 1..Len(s)} = {Head(s)} \cup {Tail(s)[i] : i \in 1..Len(Tail(s))}
  <2>1. \A i \in 1..Len(s) : i = 1 \/ (i - 1 \in 1..Len(Tail(s)) /\ Tail(s)[i - 1] = s[i])
    BY <1>2, <1>3
  <2>2. 1 \in 1..Len(s)
    BY <1>2
  <2>3. \A y \in {s[i] : i \in 1..Len(s)} : y \in {Head(s)} \cup {Tail(s)[i] : i \in 1..Len(Tail(s))}
    BY <1>2, <2>1
  <2>4. \A y \in {Head(s)} \cup {Tail(s)[i] : i \in 1..Len(Tail(s))} : y \in {s[i] : i \in 1..Len(s)}
    BY <1>2, <1>3, <2>2
  <2>5. QED
    BY <2>3, <2>4
<1>7. Todo = {s[i] : i \in 1..Len(s)}
  BY <1>1 DEF Todo
<1>8. QED
  BY <1>1, <1>2, <1>4, <1>5, <1>6, <1>7 DEF Next1

\* A step may be taken when it achieves its own goal and leaves alone what
\* steps of its rank and lower ones have achieved.
Achieves(x) == x = Next1 \/ (Goal(x) /\ Rank(x) <= Rank(Next1))
LEMMA TailKeeps ==
  ASSUME Progress, run.todo # <<>>, run'.todo = Tail(run.todo), run'.kind = run.kind, net' = net,
         \A x \in Promised : Achieves(x) => Goal(x)'
  PROVE  Progress' /\ Todo' \subseteq Todo
<1>1. /\ Next1 \in Todo /\ Todo = {Next1} \cup Todo'
      /\ \A y \in Todo : y \in Steps /\ Rank(Next1) <= Rank(y)
  BY TailFacts DEF Progress, Todo
<1>2. Phase(run.todo, 1, 11)'
  <2>1. Steps' = Steps
    BY DEF Steps, AdapterConfigs
  <2>2. Phase(Tail(run.todo), 1, 11)
    BY TailFacts DEF Progress
  <2>3. QED
    BY <2>1, <2>2 DEF Phase
<1>3. ReadStep \in Todo' \/ CutStep \in Todo' => MergeStep \in Todo'
  <2>1. SUFFICES ASSUME ReadStep \in Todo' \/ CutStep \in Todo', MergeStep \notin Todo'
                 PROVE  FALSE
    OBVIOUS
  <2>2. MergeStep = Next1
    BY <1>1, <2>1 DEF Progress
  <2>3. QED
    BY <1>1, <2>1, <2>2, RanksKnown
<1>4. Promised' \subseteq Promised
  BY <1>1 DEF Promised, Required, AdapterConfigs, MergeStep, Step, FacetSteps, CommonSteps,
              CoreStep, ReadStep, CutStep, Facets, FacetNames, Needed, Impls, MarketAdapters
<1>5. ASSUME NEW x \in Promised', x \notin Todo'
      PROVE  Settled(x)'
  <2>1. x \in Promised /\ (x \in Todo => x = Next1)
    BY <1>1, <1>4, <1>5
  <2>2. Rank(x) <= Rank(Next1) /\ (x # Next1 => Goal(x))
    <3>1. CASE x = Next1
      BY <3>1, <1>1, StepForm
    <3>2. CASE x # Next1
      BY <3>2, <2>1, <1>1 DEF Progress, Settled
    <3>3. QED
      BY <3>1, <3>2
  <2>3. Goal(x)'
    BY <2>1, <2>2 DEF Achieves
  <2>4. \A y \in Todo' : Rank(x) <= Rank(y)
    <3>1. TAKE y \in Todo'
    <3>2. y \in Steps /\ Rank(Next1) <= Rank(y) /\ x \in Steps /\ Next1 \in Steps
      BY <1>1, <2>1, PromisedSteps
    <3>3. Rank(x) \in 1..11 /\ Rank(y) \in 1..11 /\ Rank(Next1) \in 1..11
      BY <3>2, StepForm
    <3>4. QED
      BY <2>2, <3>2, <3>3
  <2>5. QED
    BY <2>3, <2>4 DEF Settled, Rank, OpRank, DeployRank, Facets, FacetNames
<1>6. QED
  BY <1>1, <1>2, <1>3, <1>5 DEF Progress, ReadStep, CutStep, MergeStep, Step

\* What the order says at the cut and when the ABI is saved after it.
LEMMA EarlierDone ==
  ASSUME Progress, run.todo # <<>>, NEW x \in Promised, Rank(x) < Rank(Next1)
  PROVE  Goal(x)
<1>1. \A y \in Todo : y \in Steps /\ Rank(Next1) <= Rank(y)
  BY TailFacts DEF Progress
<1>2. x \notin Todo
  <2>1. SUFFICES ASSUME x \in Todo
                 PROVE  FALSE
    OBVIOUS
  <2>2. Next1 \in Steps
    BY TailFacts DEF Progress
  <2>3. Rank(x) \in 1..11 /\ Rank(Next1) \in 1..11 /\ Rank(Next1) <= Rank(x)
    BY <1>1, <2>1, <2>2, StepForm
  <2>4. QED
    BY <2>3
<1>3. QED
  BY <1>2 DEF Progress, Settled

LEMMA FacetsPromised ==
  ASSUME MergeStep \in Todo
  PROVE  /\ CoreStep \in Promised /\ ReadStep \in Promised /\ CutStep \in Promised
         /\ \A f \in Facets : Step("deploy", f) \in Promised
BY DEF Promised, FacetSteps

LEMMA DeployGoal ==
  ASSUME NEW a
  PROVE  Goal(Step("deploy", a)) <=> saved[a] = Instance(a)
BY DEF Goal, Step

LEMMA AtCut ==
  ASSUME Types, Progress, run.todo # <<>>, Next1 = CutStep
  PROVE  /\ MergeStep \in Todo /\ abi = CoreABI /\ saved["Voyage"] # None
         /\ \A f \in Facets : saved[f] = Instance(f)
<1>1. CutStep \in Todo /\ MergeStep \in Todo
  BY TailFacts DEF Progress
<1>2. Goal(CoreStep) /\ Goal(ReadStep)
  BY <1>1, FacetsPromised, EarlierDone, RanksKnown
<1>3. ASSUME NEW f \in Facets
      PROVE  saved[f] = Instance(f)
  <2>1. Rank(Step("deploy", f)) = 5
    BY RanksKnown, NamesKnown
  <2>2. Goal(Step("deploy", f))
    BY <1>1, <2>1, FacetsPromised, EarlierDone, RanksKnown
  <2>3. QED
    BY <2>2, DeployGoal
<1>4. abi = CoreABI /\ saved["Voyage"] # None
  BY <1>1, <1>2 DEF Goal, CoreStep, ReadStep, Step
<1>5. QED
  BY <1>1, <1>3, <1>4

LEMMA AtMerge ==
  ASSUME Types, Progress, run.todo # <<>>, Next1 = MergeStep
  PROVE  /\ run.base = CoreABI /\ Matches
         /\ \A f \in Facets : saved[f] = Instance(f)
<1>1. MergeStep \in Todo
  BY TailFacts DEF Progress
<1>2. Goal(CutStep) /\ Goal(ReadStep)
  BY <1>1, FacetsPromised, EarlierDone, RanksKnown
<1>3. ASSUME NEW f \in Facets
      PROVE  saved[f] = Instance(f)
  <2>1. Rank(Step("deploy", f)) = 5
    BY RanksKnown, NamesKnown
  <2>2. Goal(Step("deploy", f))
    BY <1>1, <2>1, FacetsPromised, EarlierDone, RanksKnown
  <2>3. QED
    BY <2>2, DeployGoal
<1>4. run.base = CoreABI /\ Matches
  BY <1>1, <1>2 DEF Goal, CutStep, ReadStep, Step
<1>5. QED
  BY <1>3, <1>4

LEMMA ABIsKnown ==
  /\ CoreABI = {[fn |-> f, code |-> 0] : f \in CoreFacets}
  /\ MergedABI(FacetABIs) = {[fn |-> f, code |-> saved[f].code] : f \in Facets}
  /\ MergedABI(<<run.base>> \o FacetABIs) = run.base \cup MergedABI(FacetABIs)
<1>1. CoreABI = {[fn |-> f, code |-> 0] : f \in CoreFacets}
  BY DEF CoreABI, Functions
<1>2. DOMAIN FacetNames = 1..9 /\ Facets = {FacetNames[i] : i \in 1..9}
  BY NamesKnown DEF Facets, ToSet
<1>3. PICK q : q = FacetABIs
  OBVIOUS
<1>4. DOMAIN q = 1..9 /\ \A i \in 1..9 : q[i] = {[fn |-> FacetNames[i], code |-> saved[FacetNames[i]].code]}
  <2>1. q = [i \in 1..9 |-> Functions({FacetNames[i]}, [f \in {FacetNames[i]} |-> saved[f].code])]
    BY <1>2, <1>3 DEF FacetABIs
  <2>2. ASSUME NEW g
        PROVE  Functions({g}, [f \in {g} |-> saved[f].code]) = {[fn |-> g, code |-> saved[g].code]}
    BY DEF Functions
  <2>3. QED
    BY <2>1, <2>2
<1>5. MergedABI(q) = {[fn |-> f, code |-> saved[f].code] : f \in Facets}
  <2> DEFINE Abi(f) == {[fn |-> f, code |-> saved[f].code]}
  <2>0. ToSet(q) = {q[i] : i \in 1..9} /\ \A i \in 1..9 : q[i] = Abi(FacetNames[i])
    BY <1>4 DEF ToSet
  <2>1. ToSet(q) = {Abi(f) : f \in Facets}
    <3> HIDE DEF Abi
    <3>1. QED
      BY <1>2, <2>0
  <2>2. QED
    BY <2>1 DEF MergedABI
<1>6. MergedABI(<<run.base>> \o q) = run.base \cup MergedABI(q)
  <2>1. PICK S : S = {q[i] : i \in 1..9} \cup {run.base}
    OBVIOUS
  <2>2. q = [i \in 1..9 |-> q[i]]
    BY <1>3, <1>4, <1>2 DEF FacetABIs
  <2>3. q \in Seq(S) /\ Len(q) = 9
    BY <2>1, <2>2
  <2>4. PICK r : r = run.base /\ <<r>> \in Seq(S) /\ ToSet(<<r>>) = {r}
    <3>1. PICK r : r = run.base
      OBVIOUS
    <3>2. r \in S
      BY <2>1, <3>1
    <3>3. <<r>> \in Seq(S) /\ ToSet(<<r>>) = {r}
      BY <3>2 DEF ToSet
    <3>4. QED
      BY <3>1, <3>3
  <2>5. PICK b : b = <<r>>
    OBVIOUS
  <2>6. ToSet(b \o q) = ToSet(b) \cup ToSet(q)
    <3>1. b \in Seq(S) /\ q \in Seq(S)
      BY <2>3, <2>4, <2>5
    <3>2. QED
      BY <3>1, Concatenated, Zenon
  <2>7. ToSet(<<r>> \o q) = {r} \cup ToSet(q)
    BY <2>4, <2>5, <2>6
  <2>8. QED
    BY <2>4, <2>7 DEF MergedABI
<1>7. QED
  BY <1>1, <1>3, <1>5, <1>6

(***************************************************************************)
(* Goals that a step leaves alone.                                         *)
(***************************************************************************)
Untouched(x) ==
  /\ x.op = "saveCoreABI" => UNCHANGED abi
  /\ x.op = "readVoyage" => UNCHANGED saved /\ run'.base = run.base
  /\ x.op = "deploy" => UNCHANGED saved
  /\ x.op = "cut" => UNCHANGED saved /\ diamond'.routes = diamond.routes /\ diamond'.impl = diamond.impl
  /\ x.op = "saveMergedABI" => UNCHANGED <<saved, abi>>
  /\ x.op = "gsn" => /\ UNCHANGED saved /\ paymaster'.forwarder = paymaster.forwarder
                     /\ diamond'.paymaster = diamond.paymaster /\ diamond'.forwarder = diamond.forwarder
  /\ x.op = "signer" => diamond'.signer = diamond.signer
  /\ x.op = "impl" => UNCHANGED saved /\ diamond'.impl = diamond.impl
  /\ x.op = "adapter" => UNCHANGED saved /\ diamond'.adapters = diamond.adapters
  /\ x.op = "authorize" => UNCHANGED saved /\ diamond'.configurators = diamond.configurators

Advances ==
  /\ run.todo # <<>> /\ run'.todo = Tail(run.todo) /\ run'.kind = run.kind
  /\ UNCHANGED <<net, source>>

LEMMA TodoShrinks ==
  ASSUME Progress, Advances
  PROVE  Todo' \subseteq Todo
BY TailFacts DEF Progress, Todo, Advances

LEMMA GoalUnmoved ==
  ASSUME Progress, Advances, NEW x \in Promised, Goal(x), Untouched(x)
  PROVE  Goal(x)'
<1>1. Todo' \subseteq Todo /\ ReadStep' = ReadStep /\ CutStep' = CutStep /\ MergeStep' = MergeStep
  BY TodoShrinks DEF ReadStep, CutStep, MergeStep, Step
<1>2. x.op \in Ops /\ UNCHANGED <<net, source, run.kind>>
  BY PromisedSteps, StepForm DEF Advances
<1>3. CASE x.op = "saveCoreABI"
  BY <1>1, <1>3 DEF Goal, Untouched, CoreABI, Functions, CoreFacets
<1>4. CASE x.op = "readVoyage"
  BY <1>1, <1>4 DEF Goal, Untouched, CoreABI, Functions, CoreFacets
<1>5. CASE x.op = "deploy"
  BY <1>2, <1>5 DEF Goal, Untouched, Instance
<1>6. CASE x.op = "cut"
  BY <1>2, <1>6 DEF Goal, Untouched, Matches, Facets, FacetNames, Impls
<1>7. CASE x.op = "saveMergedABI"
  <2>1. saved' = saved /\ abi' = abi
    BY <1>7 DEF Untouched
  <2>2. FacetABIs' = FacetABIs
    BY <2>1 DEF FacetABIs, Functions, FacetNames
  <2>3. CoreABI' = CoreABI
    BY DEF CoreABI, Functions, CoreFacets
  <2>4. MergedABI(FacetABIs)' = MergedABI(FacetABIs)
    BY <2>2 DEF MergedABI
  <2>5. QED
    BY <1>7, <2>1, <2>3, <2>4 DEF Goal
<1>8. CASE x.op = "gsn"
  BY <1>2, <1>8 DEF Goal, Untouched
<1>9. CASE x.op = "signer"
  BY <1>2, <1>9 DEF Goal, Untouched
<1>10. CASE x.op = "impl"
  BY <1>2, <1>10 DEF Goal, Untouched
<1>11. CASE x.op = "adapter"
  BY <1>2, <1>11 DEF Goal, Untouched
<1>12. CASE x.op = "authorize"
  BY <1>2, <1>12 DEF Goal, Untouched
<1>13. CASE x.op \in {"deployInit", "firstForwarder", "firstHub", "forwarder"}
  BY <1>13 DEF Goal
<1>14. QED
  BY <1>2, <1>3, <1>4, <1>5, <1>6, <1>7, <1>8, <1>9, <1>10, <1>11, <1>12, <1>13 DEF Ops

LEMMA OpRanks ==
  ASSUME NEW x \in Steps
  PROVE  /\ x.op # "deploy" => Rank(x) = OpRank[x.op]
         /\ x.op = "deploy" => Rank(x) = DeployRank(x.of) /\ x.of \in Artifacts
         /\ x.op \in {"adapter", "impl", "gsn", "signer", "authorize"} => Rank(x) = 11
         /\ x.op = "saveMergedABI" => Rank(x) = 8 /\ x = MergeStep
         /\ x.op = "cut" => Rank(x) = 7 /\ x = CutStep
         /\ x.op = "readVoyage" => Rank(x) = 4 /\ x = ReadStep
         /\ x.op = "saveCoreABI" => Rank(x) = 3 /\ x = CoreStep
BY StepForm DEF Rank, OpRank, Steps, MergeStep, CutStep, ReadStep, CoreStep

(***************************************************************************)
(* What each step achieves.                                                *)
(***************************************************************************)
LEMMA PromisedDeploys ==
  ASSUME NEW x \in Promised, x.op = "deploy"
  PROVE  x.of \in Needed
<1>1. \A y \in CommonSteps \cup FacetSteps : y.op = "deploy" => y.of \in Needed
  BY DEF CommonSteps, FacetSteps, Step, CoreStep, ReadStep, CutStep, MergeStep, Needed
<1>2. \A y \in Required(run.kind) : y.op = "deploy" => y.of \in Needed
  BY <1>1 DEF Required, Step
<1>3. QED
  BY <1>1, <1>2 DEF Promised

LEMMA NextIs ==
  ASSUME Progress, run.todo # <<>>, NEW op \in Ops, Next1.op = op
  PROVE  /\ Next1 = Step(op, Of) /\ Next1 \in Steps /\ Of = Next1.of /\ Next1 \in Todo
         /\ op = "deploy" => Of \in Artifacts
         /\ op = "impl" => Of \in Impls
         /\ op = "adapter" => Of \in AdapterConfigs(net)
         /\ op \notin {"deploy", "impl", "adapter"} => Of = None
<1>1. Next1 \in Steps /\ Next1 \in Todo
  BY TailFacts DEF Progress
<1>2. QED
  BY <1>1, StepForm DEF Steps, Of, Next1

LEMMA PassOverGoals ==
  ASSUME Types, Progress, Chained, PassOver, NEW x \in Promised, Achieves(x)
  PROVE  Goal(x)'
<1>1. Advances /\ UNCHANGED <<saved, abi, diamond, paymaster, run.base, source, net>>
  BY DEF PassOver, Advances, Advanced, Types, NoRun
<1>2. Goal(x)
  <2>1. SUFFICES ASSUME x = Next1
                 PROVE  Goal(x)
    BY DEF Achieves
  <2>2. x \in Steps /\ ~Applies(x)
    BY <2>1, PromisedSteps DEF PassOver, Next1
  <2>3. CASE x.op = "deploy"
    BY <2>2, <2>3 DEF Applies, NewlyDeployed, Goal
  <2>4. CASE x.op = "cut"
    <3>1. Matches
      BY <2>2, <2>4 DEF Applies, ChangesDetected, Matches, Facets
    <3>2. x = CutStep
      BY <2>2, <2>4, OpRanks
    <3>3. \A f \in Facets : saved[f].code = source[f] /\ source[f] > 0
      <4>1. run.todo # <<>> /\ Next1 = CutStep
        BY <2>1, <3>2 DEF PassOver
      <4>2. \A f \in Facets : saved[f] = Instance(f)
        BY <4>1, AtCut
      <4>3. \A f \in Facets : Instance(f).code = source[f]
        BY DEF Instance
      <4>4. \A a \in Artifacts : source[a] \in Nat /\ source[a] > 0
        BY BoundsAssumption DEF Types
      <4>5. QED
        BY <4>2, <4>3, <4>4, NamesKnown
    <3>4. "LoanFacet" \in Facets
      BY NamesKnown
    <3>5. Routed
      BY <3>1, <3>3, <3>4 DEF Routed, Matches
    <3>6. CutStep \in Todo
      BY <2>1, <3>2, TailFacts DEF PassOver, Progress
    <3>7. QED
      BY <2>4, <3>1, <3>2, <3>5, <3>6 DEF Goal, Chained, Settled
  <2>5. CASE x.op \in {"deployInit", "firstForwarder", "firstHub"}
    BY <2>5 DEF Goal
  <2>6. QED
    BY <2>2, <2>3, <2>4, <2>5 DEF Applies
<1>3. Untouched(x)
  BY <1>1 DEF Untouched
<1>4. QED
  BY <1>1, <1>2, <1>3, GoalUnmoved

LEMMA DeployGoals ==
  ASSUME Types, Progress, Deploy, NEW x \in Promised, Achieves(x)
  PROVE  Goal(x)'
<1>1. /\ Advances /\ run'.base = run.base /\ Next1.op = "deploy" /\ run.todo # <<>>
      /\ saved' = [saved EXCEPT ![Of] = Instance(Of)]
      /\ Of = "Voyage" \/ (UNCHANGED <<diamond, abi>>)
      /\ Of = "VoyagePaymaster" \/ UNCHANGED paymaster
  BY DEF Deploy, Takes, Advances, Advanced, Types, NoRun, Next1
<1>2. Next1 = Step("deploy", Of) /\ Of \in Artifacts /\ Next1 \in Steps /\ Next1.of = Of
  BY <1>1, NextIs DEF Ops
<1>3. Rank(Next1) = DeployRank(Of) /\ DeployRank(Of) <= 10
  BY <1>1, <1>2, OpRanks, RanksKnown
<1>4. x \in Steps /\ x.op \in Ops
  BY PromisedSteps, StepForm
<1>5. \A a \in Artifacts : saved'[a] = IF a = Of THEN Instance(Of) ELSE saved[a]
  BY <1>1 DEF Types
<1>6. CASE x = Next1
  <2>1. PICK a : a = Of
    OBVIOUS
  <2>2. a \in Artifacts /\ x.op = "deploy" /\ x.of = a
    BY <1>1, <1>2, <1>6, <2>1
  <2>3. saved'[a] = Instance(a)
    BY <1>5, <2>1, <2>2
  <2>4. Instance(a)' = Instance(a)
    <3>1. a \in BoundToVoyage => saved'["Voyage"] = saved["Voyage"]
      BY <1>5, <2>1, NamesKnown DEF BoundToVoyage
    <3>2. QED
      BY <1>1, <3>1 DEF Instance, Advances
  <2>5. QED
    BY <2>2, <2>3, <2>4 DEF Goal
<1>7. CASE x # Next1
  <2>1. Goal(x) /\ Rank(x) <= DeployRank(Of)
    BY <1>3, <1>7 DEF Achieves
  <2>2. CASE x.op = "deploy"
    <3>1. x.of \in Artifacts /\ x.of # Of /\ Rank(x) = DeployRank(x.of) /\ x.of \in Needed
      BY <1>2, <1>4, <1>7, <2>2, OpRanks, StepForm, PromisedDeploys
    <3>2. saved'[x.of] = saved[x.of]
      BY <1>5, <3>1
    <3>3. x.of \in BoundToVoyage => saved'["Voyage"] = saved["Voyage"]
      BY <1>5, <2>1, <3>1, RanksKnown, NamesKnown DEF BoundToVoyage
    <3>4. Instance(x.of)' = Instance(x.of)
      BY <1>1, <3>3 DEF Instance, Advances
    <3>5. QED
      BY <2>1, <2>2, <3>2, <3>4 DEF Goal
  <2>3. CASE x.op \in {"saveCoreABI", "readVoyage"}
    <3>1. Of # "Voyage"
      BY <1>4, <2>1, <2>3, OpRanks, RanksKnown
    <3>2. saved'["Voyage"] = saved["Voyage"] /\ abi' = abi
      BY <1>1, <1>5, <3>1, NamesKnown
    <3>3. Todo' \subseteq Todo /\ ReadStep' = ReadStep /\ CutStep' = CutStep /\ MergeStep' = MergeStep
      BY <1>1, TodoShrinks DEF ReadStep, CutStep, MergeStep, Step
    <3>4. QED
      BY <1>1, <2>1, <2>3, <3>2, <3>3 DEF Goal, CoreABI, Functions, CoreFacets
  <2>4. CASE x.op \in {"cut", "saveMergedABI"}
    <3>1. DeployRank(Of) > 5
      BY <1>2, <1>4, <2>1, <2>4, OpRanks, RanksKnown
    <3>2. Of # "Voyage" /\ Of \notin Facets /\ Of \notin Impls
      BY <3>1, RanksKnown
    <3>3. diamond' = diamond /\ abi' = abi /\ \A a \in Facets \cup Impls : saved'[a] = saved[a]
      BY <1>1, <1>5, <3>2, NamesKnown
    <3>4. FacetABIs' = FacetABIs
      <4>1. \A i \in DOMAIN FacetNames : FacetNames[i] \in Facets
        BY DEF Facets, ToSet
      <4>2. \A i \in DOMAIN FacetNames :
              [f \in {FacetNames[i]} |-> saved'[f].code] = [f \in {FacetNames[i]} |-> saved[f].code]
        BY <3>3, <4>1
      <4>3. QED
        BY <4>2 DEF FacetABIs, Functions
    <3>5. CoreABI' = CoreABI /\ MergedABI(FacetABIs)' = MergedABI(FacetABIs)
      BY <3>4 DEF CoreABI, Functions, CoreFacets, MergedABI
    <3>6. CASE x.op = "cut"
      <4>1. Matches /\ (run.kind = "fixture" => \A i \in Impls : diamond.impl[i] = saved[i])
        BY <2>1, <3>6 DEF Goal
      <4>2. Matches' /\ (run'.kind = "fixture" => \A i \in Impls : diamond'.impl[i] = saved'[i])
        BY <1>1, <3>3, <4>1 DEF Matches, Advances, Facets, FacetNames
      <4>3. QED
        BY <3>6, <4>2 DEF Goal
    <3>7. CASE x.op = "saveMergedABI"
      BY <2>1, <3>3, <3>5, <3>7 DEF Goal
    <3>8. QED
      BY <2>4, <3>6, <3>7
  <2>5. CASE x.op \in {"adapter", "impl", "gsn", "signer", "authorize"}
    <3>1. Rank(x) = 11
      BY <1>4, <2>5, OpRanks
    <3>2. DeployRank(Of) \in Nat
      BY <1>2, RanksKnown
    <3>3. QED
      BY <1>3, <2>1, <3>1, <3>2
  <2>6. CASE x.op \in {"deployInit", "firstForwarder", "firstHub", "forwarder"}
    BY <2>6 DEF Goal
  <2>7. QED
    BY <1>4, <2>2, <2>3, <2>4, <2>5, <2>6 DEF Ops
<1>8. QED
  BY <1>6, <1>7

\* Everything a step leaves alone but its own part of the state.
LEMMA Advanced1 ==
  ASSUME Types, run.todo # <<>>, UNCHANGED <<net, source>>, run' = Advanced
  PROVE  Advances /\ run'.base = run.base /\ run'.newPaymaster = run.newPaymaster /\ DOMAIN run' = DOMAIN run
BY DEF Advances, Advanced, Types, NoRun

LEMMA DiamondFields ==
  ASSUME Types
  PROVE  DOMAIN diamond = {"routes", "impl", "weth9", "adapters", "paymaster", "forwarder", "signer",
                           "configurators", "paused"}
BY DEF Types, FreshDiamond

LEMMA LowSteps ==
  ASSUME NEW x \in Steps, NEW r \in 3..7, Rank(x) <= r
  PROVE  \/ x.op = "deploy" \/ x = CoreStep \/ (x = ReadStep /\ r >= 4)
         \/ (x.op = "deployInit" /\ r >= 6) \/ (x = CutStep /\ r = 7)
<1>1. x.op \in Ops
  BY StepForm
<1>2. CASE x.op \in {"deploy", "saveCoreABI", "readVoyage", "cut"}
  BY <1>2, OpRanks
<1>3. CASE x.op = "deployInit"
  BY <1>3, OpRanks DEF OpRank
<1>4. CASE x.op \in {"saveMergedABI", "firstForwarder", "firstHub", "adapter", "impl", "gsn", "signer",
                     "forwarder", "authorize"}
  BY <1>4, OpRanks DEF OpRank
<1>5. QED
  BY <1>1, <1>2, <1>3, <1>4 DEF Ops

LEMMA SaveCoreABIGoals ==
  ASSUME Types, Progress, SaveCoreABI, NEW x \in Promised, Achieves(x)
  PROVE  Goal(x)'
<1>1. /\ Next1.op = "saveCoreABI" /\ run.todo # <<>> /\ abi' = CoreABI
      /\ UNCHANGED <<saved, diamond, paymaster>> /\ Advances
  BY Advanced1 DEF SaveCoreABI, Takes, Next1
<1>2. Next1 = CoreStep
  BY <1>1, TailFacts, OpRanks DEF Progress
<1>3. CASE x = Next1
  <2>1. x.op = "saveCoreABI" /\ CoreABI' = CoreABI
    BY <1>1, <1>3 DEF CoreABI, Functions, CoreFacets
  <2>2. QED
    BY <1>1, <2>1 DEF Goal
<1>4. CASE x # Next1
  <2>1. x.op = "deploy"
    BY <1>2, <1>4, LowSteps, PromisedSteps, RanksKnown DEF Achieves
  <2>2. Untouched(x)
    BY <1>1, <2>1 DEF Untouched
  <2>3. QED
    BY <1>1, <1>4, <2>2, GoalUnmoved DEF Achieves
<1>5. QED
  BY <1>3, <1>4

LEMMA ReadVoyageGoals ==
  ASSUME Types, Progress, ReadVoyage, NEW x \in Promised, Achieves(x)
  PROVE  Goal(x)'
<1>1. /\ Next1.op = "readVoyage" /\ run.todo # <<>> /\ run'.base = abi
      /\ UNCHANGED <<saved, abi, diamond, paymaster>> /\ Advances
      /\ Possible(Next1)
  BY DEF ReadVoyage, Takes, Next1, Types, NoRun, Advances, Advanced
<1>2. Next1 = ReadStep /\ Next1 \in Todo /\ saved["Voyage"] # None
  BY <1>1, TailFacts, OpRanks DEF Progress, Possible
<1>3. CASE x = Next1
  <2>1. MergeStep \in Todo' => abi = CoreABI
    <3>1. SUFFICES ASSUME MergeStep \in Todo'
                   PROVE  abi = CoreABI
      OBVIOUS
    <3>2. MergeStep \in Todo
      BY <1>1, <3>1, TodoShrinks DEF MergeStep, Step
    <3>3. Goal(CoreStep)
      BY <1>1, <1>2, <3>2, FacetsPromised, EarlierDone, RanksKnown
    <3>4. QED
      BY <1>2, <3>3 DEF Goal, CoreStep, Step
  <2>2. x.op = "readVoyage" /\ CoreABI' = CoreABI /\ MergeStep' = MergeStep
    BY <1>1, <1>3 DEF CoreABI, Functions, CoreFacets, MergeStep, Step
  <2>3. saved'["Voyage"] # None /\ (MergeStep' \in Todo' => run'.base = CoreABI')
    BY <1>1, <1>2, <2>1, <2>2
  <2>4. QED
    BY <2>2, <2>3 DEF Goal
<1>4. CASE x # Next1
  <2>1. x.op = "deploy" \/ x = CoreStep
    BY <1>2, <1>4, LowSteps, PromisedSteps, RanksKnown DEF Achieves
  <2>2. Untouched(x)
    BY <1>1, <2>1 DEF Untouched, CoreStep, Step
  <2>3. QED
    BY <1>1, <1>4, <2>2, GoalUnmoved DEF Achieves
<1>5. QED
  BY <1>3, <1>4

LEMMA DeployInitGoals ==
  ASSUME Types, Progress, DeployInit, NEW x \in Promised, Achieves(x)
  PROVE  Goal(x)'
<1>1. /\ Next1.op = "deployInit" /\ run.todo # <<>>
      /\ saved' = [saved EXCEPT !["InitDiamond"] = Instance("InitDiamond")]
      /\ UNCHANGED <<abi, diamond, paymaster>> /\ Advances /\ run'.base = run.base
  BY Advanced1 DEF DeployInit, Takes, Next1
<1>2. Next1 \in Steps /\ Rank(Next1) = 6
  BY <1>1, TailFacts, OpRanks DEF Progress, OpRank
<1>3. \A a \in Artifacts : a # "InitDiamond" => saved'[a] = saved[a]
  BY <1>1 DEF Types
<1>4. CASE x = Next1
  BY <1>1, <1>4 DEF Goal
<1>5. CASE x # Next1
  <2>1. x \in Steps /\ Goal(x)
    BY <1>5, PromisedSteps DEF Achieves
  <2>2. x.op = "deploy" \/ x = CoreStep \/ x = ReadStep \/ x.op = "deployInit"
    BY <1>2, <1>5, LowSteps, PromisedSteps DEF Achieves
  <2>3. saved'["Voyage"] = saved["Voyage"]
    BY <1>3, NamesKnown
  <2>4. CASE x.op = "deploy"
    <3>1. x.of \in Needed
      BY <2>4, PromisedDeploys
    <3>2. saved'[x.of] = saved[x.of]
      BY <1>3, <3>1, NamesKnown DEF Needed, Impls, MarketAdapters
    <3>3. Instance(x.of)' = Instance(x.of)
      BY <1>1, <2>3 DEF Instance, Advances
    <3>4. QED
      BY <2>1, <2>4, <3>2, <3>3 DEF Goal
  <2>5. CASE x = CoreStep
    <3>1. Untouched(x)
      BY <1>1, <2>5 DEF Untouched, CoreStep, Step
    <3>2. QED
      BY <1>1, <2>1, <3>1, GoalUnmoved
  <2>6. CASE x = ReadStep
    <3>1. x.op = "readVoyage" /\ CoreABI' = CoreABI /\ MergeStep' = MergeStep /\ Todo' \subseteq Todo
      BY <1>1, <2>6, TodoShrinks DEF CoreABI, Functions, CoreFacets, MergeStep, ReadStep, Step
    <3>2. QED
      BY <1>1, <2>1, <2>3, <3>1 DEF Goal
  <2>7. CASE x.op = "deployInit"
    BY <2>7 DEF Goal
  <2>8. QED
    BY <2>2, <2>4, <2>5, <2>6, <2>7
<1>6. QED
  BY <1>4, <1>5

LEMMA CutEffect ==
  ASSUME Types, Progress, Chained, Cut
  PROVE  /\ Next1 = CutStep /\ CutStep \in Todo /\ run.todo # <<>> /\ Advances /\ run'.base = run.base
         /\ UNCHANGED <<saved, abi, paymaster>>
         /\ DOMAIN diamond' = DOMAIN diamond /\ DOMAIN diamond'.routes = Facets /\ DOMAIN diamond'.impl = Impls
         /\ \A f \in Facets : diamond'.routes[f] = saved[f].code
         /\ \A i \in Impls : diamond'.impl[i] = IF diamond.impl[i] = None THEN saved[i] ELSE diamond.impl[i]
         /\ diamond'.weth9 = GetWETH9(net) /\ diamond'.paused = FALSE
         /\ ChangesDetected
<1>1. /\ Next1.op = "cut" /\ run.todo # <<>> /\ diamond' = AfterCut /\ Applies(Next1)
      /\ UNCHANGED <<saved, abi, paymaster>> /\ Advances /\ run'.base = run.base
  BY Advanced1 DEF Cut, OnDiamond, Takes, Next1
<1>2. Next1 = CutStep /\ Next1 \in Todo
  BY <1>1, TailFacts, OpRanks DEF Progress
<1>3. PICK d : d = [diamond EXCEPT !.routes = [f \in DOMAIN diamond.routes |-> saved[f].code]]
  OBVIOUS
<1>4. /\ DOMAIN d = DOMAIN diamond /\ d.routes = [f \in Facets |-> saved[f].code] /\ d.impl = diamond.impl
  BY <1>3, DiamondFields DEF Types
<1>5. diamond' = [d EXCEPT !.weth9 = GetWETH9(net), !.paused = FALSE,
            !.impl = [i \in Impls |-> IF d.impl[i] = None THEN saved[i] ELSE d.impl[i]]]
  BY <1>1, <1>3 DEF AfterCut, Initialised
<1>6. /\ DOMAIN diamond' = DOMAIN diamond /\ diamond'.routes = [f \in Facets |-> saved[f].code]
      /\ diamond'.impl = [i \in Impls |-> IF diamond.impl[i] = None THEN saved[i] ELSE diamond.impl[i]]
      /\ diamond'.weth9 = GetWETH9(net) /\ diamond'.paused = FALSE
  BY <1>4, <1>5, DiamondFields
<1>7. ChangesDetected
  BY <1>1 DEF Applies
<1>8. QED
  BY <1>1, <1>2, <1>6, <1>7

LEMMA CutGoals ==
  ASSUME Types, Progress, Chained, Cut, NEW x \in Promised, Achieves(x)
  PROVE  Goal(x)'
<1>1. CASE x = Next1
  <2>1. x.op = "cut"
    BY <1>1, CutEffect DEF CutStep, Step
  <2>2. Matches'
    BY CutEffect DEF Matches, Facets, FacetNames
  <2>3. run'.kind = "fixture" => \A i \in Impls : diamond'.impl[i] = saved'[i]
    BY CutEffect DEF Chained, Advances, Settled, Goal, CutStep, Step
  <2>4. QED
    BY <2>1, <2>2, <2>3 DEF Goal, Impls
<1>2. CASE x # Next1
  <2>1. x.op = "deploy" \/ x = CoreStep \/ x = ReadStep \/ x.op = "deployInit"
    BY <1>2, CutEffect, LowSteps, PromisedSteps, RanksKnown DEF Achieves
  <2>2. Untouched(x)
    BY CutEffect, <2>1 DEF Untouched, CoreStep, ReadStep, Step
  <2>3. QED
    BY CutEffect, <1>2, <2>2, GoalUnmoved DEF Achieves
<1>3. QED
  BY <1>1, <1>2

LEMMA SaveMergedEffect ==
  ASSUME Types, Progress, SaveMergedABI
  PROVE  /\ Next1 = MergeStep /\ run.todo # <<>> /\ Advances /\ run'.base = run.base
         /\ UNCHANGED <<saved, diamond, paymaster>>
         /\ abi' = CoreABI \cup MergedABI(FacetABIs)
<1>1. /\ Next1.op = "saveMergedABI" /\ run.todo # <<>> /\ abi' = MergedABI(<<run.base>> \o FacetABIs)
      /\ UNCHANGED <<saved, diamond, paymaster>> /\ Advances /\ run'.base = run.base
  BY Advanced1 DEF SaveMergedABI, Takes, Next1
<1>2. Next1 = MergeStep
  BY <1>1, TailFacts, OpRanks DEF Progress
<1>3. QED
  BY <1>1, <1>2, AtMerge, ABIsKnown

LEMMA SaveMergedABIGoals ==
  ASSUME Types, Progress, SaveMergedABI, NEW x \in Promised, Achieves(x)
  PROVE  Goal(x)'
<1>1. FacetABIs' = FacetABIs /\ CoreABI' = CoreABI
  BY SaveMergedEffect DEF FacetABIs, CoreABI, Functions, FacetNames, CoreFacets
<1>2. MergedABI(FacetABIs)' = MergedABI(FacetABIs)
  BY <1>1 DEF MergedABI
<1>3. x \in Steps /\ x.op \in Ops /\ Rank(x) <= 8
  <2>1. Rank(Next1) = 8
    BY SaveMergedEffect, RanksKnown
  <2>2. QED
    BY <2>1, PromisedSteps, StepForm DEF Achieves
<1>4. CASE x.op = "saveMergedABI"
  BY <1>1, <1>2, <1>4, SaveMergedEffect DEF Goal
<1>5. CASE x.op = "saveCoreABI"
  <2>1. \A y \in Todo : 8 <= Rank(y)
    BY SaveMergedEffect, TailFacts, RanksKnown DEF Progress
  <2>2. ReadStep \notin Todo' /\ CutStep \notin Todo' /\ ReadStep' = ReadStep /\ CutStep' = CutStep
    BY <2>1, SaveMergedEffect, TodoShrinks, RanksKnown DEF ReadStep, CutStep, Step
  <2>3. QED
    BY <1>5, <2>2 DEF Goal
<1>6. CASE x.op \notin {"saveMergedABI", "saveCoreABI"}
  <2>1. Goal(x)
    BY <1>6, SaveMergedEffect DEF Achieves, MergeStep, Step
  <2>2. Untouched(x)
    BY <1>6, SaveMergedEffect DEF Untouched
  <2>3. QED
    BY <2>1, <2>2, SaveMergedEffect, GoalUnmoved
<1>7. QED
  BY <1>4, <1>5, <1>6

LEMMA SetTrustedForwarderGoals ==
  ASSUME Types, Progress, SetTrustedForwarder, NEW x \in Promised, Achieves(x)
  PROVE  Goal(x)'
<1>1. /\ Next1.op \in {"firstForwarder", "forwarder"} /\ run.todo # <<>>
      /\ paymaster' = [paymaster EXCEPT !.forwarder = GetTrustedForwarder(net)]
      /\ UNCHANGED <<saved, abi, diamond>> /\ Advances /\ run'.base = run.base
  BY Advanced1 DEF SetTrustedForwarder, Takes, Next1
<1>2. paymaster'.forwarder = GetTrustedForwarder(net)
  BY <1>1 DEF Types
<1>3. CASE x = Next1
  BY <1>1, <1>3 DEF Goal
<1>4. CASE x # Next1
  <2>1. CASE x.op = "gsn"
    BY <1>1, <1>2, <1>4, <2>1 DEF Goal, Achieves, Advances
  <2>2. CASE x.op # "gsn"
    <3>1. Untouched(x)
      BY <1>1, <2>2 DEF Untouched
    <3>2. QED
      BY <1>1, <1>4, <3>1, GoalUnmoved DEF Achieves
  <2>3. QED
    BY <2>1, <2>2
<1>5. QED
  BY <1>3, <1>4

LEMMA SetRelayHubGoals ==
  ASSUME Types, Progress, SetRelayHub, NEW x \in Promised, Achieves(x)
  PROVE  Goal(x)'
<1>1. /\ Next1.op = "firstHub" /\ run.todo # <<>>
      /\ paymaster' = [paymaster EXCEPT !.hub = GetRelayHub(net)]
      /\ UNCHANGED <<saved, abi, diamond>> /\ Advances /\ run'.base = run.base
  BY Advanced1 DEF SetRelayHub, Takes, Next1
<1>2. paymaster'.forwarder = paymaster.forwarder
  BY <1>1 DEF Types
<1>3. CASE x = Next1
  BY <1>1, <1>3 DEF Goal
<1>4. CASE x # Next1
  <2>1. Untouched(x)
    BY <1>1, <1>2 DEF Untouched
  <2>2. QED
    BY <1>1, <1>4, <2>1, GoalUnmoved DEF Achieves
<1>5. QED
  BY <1>3, <1>4

LEMMA SetImplGoals ==
  ASSUME Types, Progress, SetImpl, NEW x \in Promised, Achieves(x)
  PROVE  Goal(x)'
<1>1. /\ Next1.op = "impl" /\ run.todo # <<>>
      /\ diamond' = [diamond EXCEPT !.impl[Of] = saved[Of]]
      /\ UNCHANGED <<saved, abi, paymaster>> /\ Advances /\ run'.base = run.base
  BY Advanced1 DEF SetImpl, OnDiamond, Takes, Next1
<1>2. Of \in Impls /\ Next1.of = Of
  BY <1>1, NextIs DEF Ops
<1>3. /\ \A i \in Impls : diamond'.impl[i] = IF i = Of THEN saved[i] ELSE diamond.impl[i]
      /\ diamond'.routes = diamond.routes /\ diamond'.signer = diamond.signer
      /\ diamond'.paymaster = diamond.paymaster /\ diamond'.forwarder = diamond.forwarder
      /\ diamond'.adapters = diamond.adapters /\ diamond'.configurators = diamond.configurators
  <2>1. diamond'.impl = [diamond.impl EXCEPT ![Of] = saved[Of]]
    BY <1>1, DiamondFields
  <2>2. \A i \in Impls : diamond'.impl[i] = IF i = Of THEN saved[i] ELSE diamond.impl[i]
    BY <2>1, <1>2 DEF Types
  <2>3. QED
    BY <1>1, <2>2, DiamondFields
<1>4. x \in Steps
  BY PromisedSteps
<1>5. CASE x.op = "impl"
  <2>1. x.of \in Impls /\ (x = Next1 => x.of = Of) /\ (x # Next1 => diamond.impl[x.of] = saved[x.of])
    BY <1>2, <1>4, <1>5 DEF Steps, Achieves, Goal
  <2>2. diamond'.impl[x.of] = saved'[x.of]
    BY <1>1, <1>3, <2>1
  <2>3. QED
    BY <1>5, <2>2 DEF Goal
<1>6. CASE x.op = "cut"
  <2>1. Matches /\ (run.kind = "fixture" => \A i \in Impls : diamond.impl[i] = saved[i])
    BY <1>1, <1>6 DEF Achieves, Goal
  <2>2. Matches' /\ (run'.kind = "fixture" => \A i \in Impls : diamond'.impl[i] = saved'[i])
    BY <1>1, <1>3, <2>1 DEF Matches, Advances, Facets, FacetNames
  <2>3. QED
    BY <1>6, <2>2 DEF Goal, Impls
<1>7. CASE x.op \notin {"impl", "cut"}
  <2>1. Goal(x) /\ Untouched(x)
    BY <1>1, <1>3, <1>7 DEF Achieves, Untouched
  <2>2. QED
    BY <1>1, <2>1, GoalUnmoved
<1>8. QED
  BY <1>5, <1>6, <1>7

LEMMA SetGSNConfigurationGoals ==
  ASSUME Types, Progress, SetGSNConfiguration, NEW x \in Promised, Achieves(x)
  PROVE  Goal(x)'
<1>1. /\ Next1.op = "gsn" /\ run.todo # <<>> /\ Possible(Next1)
      /\ diamond' = [diamond EXCEPT !.paymaster = saved["VoyagePaymaster"],
                                    !.forwarder = GetTrustedForwarder(net)]
      /\ UNCHANGED <<saved, abi, paymaster>> /\ Advances /\ run'.base = run.base
  BY Advanced1 DEF SetGSNConfiguration, OnDiamond, Takes, Next1
<1>2. paymaster.forwarder = GetTrustedForwarder(net)
  BY <1>1 DEF Possible
<1>3. /\ diamond'.paymaster = saved["VoyagePaymaster"] /\ diamond'.forwarder = GetTrustedForwarder(net)
      /\ diamond'.routes = diamond.routes /\ diamond'.signer = diamond.signer
      /\ diamond'.impl = diamond.impl
      /\ diamond'.adapters = diamond.adapters /\ diamond'.configurators = diamond.configurators
  BY <1>1, DiamondFields
<1>4. CASE x.op = "gsn"
  BY <1>1, <1>2, <1>3, <1>4 DEF Goal, Advances
<1>5. CASE x.op # "gsn"
  <2>1. Goal(x) /\ Untouched(x)
    BY <1>1, <1>3, <1>5 DEF Achieves, Untouched
  <2>2. QED
    BY <1>1, <2>1, GoalUnmoved
<1>6. QED
  BY <1>4, <1>5

LEMMA SetOracleSignerGoals ==
  ASSUME Types, Progress, SetOracleSigner, NEW x \in Promised, Achieves(x)
  PROVE  Goal(x)'
<1>1. /\ Next1.op = "signer" /\ run.todo # <<>>
      /\ diamond' = [diamond EXCEPT !.signer = GetTwapSigner(net)]
      /\ UNCHANGED <<saved, abi, paymaster>> /\ Advances /\ run'.base = run.base
  BY Advanced1 DEF SetOracleSigner, OnDiamond, Takes, Next1
<1>2. /\ diamond'.signer = GetTwapSigner(net)
      /\ diamond'.paymaster = diamond.paymaster /\ diamond'.forwarder = diamond.forwarder
      /\ diamond'.routes = diamond.routes /\ diamond'.impl = diamond.impl
      /\ diamond'.adapters = diamond.adapters /\ diamond'.configurators = diamond.configurators
  BY <1>1, DiamondFields
<1>3. CASE x.op = "signer"
  BY <1>1, <1>2, <1>3 DEF Goal, Advances
<1>4. CASE x.op # "signer"
  <2>1. Goal(x) /\ Untouched(x)
    BY <1>1, <1>2, <1>4 DEF Achieves, Untouched
  <2>2. QED
    BY <1>1, <2>1, GoalUnmoved
<1>5. QED
  BY <1>3, <1>4

LEMMA AuthorizeConfiguratorGoals ==
  ASSUME Types, Progress, AuthorizeConfigurator, NEW x \in Promised, Achieves(x)
  PROVE  Goal(x)'
<1>1. /\ Next1.op = "authorize" /\ run.todo # <<>>
      /\ diamond' = [diamond EXCEPT !.configurators = @ \cup {saved["VoyageReserveConfigurator"]}]
      /\ UNCHANGED <<saved, abi, paymaster>> /\ Advances /\ run'.base = run.base
  BY Advanced1 DEF AuthorizeConfigurator, OnDiamond, Takes, Next1
<1>2. /\ diamond'.configurators = diamond.configurators \cup {saved["VoyageReserveConfigurator"]}
      /\ diamond'.paymaster = diamond.paymaster /\ diamond'.forwarder = diamond.forwarder
      /\ diamond'.routes = diamond.routes /\ diamond'.impl = diamond.impl
      /\ diamond'.adapters = diamond.adapters /\ diamond'.signer = diamond.signer
  BY <1>1, DiamondFields
<1>3. CASE x.op = "authorize"
  BY <1>1, <1>2, <1>3 DEF Goal
<1>4. CASE x.op # "authorize"
  <2>1. Goal(x) /\ Untouched(x)
    BY <1>1, <1>2, <1>4 DEF Achieves, Untouched
  <2>2. QED
    BY <1>1, <2>1, GoalUnmoved
<1>5. QED
  BY <1>3, <1>4

LEMMA UpdateMarketPlaceDataGoals ==
  ASSUME Types, Progress, UpdateMarketPlaceData, NEW x \in Promised, Achieves(x)
  PROVE  Goal(x)'
<1>1. /\ Next1.op = "adapter" /\ run.todo # <<>> /\ Possible(Next1)
      /\ diamond' = [diamond EXCEPT !.adapters = [m \in DOMAIN @ \cup {Of.marketplace} |->
                                      IF m = Of.marketplace THEN saved[Of.adapter] ELSE @[m]]]
      /\ UNCHANGED <<saved, abi, paymaster>> /\ Advances /\ run'.base = run.base
  BY Advanced1 DEF UpdateMarketPlaceData, OnDiamond, Takes, Next1
<1>2. Of \in AdapterConfigs(net) /\ Of.marketplace # None /\ Next1.of = Of
  BY <1>1, NextIs DEF Ops, Possible
<1>3. /\ diamond'.adapters = [m \in DOMAIN diamond.adapters \cup {Of.marketplace} |->
                             IF m = Of.marketplace THEN saved[Of.adapter] ELSE diamond.adapters[m]]
      /\ diamond'.paymaster = diamond.paymaster /\ diamond'.forwarder = diamond.forwarder
      /\ diamond'.routes = diamond.routes /\ diamond'.impl = diamond.impl
      /\ diamond'.configurators = diamond.configurators /\ diamond'.signer = diamond.signer
  BY <1>1, DiamondFields
<1>4. /\ DOMAIN diamond'.adapters = {Of.marketplace} \cup DOMAIN diamond.adapters
      /\ diamond'.adapters[Of.marketplace] = saved[Of.adapter]
      /\ \A m \in DOMAIN diamond.adapters : m # Of.marketplace => diamond'.adapters[m] = diamond.adapters[m]
  BY <1>3
<1>5. CASE x.op = "adapter"
  <2>1. x.of \in AdapterConfigs(net) /\ (x = Next1 => x.of = Of)
    BY <1>2, <1>5, PromisedSteps DEF Steps
  <2>2. x # Next1 => /\ x.of.marketplace \in DOMAIN diamond.adapters
                     /\ diamond.adapters[x.of.marketplace] = saved[x.of.adapter]
    BY <1>5 DEF Achieves, Goal
  <2>3. x.of.marketplace = Of.marketplace => x.of.adapter = Of.adapter
    BY <1>2, <2>1, ConfigsKnown DEF AdapterConfigs
  <2>4. /\ x.of.marketplace \in DOMAIN diamond'.adapters
        /\ diamond'.adapters[x.of.marketplace] = saved'[x.of.adapter]
    <3>1. CASE x.of.marketplace = Of.marketplace
      BY <1>1, <1>4, <2>3, <3>1
    <3>2. CASE x.of.marketplace # Of.marketplace
      BY <1>1, <1>4, <2>1, <2>2, <3>2
    <3>3. QED
      BY <3>1, <3>2
  <2>5. QED
    BY <1>5, <2>4 DEF Goal
<1>6. CASE x.op # "adapter"
  <2>1. Goal(x) /\ Untouched(x)
    BY <1>1, <1>3, <1>6 DEF Achieves, Untouched
  <2>2. QED
    BY <1>1, <2>1, GoalUnmoved
<1>7. QED
  BY <1>5, <1>6

(***************************************************************************)
(* A step of a run, other than its end.                                    *)
(***************************************************************************)
Working ==
  \/ Deploy \/ SaveCoreABI \/ ReadVoyage \/ DeployInit \/ Cut \/ SaveMergedABI
  \/ SetTrustedForwarder \/ SetRelayHub \/ UpdateMarketPlaceData \/ SetImpl
  \/ SetGSNConfiguration \/ SetOracleSigner \/ AuthorizeConfigurator \/ PassOver

LEMMA WorkingGoals ==
  ASSUME Types, Progress, Chained, Working, NEW x \in Promised, Achieves(x)
  PROVE  Goal(x)'
BY DeployGoals, SaveCoreABIGoals, ReadVoyageGoals, DeployInitGoals, CutGoals, SaveMergedABIGoals,
   SetTrustedForwarderGoals, SetRelayHubGoals, UpdateMarketPlaceDataGoals, SetImplGoals,
   SetGSNConfigurationGoals, SetOracleSignerGoals, AuthorizeConfiguratorGoals, PassOverGoals
   DEF Working

LEMMA WorkingAdvances ==
  ASSUME Types, Working
  PROVE  /\ Advances /\ DOMAIN run' = DOMAIN run /\ run' # NoRun
         /\ UNCHANGED <<net, source, completed, releases, crashes, extras>>
         /\ run.kind # "none" /\ completed = "none"
<1>1. run.todo # <<>> /\ UNCHANGED <<net, source, completed, releases, crashes, extras>>
  BY DEF Working, Deploy, SaveCoreABI, ReadVoyage, DeployInit, Cut, SaveMergedABI, SetTrustedForwarder,
         SetRelayHub, UpdateMarketPlaceData, SetImpl, SetGSNConfiguration, SetOracleSigner,
         AuthorizeConfigurator, PassOver, Takes
<1>2. run.kind # "none" /\ completed = "none"
  BY <1>1 DEF Types, Idle
<1>3. Advances /\ DOMAIN run' = DOMAIN run
  <2>1. CASE Deploy
    BY <1>1, <2>1 DEF Deploy, Advanced, Advances, Types, NoRun
  <2>2. CASE ReadVoyage
    BY <1>1, <2>2 DEF ReadVoyage, Advanced, Advances, Types, NoRun
  <2>3. CASE run' = Advanced
    BY <1>1, <2>3, Advanced1
  <2>4. QED
    BY <2>1, <2>2, <2>3 DEF Working, SaveCoreABI, DeployInit, Cut, SaveMergedABI, SetTrustedForwarder,
         SetRelayHub, UpdateMarketPlaceData, SetImpl, SetGSNConfiguration, SetOracleSigner,
         AuthorizeConfigurator, PassOver, OnDiamond
<1>4. run' # NoRun
  BY <1>2, <1>3 DEF Advances, NoRun
<1>5. QED
  BY <1>1, <1>2, <1>3, <1>4

LEMMA WorkingProgress ==
  ASSUME Types, Progress, Chained, Working
  PROVE  Progress' /\ Todo' \subseteq Todo
BY WorkingAdvances, WorkingGoals, TailKeeps DEF Advances

\* What a step may change.
LEMMA WorkingDiamond ==
  ASSUME Types, Progress, Chained, Working
  PROVE  \/ Cut
         \/ (Deploy /\ Of = "Voyage")
         \/ /\ diamond'.routes = diamond.routes /\ diamond'.weth9 = diamond.weth9
            /\ diamond'.paused = diamond.paused /\ DOMAIN diamond' = DOMAIN diamond
            /\ SetImpl \/ diamond'.impl = diamond.impl
BY DiamondFields
   DEF Working, Deploy, SaveCoreABI, ReadVoyage, DeployInit, SaveMergedABI, SetTrustedForwarder,
       SetRelayHub, UpdateMarketPlaceData, SetImpl, SetGSNConfiguration, SetOracleSigner,
       AuthorizeConfigurator, PassOver, OnDiamond

LEMMA WorkingSaved ==
  ASSUME Types, Progress, Chained, Working
  PROVE  /\ DOMAIN saved' = Artifacts
         /\ \/ UNCHANGED saved
            \/ \E a \in Artifacts :
                 /\ saved' = [saved EXCEPT ![a] = Instance(a)]
                 /\ (Deploy /\ a = Of) \/ (DeployInit /\ a = "InitDiamond")
<1>1. CASE Deploy
  <2>1. Next1.op = "deploy" /\ run.todo # <<>> /\ saved' = [saved EXCEPT ![Of] = Instance(Of)]
    BY <1>1 DEF Deploy, Takes, Next1
  <2>2. Of \in Artifacts
    BY <2>1, NextIs DEF Ops
  <2>3. QED
    BY <1>1, <2>1, <2>2 DEF Types
<1>2. CASE DeployInit
  BY <1>2, NamesKnown DEF DeployInit, Types
<1>3. CASE UNCHANGED saved
  BY <1>3 DEF Types
<1>4. QED
  BY <1>1, <1>2, <1>3
     DEF Working, SaveCoreABI, ReadVoyage, Cut, SaveMergedABI, SetTrustedForwarder,
         SetRelayHub, UpdateMarketPlaceData, SetImpl, SetGSNConfiguration, SetOracleSigner,
         AuthorizeConfigurator, PassOver, OnDiamond

LEMMA WorkingABI ==
  ASSUME Types, Progress, Chained, Working
  PROVE  \/ UNCHANGED abi
         \/ (Deploy /\ Of = "Voyage" /\ abi' = {})
         \/ (SaveCoreABI /\ abi' = CoreABI)
         \/ SaveMergedABI
BY DEF Working, Deploy, SaveCoreABI, ReadVoyage, DeployInit, Cut, SaveMergedABI, SetTrustedForwarder,
       SetRelayHub, UpdateMarketPlaceData, SetImpl, SetGSNConfiguration, SetOracleSigner,
       AuthorizeConfigurator, PassOver, OnDiamond

LEMMA SourceKnown ==
  ASSUME Types, NEW a \in Artifacts
  PROVE  source[a] \in Nat /\ source[a] >= 1 /\ source[a] \in 1..source[a] /\ source[a] \in 0..source[a]
<1>1. source[a] \in 1..releases + 1 /\ releases \in Nat
  BY BoundsAssumption DEF Types
<1>2. QED
  BY <1>1

LEMMA FreshKnown ==
  /\ DOMAIN FreshDiamond.routes = Facets /\ \A f \in Facets : FreshDiamond.routes[f] = 0
  /\ DOMAIN FreshDiamond.impl = Impls /\ \A i \in Impls : FreshDiamond.impl[i] = None
  /\ FreshDiamond.paused = FALSE
BY DEF FreshDiamond, Facets

LEMMA WorkingTypes ==
  ASSUME Types, Progress, Chained, Working
  PROVE  Types'
<1>1. UNCHANGED <<net, source, completed, releases>> /\ run'.kind = run.kind /\ run.kind # "none"
      /\ completed = "none" /\ DOMAIN run' = DOMAIN run
  BY WorkingAdvances DEF Advances
<1>2. ASSUME NEW a \in Artifacts
      PROVE  saved'[a] = None \/ (saved'[a].name = a /\ saved'[a].code \in 1..source[a])
  <2>1. saved'[a] = saved[a] \/ saved'[a] = Instance(a)
    BY WorkingSaved DEF Types
  <2>2. Instance(a).name = a /\ Instance(a).code = source[a]
    BY DEF Instance
  <2>3. QED
    BY <2>1, <2>2, SourceKnown DEF Types
<1>3. /\ DOMAIN diamond' = DOMAIN FreshDiamond /\ diamond'.paused \in BOOLEAN
      /\ DOMAIN diamond'.routes = Facets /\ \A f \in Facets : diamond'.routes[f] \in 0..source[f]
      /\ DOMAIN diamond'.impl = Impls
      /\ \A i \in Impls : diamond'.impl[i] = None \/ diamond'.impl[i].name = i
  <2>1. CASE Cut
    <3>1. \A f \in Facets : saved[f].code = source[f]
      <4>1. run.todo # <<>> /\ Next1 = CutStep
        BY <2>1, CutEffect
      <4>2. \A f \in Facets : saved[f] = Instance(f)
        BY <4>1, AtCut
      <4>3. \A f \in Facets : Instance(f).code = source[f]
        BY DEF Instance
      <4>4. QED
        BY <4>2, <4>3
    <3>2. \A f \in Facets : diamond'.routes[f] \in 0..source[f]
      BY <2>1, <3>1, CutEffect, SourceKnown, NamesKnown
    <3>3. \A i \in Impls : diamond'.impl[i] = None \/ diamond'.impl[i].name = i
      BY <2>1, CutEffect, NamesKnown DEF Types
    <3>4. QED
      BY <2>1, <3>2, <3>3, CutEffect DEF Types
  <2>2. CASE Deploy /\ Of = "Voyage"
    <3>1. diamond' = FreshDiamond
      BY <2>2 DEF Deploy
    <3>2. \A f \in Facets : diamond'.routes[f] \in 0..source[f]
      BY <3>1, FreshKnown, SourceKnown, NamesKnown
    <3>3. diamond'.paused \in BOOLEAN /\ DOMAIN diamond' = DOMAIN FreshDiamond
      BY <3>1, FreshKnown
    <3>4. QED
      BY <3>1, <3>2, <3>3, FreshKnown
  <2>3. CASE diamond'.impl = diamond.impl /\ diamond'.routes = diamond.routes
             /\ diamond'.paused = diamond.paused /\ DOMAIN diamond' = DOMAIN diamond
    BY <2>3 DEF Types
  <2>4. CASE SetImpl /\ diamond'.routes = diamond.routes
             /\ diamond'.paused = diamond.paused /\ DOMAIN diamond' = DOMAIN diamond
    <3>1. run.todo # <<>> /\ Next1.op = "impl" /\ diamond' = [diamond EXCEPT !.impl[Of] = saved[Of]]
      BY <2>4 DEF SetImpl, Takes, OnDiamond, Next1
    <3>2. Of \in Impls
      BY <3>1, NextIs DEF Ops
    <3>3. diamond'.impl = [diamond.impl EXCEPT ![Of] = saved[Of]]
      BY <3>1, DiamondFields
    <3>4. DOMAIN diamond'.impl = Impls /\ \A i \in Impls : diamond'.impl[i] \in {diamond.impl[i], saved[i]}
      BY <3>2, <3>3 DEF Types
    <3>5. QED
      BY <2>4, <3>4, NamesKnown DEF Types
  <2>5. QED
    BY <2>1, <2>2, <2>3, <2>4, WorkingDiamond
<1>4. DOMAIN paymaster' = {"forwarder", "hub"}
  <2>1. paymaster' = paymaster \/ paymaster' = FreshPaymaster \/ SetTrustedForwarder \/ SetRelayHub
    BY DEF Working, Deploy, SaveCoreABI, ReadVoyage, DeployInit, Cut, SaveMergedABI,
       UpdateMarketPlaceData, SetImpl, SetGSNConfiguration, SetOracleSigner,
       AuthorizeConfigurator, PassOver, OnDiamond
  <2>2. QED
    BY <2>1 DEF SetTrustedForwarder, SetRelayHub, FreshPaymaster, Types
<1>5. \A x \in abi' : x.fn \in CoreFacets \cup Facets
  <2>1. CASE SaveMergedABI
    BY <2>1, SaveMergedEffect, ABIsKnown
  <2>2. CASE ~SaveMergedABI
    BY <2>2, WorkingABI, ABIsKnown DEF Types
  <2>3. QED
    BY <2>1, <2>2
<1>6. FreshDiamond' = FreshDiamond /\ Facets' = Facets /\ Impls' = Impls /\ Artifacts' = Artifacts
      /\ CoreFacets' = CoreFacets /\ NoRun' = NoRun
  BY DEF FreshDiamond, Facets, Impls, Artifacts, CoreFacets, NoRun, FacetNames, MockNames
<1>7. QED
  BY <1>1, <1>2, <1>3, <1>4, <1>5, <1>6, WorkingSaved DEF Types, Idle, Kinds

LEMMA WorkingChained ==
  ASSUME Types, Progress, Chained, Working
  PROVE  Chained'
<1>1. SavedABINeverStale'
  <2>1. CASE Deploy /\ Of = "Voyage"
    BY <2>1 DEF Deploy, SavedABINeverStale
  <2>2. CASE Cut
    BY <2>2, CutEffect, AtCut, ABIsKnown DEF SavedABINeverStale, CoreFacets
  <2>3. CASE SaveMergedABI
    <3>1. ASSUME NEW y \in abi'
          PROVE  y.fn \in CoreFacets \/ diamond'.routes[y.fn] = y.code
      <4>1. y \in CoreABI \/ \E f \in Facets : y = [fn |-> f, code |-> saved[f].code]
        BY <2>3, SaveMergedEffect, ABIsKnown
      <4>2. diamond' = diamond /\ Matches
        BY <2>3, SaveMergedEffect, AtMerge
      <4>3. QED
        BY <4>1, <4>2, ABIsKnown DEF Matches
    <3>2. QED
      BY <3>1 DEF SavedABINeverStale, CoreFacets
  <2>4. CASE ~Cut /\ ~(Deploy /\ Of = "Voyage") /\ ~SaveMergedABI
    <3>1. diamond'.routes = diamond.routes /\ (UNCHANGED abi \/ abi' = CoreABI)
      BY <2>4, WorkingDiamond, WorkingABI
    <3>2. QED
      BY <3>1, ABIsKnown DEF Chained, SavedABINeverStale, CoreFacets
  <2>5. QED
    BY <2>1, <2>2, <2>3, <2>4
<1>2. UNCHANGED net /\ run'.kind = run.kind /\ Todo' \subseteq Todo
  BY WorkingAdvances, WorkingProgress DEF Advances
<1>3. Facets' = Facets /\ CutStep' = CutStep /\ Impls' = Impls
  BY DEF Facets, FacetNames, CutStep, Step, Impls
<1>4. ASSUME Settled(CutStep), run.kind = "fixture", CutStep \in Todo'
      PROVE  Settled(CutStep)'
  <2>1. CutStep \in Promised
    BY <1>4 DEF Promised, Required, CommonSteps, FacetSteps
  <2>2. Goal(CutStep)'
    <3>1. Next1 \in Todo
      BY TailFacts, WorkingAdvances DEF Progress, Advances
    <3>2. Achieves(CutStep)
      BY <1>4, <3>1 DEF Achieves, Settled
    <3>3. \A x \in Promised : Achieves(x) => Goal(x)'
      BY WorkingGoals
    <3>4. CASE CutStep = Next1
      BY <2>1, <3>2, <3>3, <1>3
    <3>5. QED
      BY <2>1, <3>2, <3>3, <1>3
  <2>3. QED
    BY <1>2, <1>3, <1>4, <2>2 DEF Settled, Rank, OpRank, DeployRank, Facets, FacetNames
<1>5. CASE Cut
  <2>1. saved["Voyage"] # None /\ saved' = saved /\ diamond'.weth9 = GetWETH9(net) /\ diamond'.paused = FALSE
    BY <1>5, CutEffect, AtCut
  <2>2. ASSUME run'.kind = "fixture", CutStep \in Todo'
        PROVE  Settled(CutStep)'
    <3>1. Next1 = CutStep /\ CutStep \in Promised
      BY <1>5, <1>2, <2>2, CutEffect DEF Promised, Required, CommonSteps, FacetSteps
    <3>2. \A x \in Promised : Achieves(x) => Goal(x)'
      BY WorkingGoals
    <3>3. Goal(CutStep)'
      BY <3>1, <3>2, <1>3 DEF Achieves
    <3>4. \A y \in Todo : Rank(CutStep) <= Rank(y)
      BY <1>5, <3>1, CutEffect, TailFacts DEF Progress
    <3>5. QED
      BY <1>2, <1>3, <3>3, <3>4 DEF Settled, Rank, OpRank, DeployRank, Facets, FacetNames
  <2>3. QED
    BY <1>1, <1>2, <2>1, <2>2 DEF Chained
<1>6. CASE Deploy /\ Of = "Voyage"
  <2>1. diamond' = FreshDiamond
    BY <1>6 DEF Deploy
  <2>2. ~Routed' /\ (\A i \in Impls : diamond'.impl[i] = None) /\ diamond'.paused = FALSE
    BY <2>1, <1>3, FreshKnown DEF Routed
  <2>3. QED
    BY <1>1, <1>3, <2>2 DEF Chained
<1>7. CASE ~Cut /\ ~(Deploy /\ Of = "Voyage")
  <2>1. /\ diamond'.routes = diamond.routes /\ diamond'.weth9 = diamond.weth9
        /\ diamond'.paused = diamond.paused /\ (SetImpl \/ diamond'.impl = diamond.impl)
    BY <1>7, WorkingDiamond
  <2>2. Routed' = Routed
    BY <1>3, <2>1 DEF Routed
  <2>3. saved'["Voyage"] = saved["Voyage"]
    BY <1>7, WorkingSaved, NamesKnown DEF Types
  <2>4. SetImpl => Routed /\ CutStep \notin Todo
    <3>1. SUFFICES ASSUME SetImpl
                   PROVE  Routed /\ CutStep \notin Todo
      OBVIOUS
    <3>2. run.todo # <<>> /\ Next1.op = "impl" /\ Possible(Next1)
      BY <3>1 DEF SetImpl, Takes, Next1
    <3>3. \E f \in {"VaultFacet", "ConfigurationFacet"} : diamond.routes[f] # 0
      BY <3>2 DEF Possible, Callable
    <3>4. Routed
      BY <3>3, NamesKnown DEF Routed
    <3>5. Rank(Next1) = 11
      BY <3>2, TailFacts, OpRanks DEF Progress
    <3>6. QED
      BY <3>2, <3>4, <3>5, TailFacts, RanksKnown DEF Progress
  <2>5. ASSUME run'.kind = "fixture", CutStep \in Todo'
        PROVE  (~Routed' /\ \A i \in Impls : diamond'.impl[i] = None) \/ Settled(CutStep)'
    <3>1. run.kind = "fixture" /\ CutStep \in Todo /\ diamond'.impl = diamond.impl
      BY <1>2, <1>3, <2>1, <2>4, <2>5
    <3>2. QED
      BY <1>4, <2>2, <2>5, <3>1, <1>3 DEF Chained
  <2>6. saved'["Voyage"] = None => ~Routed' /\ \A i \in Impls : diamond'.impl[i] = None
    BY <2>1, <2>2, <2>3, <2>4 DEF Chained
  <2>7. QED
    BY <1>1, <1>2, <1>3, <2>1, <2>2, <2>5, <2>6 DEF Chained
<1>8. QED
  BY <1>5, <1>6, <1>7

(***************************************************************************)
(* Ends of a run, and what happens besides runs.                           *)
(***************************************************************************)
LEMMA EmptyPhase ==
  Phase(<<>>, 1, 11)
BY DEF Phase

LEMMA NoPromises ==
  ASSUME run = NoRun
  PROVE  Todo = {} /\ Promised = {} /\ Progress
<1>1. run.todo = <<>> /\ run.kind = "none"
  BY DEF NoRun
<1>2. Todo = {}
  BY <1>1 DEF Todo
<1>3. Promised = {}
  BY <1>1, <1>2 DEF Promised, Required
<1>4. QED
  BY <1>1, <1>2, <1>3, EmptyPhase DEF Progress

LEMMA EndedRun ==
  ASSUME PipelineInv, run' = NoRun, UNCHANGED <<net, source, saved, abi, diamond, paymaster, releases>>,
         completed' \in Kinds
  PROVE  Types' /\ Progress' /\ Chained'
<1>1. Types'
  <2>1. DOMAIN run' = DOMAIN NoRun /\ run'.kind = "none" /\ run'.todo = <<>>
    BY DEF NoRun
  <2>2. FreshDiamond' = FreshDiamond /\ Facets' = Facets /\ Impls' = Impls /\ Artifacts' = Artifacts
        /\ CoreFacets' = CoreFacets /\ NoRun' = NoRun
    BY DEF FreshDiamond, Facets, Impls, Artifacts, CoreFacets, NoRun, FacetNames, MockNames
  <2>3. QED
    BY <2>1, <2>2 DEF PipelineInv, Types, Kinds, Idle
<1>2. Progress'
  <2>1. (run = NoRun)'
    BY DEF NoRun
  <2>2. (run = NoRun => Progress)'
    BY NoPromises, PTL
  <2>3. QED
    BY <2>1, <2>2
<1>3. Chained'
  <2>1. run'.kind # "fixture"
    BY DEF NoRun
  <2>2. Routed' = Routed /\ SavedABINeverStale' = SavedABINeverStale
    BY DEF Routed, SavedABINeverStale, Facets, FacetNames, CoreFacets
  <2>3. QED
    BY <2>1, <2>2 DEF PipelineInv, Chained, Impls
<1>4. QED
  BY <1>1, <1>2, <1>3

LEMMA CommonGoals ==
  ASSUME Types, Progress, run.todo = <<>>, run.kind \in {"full", "fixture"}
  PROVE  /\ \A a \in Needed : saved[a] = Instance(a)
         /\ Matches
         /\ run.kind = "fixture" => \A i \in Impls : diamond.impl[i] = saved[i]
         /\ abi = CoreABI \cup MergedABI(FacetABIs)
         /\ diamond.paymaster = saved["VoyagePaymaster"]
         /\ diamond.forwarder = GetTrustedForwarder(net)
         /\ paymaster.forwarder = GetTrustedForwarder(net)
         /\ diamond.signer = GetTwapSigner(net)
<1>1. Todo = {}
  BY DEF Todo
<1>2. \A x \in Required(run.kind) : Goal(x)
  BY <1>1 DEF Progress, Promised, Settled
<1>3. CommonSteps \subseteq Required(run.kind)
  BY DEF Required
<1>4. \A x \in CommonSteps : Goal(x)
  BY <1>2, <1>3
<1>5. \A a \in Needed : Step("deploy", a) \in CommonSteps
  BY DEF CommonSteps
<1>6. \A a \in Needed : saved[a] = Instance(a)
  BY <1>4, <1>5, DeployGoal
<1>7. Goal(CutStep) /\ Goal(MergeStep) /\ Goal(Step("gsn", None)) /\ Goal(Step("signer", None))
  BY <1>4 DEF CommonSteps, FacetSteps
<1>8. QED
  BY <1>6, <1>7 DEF Goal, CutStep, MergeStep, Step

LEMMA FinishConfigures ==
  ASSUME PipelineInv, Finish
  PROVE  CompletedRunConfigures'
<1>1. /\ run.todo = <<>> /\ completed' = run.kind
      /\ UNCHANGED <<net, source, saved, abi, diamond, paymaster>>
      /\ Types /\ Progress /\ Chained
  BY DEF Finish, PipelineInv
<1>2. ASSUME run.kind \in {"full", "fixture"}
      PROVE  Configured
  <2>1. \A i \in Impls : saved[i] = Instance(i) /\ diamond.impl[i] = saved[i]
    <3>1. \A i \in Impls : saved[i] = Instance(i)
      BY <1>1, <1>2, CommonGoals DEF Needed
    <3>2. CASE run.kind = "full"
      <4>1. \A i \in Impls : Goal(Step("impl", i))
        BY <1>1, <3>2 DEF Progress, Promised, Settled, Required, Todo
      <4>2. QED
        BY <3>1, <4>1 DEF Goal, Step
    <3>3. CASE run.kind = "fixture"
      BY <1>1, <3>1, <3>3, CommonGoals
    <3>4. QED
      BY <1>2, <3>2, <3>3, <3>1
  <2>2. \A f \in Facets : diamond.routes[f] = source[f]
    <3>1. \A f \in Facets : saved[f] = Instance(f) /\ diamond.routes[f] = saved[f].code
      BY <1>1, <1>2, CommonGoals DEF Needed, Matches
    <3>2. \A f \in Facets : Instance(f).code = source[f]
      BY DEF Instance
    <3>3. QED
      BY <3>1, <3>2
  <2>3. diamond.weth9 = GetWETH9(net)
    <3>1. "LoanFacet" \in Facets /\ source["LoanFacet"] # 0
      BY <1>1, NamesKnown, SourceKnown
    <3>2. Routed
      BY <2>2, <3>1 DEF Routed
    <3>3. QED
      BY <1>1, <3>2 DEF Chained
  <2>4. diamond.paymaster = Instance("VoyagePaymaster")
    BY <1>1, <1>2, CommonGoals DEF Needed
  <2>5. /\ abi = CoreABI \cup MergedABI(FacetABIs) /\ diamond.signer = GetTwapSigner(net)
        /\ diamond.forwarder = GetTrustedForwarder(net) /\ paymaster.forwarder = diamond.forwarder
    BY <1>1, <1>2, CommonGoals
  <2>6. QED
    BY <2>1, <2>2, <2>3, <2>4, <2>5 DEF Configured, Facets
<1>3. ASSUME run.kind = "full"
      PROVE  AdaptersConfigured
  <2>1. \A c \in AdapterConfigs(net) : Goal(Step("adapter", c))
    BY <1>1, <1>3 DEF Progress, Promised, Settled, Required, Todo
  <2>2. ASSUME NEW c \in AdapterConfigs(net)
        PROVE  /\ c.marketplace \in DOMAIN diamond.adapters
               /\ diamond.adapters[c.marketplace] = Instance(c.adapter)
    <3>1. /\ c.marketplace \in DOMAIN diamond.adapters
          /\ diamond.adapters[c.marketplace] = saved[c.adapter]
      BY <2>1 DEF Goal, Step
    <3>2. c.adapter \in Needed
      BY ConfigsKnown DEF AdapterConfigs, Needed
    <3>3. QED
      BY <1>1, <1>3, <3>1, <3>2, CommonGoals
  <2>3. QED
    BY <2>2 DEF AdaptersConfigured, AdapterConfigs
<1>4. ASSUME run.kind = "fixture"
      PROVE  Instance("VoyageReserveConfigurator") \in diamond.configurators
  <2>1. Goal(Step("authorize", None))
    BY <1>1, <1>4 DEF Progress, Promised, Settled, Required, Todo
  <2>2. saved["VoyageReserveConfigurator"] = Instance("VoyageReserveConfigurator")
    BY <1>1, <1>4, CommonGoals DEF Needed
  <2>3. QED
    BY <2>1, <2>2 DEF Goal, Step
<1>5. /\ Configured' = Configured /\ AdaptersConfigured' = AdaptersConfigured
      /\ Instance("VoyageReserveConfigurator")' = Instance("VoyageReserveConfigurator")
  BY <1>1 DEF Configured, AdaptersConfigured, Instance, Impls, FacetNames, CoreABI, Functions, CoreFacets,
              MergedABI, FacetABIs
<1>6. QED
  BY <1>1, <1>2, <1>3, <1>4, <1>5 DEF CompletedRunConfigures

LEMMA SameConfiguration ==
  ASSUME UNCHANGED <<net, source, saved, abi, paymaster>>,
         diamond' = diamond \/ \E p \in BOOLEAN : diamond' = [diamond EXCEPT !.paused = p],
         completed' = completed, Types, CompletedRunConfigures
  PROVE  CompletedRunConfigures'
<1>1. /\ diamond'.routes = diamond.routes /\ diamond'.impl = diamond.impl /\ diamond'.weth9 = diamond.weth9
      /\ diamond'.signer = diamond.signer /\ diamond'.paymaster = diamond.paymaster
      /\ diamond'.forwarder = diamond.forwarder /\ diamond'.adapters = diamond.adapters
      /\ diamond'.configurators = diamond.configurators
  BY DiamondFields
<1>2. FacetABIs' = FacetABIs /\ CoreABI' = CoreABI
  BY DEF FacetABIs, CoreABI, Functions, FacetNames, CoreFacets
<1>3. MergedABI(FacetABIs)' = MergedABI(FacetABIs)
  BY <1>2 DEF MergedABI
<1>4. Configured' = Configured
  BY <1>1, <1>2, <1>3 DEF Configured, Instance, Impls, FacetNames
<1>5. AdaptersConfigured' = AdaptersConfigured
  BY <1>1 DEF AdaptersConfigured, Instance
<1>6. QED
  BY <1>1, <1>4, <1>5 DEF CompletedRunConfigures, Instance

(***************************************************************************)
(* The steps of a run that starts.                                         *)
(***************************************************************************)
Items(s) == {s[i] : i \in 1..Len(s)}

LEMMA PhaseConcat ==
  ASSUME NEW lo \in 1..11, NEW m \in 1..11, NEW n \in 1..11, NEW hi \in 1..11, lo <= m, m <= n, n <= hi,
         NEW s, NEW t, Phase(s, lo, m), Phase(t, n, hi)
  PROVE  Phase(s \o t, lo, hi)
<1>1. s \in Seq(Steps) /\ t \in Seq(Steps)
  BY DEF Phase
<1>2. PICK k \in Nat : k = Len(s)
  BY <1>1
<1>3. PICK l \in Nat : l = Len(t)
  BY <1>1
<1>4. PICK u : u = s \o t
  OBVIOUS
<1>5. /\ u \in Seq(Steps) /\ Len(u) = k + l
      /\ \A i \in 1..k : u[i] = s[i] /\ i \in 1..Len(u)
      /\ \A i \in 1..l : u[k + i] = t[i] /\ k + i \in 1..Len(u)
      /\ \A i \in 1..Len(u) : i \in 1..k \/ (i - k \in 1..l /\ u[i] = t[i - k])
  BY <1>1, <1>2, <1>3, <1>4
<1>6. \A i \in 1..k : Rank(s[i]) \in 1..11 /\ lo <= Rank(s[i]) /\ Rank(s[i]) <= m
  <2>1. \A i \in 1..k : s[i] \in Steps
    BY <1>1, <1>2
  <2>2. QED
    BY <2>1, <1>2, StepForm DEF Phase
<1>7. \A i \in 1..l : Rank(t[i]) \in 1..11 /\ n <= Rank(t[i]) /\ Rank(t[i]) <= hi
  <2>1. \A i \in 1..l : t[i] \in Steps
    BY <1>1, <1>3
  <2>2. QED
    BY <2>1, <1>3, StepForm DEF Phase
<1>8. \A i \in 1..Len(u) : lo <= Rank(u[i]) /\ Rank(u[i]) <= hi
  <2>1. SUFFICES ASSUME NEW i \in 1..Len(u)
                 PROVE  lo <= Rank(u[i]) /\ Rank(u[i]) <= hi
    OBVIOUS
  <2>2. CASE i \in 1..k
    <3>1. u[i] = s[i]
      BY <2>2, <1>5
    <3>2. Rank(s[i]) \in 1..11 /\ lo <= Rank(s[i]) /\ Rank(s[i]) <= m
      BY <2>2, <1>6
    <3>3. \A r \in 1..11 : r <= m => r <= hi
      OBVIOUS
    <3>4. QED
      BY <3>1, <3>2, <3>3
  <2>3. CASE i - k \in 1..l /\ u[i] = t[i - k]
    <3>1. Rank(u[i]) \in 1..11 /\ n <= Rank(u[i]) /\ Rank(u[i]) <= hi
      BY <2>3, <1>7
    <3>2. \A r \in 1..11 : n <= r => lo <= r
      OBVIOUS
    <3>3. QED
      BY <3>1, <3>2
  <2>4. QED
    BY <2>2, <2>3, <1>5
<1>9. \A i, j \in 1..Len(u) : i <= j => Rank(u[i]) <= Rank(u[j])
  <2>1. SUFFICES ASSUME NEW i \in 1..Len(u), NEW j \in 1..Len(u), i <= j
                 PROVE  Rank(u[i]) <= Rank(u[j])
    OBVIOUS
  <2>2. CASE i \in 1..k /\ j \in 1..k
    BY <2>1, <2>2, <1>2, <1>5 DEF Phase
  <2>3. CASE i \in 1..k /\ j \notin 1..k
    <3>1. j - k \in 1..l /\ u[j] = t[j - k] /\ u[i] = s[i]
      BY <2>3, <1>5
    <3>2. Rank(u[i]) \in 1..11 /\ Rank(u[j]) \in 1..11 /\ Rank(u[i]) <= m /\ n <= Rank(u[j])
      BY <2>3, <3>1, <1>6, <1>7
    <3>3. QED
      BY <3>2
  <2>4. CASE i \notin 1..k
    <3>1. i - k \in 1..l /\ u[i] = t[i - k] /\ j - k \in 1..l /\ u[j] = t[j - k] /\ i - k <= j - k
      BY <2>1, <2>4, <1>5
    <3>2. QED
      BY <3>1, <1>3 DEF Phase
  <2>5. QED
    BY <2>2, <2>3, <2>4
<1>10. QED
  BY <1>4, <1>5, <1>8, <1>9 DEF Phase

LEMMA PhaseWiden ==
  ASSUME NEW lo \in 1..11, NEW m \in 1..11, NEW n \in 1..11, NEW hi \in 1..11, lo <= m, n <= hi,
         NEW s, Phase(s, m, n)
  PROVE  Phase(s, lo, hi)
<1>1. \A i \in 1..Len(s) : Rank(s[i]) \in 1..11 /\ m <= Rank(s[i]) /\ Rank(s[i]) <= n
  <2>1. \A i \in 1..Len(s) : s[i] \in Steps
    BY DEF Phase
  <2>2. QED
    BY <2>1, StepForm DEF Phase
<1>2. \A i \in 1..Len(s) : lo <= Rank(s[i]) /\ Rank(s[i]) <= hi
  BY <1>1
<1>3. QED
  BY <1>2 DEF Phase

LEMMA PhaseAny ==
  ASSUME NEW lo, NEW hi, NEW s, Phase(s, lo, hi)
  PROVE  Phase(s, 1, 11)
<1>1. \A i \in 1..Len(s) : Rank(s[i]) \in 1..11
  <2>1. \A i \in 1..Len(s) : s[i] \in Steps
    BY DEF Phase
  <2>2. QED
    BY <2>1, StepForm
<1>2. \A i \in 1..Len(s) : 1 <= Rank(s[i]) /\ Rank(s[i]) <= 11
  BY <1>1
<1>3. QED
  BY <1>2 DEF Phase

LEMMA PhaseOfNone ==
  ASSUME NEW lo, NEW hi
  PROVE  Phase(<<>>, lo, hi) /\ Items(<<>>) = {}
BY DEF Phase, Items

LEMMA DoPhase ==
  ASSUME NEW op \in Ops \ {"deploy", "impl", "adapter"}
  PROVE  /\ Phase(Do(op), OpRank[op], OpRank[op]) /\ Items(Do(op)) = {Step(op, None)}
         /\ OpRank[op] \in 1..11
<1>1. PICK x : x = Step(op, None)
  OBVIOUS
<1>2. x \in Steps /\ x.op = op
  BY <1>1 DEF Steps, Step, Ops
<1>3. Rank(x) = OpRank[op]
  BY <1>2 DEF Rank
<1>4. OpRank[op] \in 1..11
  BY <1>2, <1>3, StepForm
<1>5. Do(op) = <<x>>
  BY <1>1 DEF Do
<1>6. PICK r \in 1..11 : r = OpRank[op]
  BY <1>4
<1>7. PICK q : q = <<x>>
  OBVIOUS
<1>8. q \in Seq(Steps) /\ Len(q) = 1 /\ q[1] = x
  BY <1>2, <1>7
<1>9. Phase(q, r, r) /\ Items(q) = {x}
  BY <1>3, <1>6, <1>8 DEF Phase, Items
<1>10. QED
  BY <1>1, <1>4, <1>5, <1>6, <1>7, <1>9

LEMMA DeploysPhase ==
  ASSUME NEW names \in Seq(Artifacts), NEW r \in 1..11,
         \A i \in 1..Len(names) : DeployRank(names[i]) = r
  PROVE  /\ Phase(Deploys(names), r, r)
         /\ Items(Deploys(names)) = {Step("deploy", names[i]) : i \in 1..Len(names)}
<1>1. PICK n \in Nat : n = Len(names) /\ DOMAIN names = 1..n
  OBVIOUS
<1>2. PICK s : s = Deploys(names)
  OBVIOUS
<1>3. s = [i \in 1..n |-> Step("deploy", names[i])]
  BY <1>1, <1>2 DEF Deploys
<1>4. \A a \in Artifacts : Step("deploy", a) \in Steps /\ Rank(Step("deploy", a)) = DeployRank(a)
  BY RanksKnown DEF Steps, Step, Ops
<1>5. \A i \in 1..n : s[i] = Step("deploy", names[i]) /\ s[i] \in Steps /\ Rank(s[i]) = r
  BY <1>1, <1>3, <1>4
<1>6. s \in Seq(Steps) /\ Len(s) = n
  BY <1>3, <1>5
<1>7. Phase(s, r, r)
  BY <1>5, <1>6 DEF Phase
<1>8. Items(s) = {Step("deploy", names[i]) : i \in 1..n}
  BY <1>5, <1>6 DEF Items
<1>9. QED
  BY <1>1, <1>2, <1>7, <1>8

Joined(s, t) == s \o t
LEMMA PhaseNext ==
  ASSUME NEW lo \in 1..11, NEW m \in 1..11, NEW n \in 1..11, NEW hi \in 1..11, lo <= m, m <= n, n <= hi,
         NEW s, NEW t, Phase(s, lo, m), Phase(t, n, hi)
  PROVE  Phase(Joined(s, t), lo, hi)
BY PhaseConcat DEF Joined

LEMMA ItemsNext ==
  ASSUME NEW s, NEW t, Phase(s, 1, 11), Phase(t, 1, 11)
  PROVE  Items(Joined(s, t)) = Items(s) \cup Items(t)
<1>1. s \in Seq(Steps) /\ t \in Seq(Steps)
  BY DEF Phase
<1>2. PICK k \in Nat : k = Len(s)
  BY <1>1
<1>3. PICK l \in Nat : l = Len(t)
  BY <1>1
<1>4. PICK u : u = s \o t
  OBVIOUS
<1>5. /\ Len(u) = k + l
      /\ \A i \in 1..k : u[i] = s[i] /\ i \in 1..Len(u)
      /\ \A i \in 1..l : u[k + i] = t[i] /\ k + i \in 1..Len(u)
      /\ \A i \in 1..Len(u) : i \in 1..k \/ (i - k \in 1..l /\ u[i] = t[i - k])
  BY <1>1, <1>2, <1>3, <1>4
<1>6. ASSUME NEW y \in Items(u)
      PROVE  y \in Items(s) \cup Items(t)
  <2>1. PICK i \in 1..Len(u) : y = u[i]
    BY <1>6 DEF Items
  <2>2. CASE i \in 1..k
    <3>1. y = s[i]
      BY <2>1, <2>2, <1>5
    <3>2. QED
      BY <2>2, <3>1, <1>2 DEF Items
  <2>3. CASE i - k \in 1..l /\ u[i] = t[i - k]
    BY <2>1, <2>3, <1>3 DEF Items
  <2>4. QED
    BY <2>2, <2>3, <1>5
<1>7. \A y \in Items(s) \cup Items(t) : y \in Items(u)
  BY <1>2, <1>3, <1>5 DEF Items
<1>8. QED
  BY <1>4, <1>6, <1>7 DEF Joined

LEMMA FlattenPhase ==
  ASSUME NEW n \in Nat, NEW p \in [1..n -> Seq(Steps)], NEW b \in [0..n -> 1..11],
         \A i \in 1..n : b[i - 1] <= b[i] /\ Phase(p[i], b[i - 1], b[i])
  PROVE  /\ Phase(FlattenSeq(p), b[0], b[n])
         /\ Items(FlattenSeq(p)) = UNION {Items(p[i]) : i \in 1..n}
<1> DEFINE Parts(k) == UNION {Items(p[i]) : i \in 1..k}
<1>1. PICK w : w[0] = <<>> /\ w[n] = FlattenSeq(p) /\ \A i \in 1..n : w[i] = w[i - 1] \o p[i]
  <2>1. \E w : w[0] = <<>> /\ w[n] = FlattenSeq(p) /\ \A i \in 1..n : w[i] = w[i - 1] \o p[i]
    BY FlattenRun, Zenon
  <2>2. QED
    BY <2>1
<1>2. PICK X : X = [k \in 0..n |->
        {v \in Seq(Steps) : b[0] <= b[k] /\ Phase(v, b[0], b[k]) /\ Items(v) = Parts(k)}]
  OBVIOUS
<1>3. w[0] \in X[0]
  <2>1. <<>> \in Seq(Steps) /\ b[0] \in 1..11 /\ Parts(0) = {}
    OBVIOUS
  <2>2. QED
    BY <1>1, <1>2, <2>1, PhaseOfNone
<1>4. ASSUME NEW i \in 1..n, w[i - 1] \in X[i - 1]
      PROVE  w[i] \in X[i]
  <2>1. PICK v : v = w[i - 1]
    OBVIOUS
  <2>2. i - 1 \in 0..n /\ i \in 0..n
    OBVIOUS
  <2>3. v \in Seq(Steps) /\ b[0] <= b[i - 1] /\ Phase(v, b[0], b[i - 1]) /\ Items(v) = Parts(i - 1)
    <3> HIDE DEF Parts
    <3>1. QED
      BY <1>2, <1>4, <2>1, <2>2
  <2>4. b[0] \in 1..11 /\ b[i - 1] \in 1..11 /\ b[i] \in 1..11 /\ b[i - 1] <= b[i] /\ Phase(p[i], b[i - 1], b[i])
    BY <2>2
  <2>5. PICK q : q = p[i]
    OBVIOUS
  <2>6. PICK l \in 1..11 : l = b[0]
    BY <2>4
  <2>7. PICK m \in 1..11 : m = b[i - 1]
    BY <2>4
  <2>8. PICK h \in 1..11 : h = b[i]
    BY <2>4
  <2>9. Phase(v, l, m) /\ Phase(q, m, h) /\ l <= m /\ m <= h
    BY <2>3, <2>4, <2>5, <2>6, <2>7, <2>8
  <2>10. Phase(Joined(v, q), l, h) /\ Items(Joined(v, q)) = Items(v) \cup Items(q)
    <3>1. Phase(Joined(v, q), l, h)
      BY <2>9, PhaseNext
    <3>2. Phase(v, 1, 11)
      BY <2>9, PhaseAny
    <3>3. Phase(q, 1, 11)
      BY <2>9, PhaseAny
    <3>4. Items(Joined(v, q)) = Items(v) \cup Items(q)
      BY <3>2, <3>3, ItemsNext
    <3>5. QED
      BY <3>1, <3>4
  <2>11. l <= h
    BY <2>9
  <2>12. Parts(i) = Parts(i - 1) \cup Items(q)
    <3>1. \A y : y \in Parts(i) <=> \E j \in 1..i : y \in Items(p[j])
      OBVIOUS
    <3>2. \A y : y \in Parts(i - 1) <=> \E j \in 1..i - 1 : y \in Items(p[j])
      OBVIOUS
    <3>3. \A j \in 1..i : j = i \/ j \in 1..i - 1
      OBVIOUS
    <3>4. (\A j \in 1..i - 1 : j \in 1..i) /\ i \in 1..i
      OBVIOUS
    <3> HIDE DEF Parts
    <3>5. \A y : y \in Parts(i) <=> y \in Parts(i - 1) \/ y \in Items(q)
      BY <2>5, <3>1, <3>2, <3>3, <3>4, Zenon
    <3>6. QED
      BY <3>5
  <2>13. Joined(v, q) \in Seq(Steps)
    BY <2>10 DEF Phase
  <2>14. w[i] = Joined(v, q)
    BY <1>1, <2>1, <2>5 DEF Joined
  <2> HIDE DEF Parts
  <2>15. QED
    BY <1>2, <2>2, <2>3, <2>6, <2>8, <2>10, <2>11, <2>12, <2>13, <2>14
<1>5. w[n] \in X[n]
  BY <1>3, <1>4, RunFollows
<1>6. QED
  <2> HIDE DEF Parts
  <2>1. Phase(w[n], b[0], b[n]) /\ Items(w[n]) = Parts(n)
    BY <1>2, <1>5
  <2>2. QED
    BY <1>1, <2>1 DEF Parts

LEMMA ScriptsKnown ==
  /\ DOMAIN Scripts = 1..10 /\ Len(Scripts) = 10
  /\ Scripts[1].steps = Mocks /\ Scripts[2].steps = VTokens /\ Scripts[3].steps = VaultScript
  /\ Scripts[4].steps = Adapters /\ Scripts[5].steps = RateStrategy /\ Scripts[6].steps = Oracle
  /\ Scripts[7].steps = DiamondScript /\ Scripts[8].steps = FacetsScript
  /\ Scripts[9].steps = PaymasterScript /\ Scripts[10].steps = ConfiguratorScript
  /\ Scripts[7].tag = "Diamond" /\ Scripts[8].tag = "Facets"
  /\ Scripts[8].needs = {"Diamond"}
  /\ \A i \in 1..10 : Scripts[i].needs \in {{}, {"Diamond"}, {"Diamond", "Facets"}}
  /\ \A i \in 1..10 : Scripts[i].tag = "Facets" => i = 8
<1>1. DOMAIN Scripts = 1..10 /\ Len(Scripts) = 10
  BY DEF Scripts
<1>2. /\ Scripts[1].steps = Mocks /\ Scripts[2].steps = VTokens /\ Scripts[3].steps = VaultScript
      /\ Scripts[4].steps = Adapters /\ Scripts[5].steps = RateStrategy /\ Scripts[6].steps = Oracle
      /\ Scripts[7].steps = DiamondScript /\ Scripts[8].steps = FacetsScript
      /\ Scripts[9].steps = PaymasterScript /\ Scripts[10].steps = ConfiguratorScript
      /\ Scripts[7].tag = "Diamond" /\ Scripts[8].tag = "Facets"
      /\ Scripts[8].needs = {"Diamond"}
  BY DEF Scripts
<1>3. /\ \A i \in 1..10 : Scripts[i].needs \in {{}, {"Diamond"}, {"Diamond", "Facets"}}
      /\ \A i \in 1..10 : Scripts[i].tag = "Facets" => i = 8
  <2>1. 1..10 = {1, 2, 3, 4, 5, 6, 7, 8, 9, 10}
    OBVIOUS
  <2>2. QED
    BY <2>1 DEF Scripts
<1>4. QED
  BY <1>1, <1>2, <1>3

\* A part of a run: the steps of S in order, with ranks from lo to hi.
Part(s, lo, hi, S) == Phase(s, lo, hi) /\ Items(s) = S

LEMMA PartNext ==
  ASSUME NEW lo \in 1..11, NEW m \in 1..11, NEW n \in 1..11, NEW hi \in 1..11, lo <= m, m <= n, n <= hi,
         NEW s, NEW t, NEW S, NEW T, Part(s, lo, m, S), Part(t, n, hi, T)
  PROVE  Part(Joined(s, t), lo, hi, S \cup T)
<1>1. Phase(s, lo, m) /\ Phase(t, n, hi)
  BY DEF Part
<1>2. Phase(Joined(s, t), lo, hi)
  BY <1>1, PhaseNext
<1>3. Phase(s, 1, 11)
  BY <1>1, PhaseAny
<1>4. Phase(t, 1, 11)
  BY <1>1, PhaseAny
<1>5. Items(Joined(s, t)) = Items(s) \cup Items(t)
  BY <1>3, <1>4, ItemsNext
<1>6. QED
  BY <1>2, <1>5 DEF Part

LEMMA PartWiden ==
  ASSUME NEW lo \in 1..11, NEW m \in 1..11, NEW n \in 1..11, NEW hi \in 1..11, lo <= m, n <= hi,
         NEW s, NEW S, Part(s, m, n, S)
  PROVE  Part(s, lo, hi, S)
BY PhaseWiden DEF Part

LEMMA PartDo ==
  ASSUME NEW op \in Ops \ {"deploy", "impl", "adapter"}
  PROVE  Part(Do(op), OpRank[op], OpRank[op], {Step(op, None)})
BY DoPhase DEF Part

LEMMA PartDeploys ==
  ASSUME NEW names \in Seq(Artifacts), NEW r \in 1..11,
         \A i \in 1..Len(names) : DeployRank(names[i]) = r
  PROVE  Part(Deploys(names), r, r, {Step("deploy", names[i]) : i \in 1..Len(names)})
BY DeploysPhase DEF Part

\* The steps of each script, and where they come in the order.
LEMMA MocksPart ==
  \E S : Part(Mocks, 1, 1, S)
<1>1. CASE IsHardhat(net)
  <2>1. MockNames \in Seq(Artifacts)
    <3>1. Len(MockNames) = 5 /\ MockNames = [i \in 1..5 |-> MockNames[i]]
      BY DEF MockNames
    <3>2. \A i \in 1..5 : MockNames[i] \in Artifacts
      BY <3>1 DEF Artifacts, ToSet
    <3>3. QED
      BY <3>1, <3>2
  <2>2. \A i \in 1..Len(MockNames) : DeployRank(MockNames[i]) = 1
    <3>1. Len(MockNames) = 5 /\ 1..5 = {1, 2, 3, 4, 5}
      BY DEF MockNames
    <3>2. QED
      BY <3>1, NamesKnown DEF MockNames, DeployRank
  <2>3. Mocks = Deploys(MockNames)
    BY <1>1 DEF Mocks
  <2>4. PICK q : q = MockNames
    OBVIOUS
  <2>5. PICK S : S = {Step("deploy", q[i]) : i \in 1..Len(q)}
    OBVIOUS
  <2>6. Part(Deploys(q), 1, 1, S)
    BY <2>1, <2>2, <2>4, <2>5, PartDeploys
  <2>7. QED
    BY <2>3, <2>4, <2>6
<1>2. CASE ~IsHardhat(net)
  <2>1. Mocks = <<>>
    BY <1>2 DEF Mocks
  <2>2. QED
    BY <2>1, PhaseOfNone DEF Part
<1>3. QED
  BY <1>1, <1>2

LEMMA OneDeploy ==
  ASSUME NEW a \in Artifacts
  PROVE  Part(Deploys(<<a>>), DeployRank(a), DeployRank(a), {Step("deploy", a)})
<1>1. PICK q : q = <<a>>
  OBVIOUS
<1>2. q \in Seq(Artifacts) /\ Len(q) = 1 /\ \A i \in 1..Len(q) : q[i] = a
  BY <1>1
<1>3. PICK r \in 1..11 : r = DeployRank(a)
  BY DEF DeployRank
<1>4. Part(Deploys(q), r, r, {Step("deploy", q[i]) : i \in 1..Len(q)})
  BY <1>2, <1>3, PartDeploys
<1>5. {Step("deploy", q[i]) : i \in 1..Len(q)} = {Step("deploy", a)}
  BY <1>2
<1>6. QED
  BY <1>1, <1>3, <1>4, <1>5

LEMMA TwoDeploys ==
  ASSUME NEW a \in Artifacts, NEW b \in Artifacts, DeployRank(a) = 1, DeployRank(b) = 1
  PROVE  Part(Deploys(<<a, b>>), 1, 1, {Step("deploy", a), Step("deploy", b)})
<1>1. PICK q : q = <<a, b>>
  OBVIOUS
<1>2. q \in Seq(Artifacts) /\ Len(q) = 2 /\ q[1] = a /\ q[2] = b /\ 1..2 = {1, 2}
  BY <1>1
<1>3. Part(Deploys(q), 1, 1, {Step("deploy", q[i]) : i \in 1..Len(q)})
  <2>1. \A i \in 1..Len(q) : DeployRank(q[i]) = 1
    BY <1>2
  <2>2. QED
    BY <1>2, <2>1, PartDeploys
<1>4. {Step("deploy", q[i]) : i \in 1..Len(q)} = {Step("deploy", a), Step("deploy", b)}
  BY <1>2
<1>5. QED
  BY <1>1, <1>3, <1>4

LEMMA FacetsPart ==
  Part(Deploys(FacetNames), 5, 5, {Step("deploy", f) : f \in Facets})
<1>1. FacetNames \in Seq(Artifacts)
  <2>1. FacetNames = [i \in 1..9 |-> FacetNames[i]]
    BY DEF FacetNames
  <2>2. \A i \in 1..9 : FacetNames[i] \in Artifacts
    BY NamesKnown DEF Facets, ToSet
  <2>3. QED
    BY <2>1, <2>2
<1>2. \A i \in 1..Len(FacetNames) : FacetNames[i] \in Facets
  BY NamesKnown DEF Facets, ToSet
<1>3. \A i \in 1..Len(FacetNames) : DeployRank(FacetNames[i]) = 5
  BY <1>2, RanksKnown
<1>4. Part(Deploys(FacetNames), 5, 5, {Step("deploy", FacetNames[i]) : i \in 1..Len(FacetNames)})
  BY <1>1, <1>3, PartDeploys
<1>5. {Step("deploy", FacetNames[i]) : i \in 1..Len(FacetNames)} = {Step("deploy", f) : f \in Facets}
  BY NamesKnown DEF Facets, ToSet
<1>6. QED
  BY <1>4, <1>5

FacetsScriptSteps ==
  ((({ReadStep} \cup {Step("deploy", f) : f \in Facets}) \cup {Step("deployInit", None)}) \cup {CutStep})
    \cup {MergeStep}

LEMMA ScriptParts ==
  /\ Part(VTokens, 1, 1, {Step("deploy", "JuniorDepositToken"), Step("deploy", "SeniorDepositToken")})
  /\ Part(VaultScript, 1, 1, {Step("deploy", "Vault")})
  /\ Part(Adapters, 1, 1, {Step("deploy", "LooksRareAdapter"), Step("deploy", "SeaportAdapter")})
  /\ \E S : Part(RateStrategy, 1, 1, S)
  /\ \E S : Part(Oracle, 1, 1, S)
  /\ Part(DiamondScript, 1, 3, {Step("deploy", "Voyage")} \cup {CoreStep})
  /\ Part(FacetsScript, 3, 9, FacetsScriptSteps)
  /\ \E S : Part(PaymasterScript, 9, 10, S) /\ Step("deploy", "VoyagePaymaster") \in S
  /\ Part(ConfiguratorScript, 10, 10, {Step("deploy", "VoyageReserveConfigurator")})
<1>1. /\ {"JuniorDepositToken", "SeniorDepositToken", "Vault", "LooksRareAdapter", "SeaportAdapter", "WadRayMath",
          "DefaultReserveInterestRateStrategy", "PriceOracle", "Voyage", "VoyagePaymaster",
          "VoyageReserveConfigurator"} \subseteq Artifacts
      /\ \A a \in {"JuniorDepositToken", "SeniorDepositToken", "Vault", "LooksRareAdapter", "SeaportAdapter",
                   "WadRayMath", "DefaultReserveInterestRateStrategy", "PriceOracle"} : DeployRank(a) = 1
      /\ DeployRank("Voyage") = 2 /\ DeployRank("VoyagePaymaster") = 9
      /\ DeployRank("VoyageReserveConfigurator") = 10
  BY NamesKnown, RanksKnown DEF DeployRank, Artifacts, Impls
<1>2. /\ OpRank["saveCoreABI"] = 3 /\ OpRank["readVoyage"] = 4 /\ OpRank["deployInit"] = 6
      /\ OpRank["cut"] = 7 /\ OpRank["saveMergedABI"] = 8 /\ OpRank["firstForwarder"] = 10
      /\ OpRank["firstHub"] = 10
  BY DEF OpRank
<1>3. {"saveCoreABI", "readVoyage", "deployInit", "cut", "saveMergedABI", "firstForwarder", "firstHub"}
        \subseteq Ops \ {"deploy", "impl", "adapter"}
  BY DEF Ops
<1>4. Part(VTokens, 1, 1, {Step("deploy", "JuniorDepositToken"), Step("deploy", "SeniorDepositToken")})
  BY <1>1, TwoDeploys DEF VTokens
<1>5. Part(VaultScript, 1, 1, {Step("deploy", "Vault")})
  BY <1>1, OneDeploy DEF VaultScript
<1>6. Part(Adapters, 1, 1, {Step("deploy", "LooksRareAdapter"), Step("deploy", "SeaportAdapter")})
  BY <1>1, TwoDeploys DEF Adapters
<1>7. Part(RateStrategy, 1, 1, {Step("deploy", "WadRayMath"), Step("deploy", "DefaultReserveInterestRateStrategy")})
  BY <1>1, TwoDeploys DEF RateStrategy
<1>8. Part(Oracle, 1, 1, {Step("deploy", "PriceOracle")})
  BY <1>1, OneDeploy DEF Oracle
<1>9. Part(DiamondScript, 1, 3, {Step("deploy", "Voyage")} \cup {CoreStep})
  <2>1. Part(Deploys(<<"Voyage">>), 2, 2, {Step("deploy", "Voyage")})
    BY <1>1, OneDeploy
  <2>2. Part(Do("saveCoreABI"), 3, 3, {CoreStep})
    BY <1>2, <1>3, PartDo DEF CoreStep
  <2>3. Part(Joined(Deploys(<<"Voyage">>), Do("saveCoreABI")), 2, 3, {Step("deploy", "Voyage")} \cup {CoreStep})
    BY <2>1, <2>2, PartNext
  <2>4. DiamondScript = Joined(Deploys(<<"Voyage">>), Do("saveCoreABI"))
    BY DEF DiamondScript, Joined
  <2>5. QED
    BY <2>3, <2>4, PartWiden
<1>10. Part(FacetsScript, 3, 9, FacetsScriptSteps)
  <2>1. Part(Do("readVoyage"), 4, 4, {ReadStep})
    BY <1>2, <1>3, PartDo DEF ReadStep
  <2>2. Part(Do("deployInit"), 6, 6, {Step("deployInit", None)})
    BY <1>2, <1>3, PartDo
  <2>3. Part(Do("cut"), 7, 7, {CutStep})
    BY <1>2, <1>3, PartDo DEF CutStep
  <2>4. Part(Do("saveMergedABI"), 8, 8, {MergeStep})
    BY <1>2, <1>3, PartDo DEF MergeStep
  <2>5. PICK a : a = Joined(Do("readVoyage"), Deploys(FacetNames))
    OBVIOUS
  <2>6. PICK A : A = {ReadStep} \cup {Step("deploy", f) : f \in Facets}
    OBVIOUS
  <2>7. Part(a, 4, 5, A)
    BY <2>1, <2>5, <2>6, FacetsPart, PartNext
  <2>8. Part(Joined(a, Do("deployInit")), 4, 6, A \cup {Step("deployInit", None)})
    BY <2>2, <2>7, PartNext
  <2>9. Part(Joined(Joined(a, Do("deployInit")), Do("cut")), 4, 7, (A \cup {Step("deployInit", None)}) \cup {CutStep})
    BY <2>3, <2>8, PartNext
  <2>10. Part(Joined(Joined(Joined(a, Do("deployInit")), Do("cut")), Do("saveMergedABI")), 4, 8,
              ((A \cup {Step("deployInit", None)}) \cup {CutStep}) \cup {MergeStep})
    BY <2>4, <2>9, PartNext
  <2>11. FacetsScript = Joined(Joined(Joined(a, Do("deployInit")), Do("cut")), Do("saveMergedABI"))
    BY <2>5 DEF FacetsScript, Joined
  <2>12. FacetsScriptSteps = ((A \cup {Step("deployInit", None)}) \cup {CutStep}) \cup {MergeStep}
    BY <2>6 DEF FacetsScriptSteps
  <2>13. Part(FacetsScript, 4, 8, FacetsScriptSteps)
    BY <2>10, <2>11, <2>12
  <2>14. QED
    BY <2>13, PartWiden
<1>11. \E S : Part(PaymasterScript, 9, 10, S) /\ Step("deploy", "VoyagePaymaster") \in S
  <2>1. Part(Deploys(<<"VoyagePaymaster">>), 9, 9, {Step("deploy", "VoyagePaymaster")})
    BY <1>1, OneDeploy
  <2>2. Part(Do("firstForwarder"), 10, 10, {Step("firstForwarder", None)})
    BY <1>2, <1>3, PartDo
  <2>3. Part(Do("firstHub"), 10, 10, {Step("firstHub", None)})
    BY <1>2, <1>3, PartDo
  <2>4. Part(Joined(Deploys(<<"VoyagePaymaster">>), Do("firstForwarder")), 9, 10,
             {Step("deploy", "VoyagePaymaster")} \cup {Step("firstForwarder", None)})
    BY <2>1, <2>2, PartNext
  <2>5. Part(Joined(Joined(Deploys(<<"VoyagePaymaster">>), Do("firstForwarder")), Do("firstHub")), 9, 10,
             ({Step("deploy", "VoyagePaymaster")} \cup {Step("firstForwarder", None)}) \cup {Step("firstHub", None)})
    BY <2>3, <2>4, PartNext
  <2>6. PaymasterScript = Joined(Joined(Deploys(<<"VoyagePaymaster">>), Do("firstForwarder")), Do("firstHub"))
    BY DEF PaymasterScript, Joined
  <2>7. PICK S : S = ({Step("deploy", "VoyagePaymaster")} \cup {Step("firstForwarder", None)})
                       \cup {Step("firstHub", None)}
    OBVIOUS
  <2>8. Part(PaymasterScript, 9, 10, S) /\ Step("deploy", "VoyagePaymaster") \in S
    BY <2>5, <2>6, <2>7
  <2>9. QED
    BY <2>8
<1>12. Part(ConfiguratorScript, 10, 10, {Step("deploy", "VoyageReserveConfigurator")})
  BY <1>1, OneDeploy DEF ConfiguratorScript
<1>13. (\E S : Part(RateStrategy, 1, 1, S)) /\ (\E S : Part(Oracle, 1, 1, S))
  BY <1>7, <1>8
<1>14. QED
  BY <1>4, <1>5, <1>6, <1>9, <1>10, <1>11, <1>12, <1>13

\* The scripts a run of some tags takes.
Needing(tags) == tags \cup UNION {s.needs : s \in {t \in ToSet(Scripts) : t.tag \in tags}}
Chosen(tags) == [i \in DOMAIN Scripts |-> IF Scripts[i].tag \in Needing(tags) THEN Scripts[i].steps ELSE <<>>]
Levels == [i \in 0..10 |-> IF i <= 6 THEN 1 ELSE IF i = 7 THEN 3 ELSE IF i = 8 THEN 9 ELSE 10]

LEMMA ScriptLevels ==
  /\ Levels \in [0..10 -> 1..11] /\ Levels[0] = 1 /\ Levels[10] = 10
  /\ \A i \in 1..10 : Levels[i - 1] <= Levels[i] /\ Phase(Scripts[i].steps, Levels[i - 1], Levels[i])
<1>1. Levels \in [0..10 -> 1..11] /\ Levels[0] = 1 /\ Levels[10] = 10
  BY DEF Levels
<1>2. /\ \A i \in 1..6 : Levels[i - 1] = 1 /\ Levels[i] = 1
      /\ Levels[7] = 3 /\ Levels[8] = 9 /\ Levels[9] = 10 /\ Levels[6] = 1
  BY DEF Levels
<1>3. /\ Phase(Mocks, 1, 1) /\ Phase(VTokens, 1, 1) /\ Phase(VaultScript, 1, 1) /\ Phase(Adapters, 1, 1)
      /\ Phase(RateStrategy, 1, 1) /\ Phase(Oracle, 1, 1) /\ Phase(DiamondScript, 1, 3)
      /\ Phase(FacetsScript, 3, 9) /\ Phase(PaymasterScript, 9, 10) /\ Phase(ConfiguratorScript, 10, 10)
  BY MocksPart, ScriptParts DEF Part
<1>4. ASSUME NEW i \in 1..10
      PROVE  Levels[i - 1] <= Levels[i] /\ Phase(Scripts[i].steps, Levels[i - 1], Levels[i])
  <2>1. CASE i \in 1..6
    <3>1. Phase(Scripts[i].steps, 1, 1)
      <4>1. i \in {1, 2, 3, 4, 5, 6}
        BY <2>1
      <4>2. QED
        BY <4>1, <1>3, ScriptsKnown
    <3>2. Levels[i - 1] = 1 /\ Levels[i] = 1
      BY <1>2, <2>1
    <3>3. QED
      BY <3>1, <3>2
  <2>2. CASE i = 7
    BY <2>2, <1>2, <1>3, ScriptsKnown
  <2>3. CASE i = 8
    BY <2>3, <1>2, <1>3, ScriptsKnown
  <2>4. CASE i = 9
    BY <2>4, <1>2, <1>3, ScriptsKnown
  <2>5. CASE i = 10
    BY <2>5, <1>1, <1>2, <1>3, ScriptsKnown
  <2>6. QED
    BY <2>1, <2>2, <2>3, <2>4, <2>5
<1>5. QED
  BY <1>1, <1>4

LEMMA SelectedPhase ==
  ASSUME NEW tags
  PROVE  /\ Phase(Selected(tags), 1, 10)
         /\ \A y : y \in Items(Selected(tags)) <=>
              \E i \in 1..10 : Scripts[i].tag \in Needing(tags) /\ y \in Items(Scripts[i].steps)
<1>1. PICK p : p = Chosen(tags)
  OBVIOUS
<1>2. PICK b : b = Levels
  OBVIOUS
<1>3. Selected(tags) = FlattenSeq(p)
  BY <1>1 DEF Selected, Chosen, Needing
<1>4. p = [i \in 1..10 |-> IF Scripts[i].tag \in Needing(tags) THEN Scripts[i].steps ELSE <<>>]
  BY <1>1, ScriptsKnown DEF Chosen
<1>5. ASSUME NEW i \in 1..10
      PROVE  b[i - 1] <= b[i] /\ Phase(p[i], b[i - 1], b[i])
  <2>1. p[i] = Scripts[i].steps \/ p[i] = <<>>
    BY <1>4
  <2>2. b[i - 1] <= b[i] /\ Phase(Scripts[i].steps, b[i - 1], b[i])
    BY <1>2, ScriptLevels
  <2>3. Phase(<<>>, b[i - 1], b[i])
    BY PhaseOfNone
  <2>4. QED
    BY <2>1, <2>2, <2>3
<1>6. p \in [1..10 -> Seq(Steps)]
  <2>1. \A i \in 1..10 : p[i] \in Seq(Steps)
    BY <1>5 DEF Phase
  <2>2. QED
    BY <1>4, <2>1
<1>7. 10 \in Nat /\ b \in [0..10 -> 1..11] /\ b[0] = 1 /\ b[10] = 10
  BY <1>2, ScriptLevels
<1>8. /\ Phase(FlattenSeq(p), b[0], b[10])
      /\ Items(FlattenSeq(p)) = UNION {Items(p[i]) : i \in 1..10}
  BY <1>5, <1>6, <1>7, FlattenPhase
<1>9. \A i \in 1..10 : \A y :
        y \in Items(p[i]) <=> Scripts[i].tag \in Needing(tags) /\ y \in Items(Scripts[i].steps)
  BY <1>4, PhaseOfNone
<1>10. \A y : y \in UNION {Items(p[i]) : i \in 1..10} <=> \E i \in 1..10 : y \in Items(p[i])
  OBVIOUS
<1>11. QED
  BY <1>3, <1>7, <1>8, <1>9, <1>10

LEMMA NeedingKnown ==
  ASSUME NEW tags
  PROVE  /\ "Facets" \in Needing(tags) => "Diamond" \in Needing(tags)
         /\ \A i \in 1..10 : tags = AllTags => Scripts[i].tag \in Needing(tags)
<1>1. ToSet(Scripts) = {Scripts[i] : i \in 1..10}
  BY ScriptsKnown DEF ToSet
<1>2. \A n : n \in Needing(tags) <=>
        n \in tags \/ \E i \in 1..10 : Scripts[i].tag \in tags /\ n \in Scripts[i].needs
  BY <1>1 DEF Needing
<1>3. "Facets" \in Needing(tags) => "Diamond" \in Needing(tags)
  <2>1. SUFFICES ASSUME "Facets" \in Needing(tags)
                 PROVE  "Diamond" \in Needing(tags)
    OBVIOUS
  <2>2. CASE "Facets" \in tags
    <3>1. 8 \in 1..10 /\ Scripts[8].tag \in tags /\ "Diamond" \in Scripts[8].needs
      BY <2>2, ScriptsKnown
    <3>2. QED
      BY <1>2, <3>1
  <2>3. CASE "Facets" \notin tags
    <3>1. PICK i \in 1..10 : Scripts[i].tag \in tags /\ "Facets" \in Scripts[i].needs
      BY <1>2, <2>1, <2>3
    <3>2. "Diamond" \in Scripts[i].needs
      BY <3>1, ScriptsKnown
    <3>3. QED
      BY <1>2, <3>1, <3>2
  <2>4. QED
    BY <2>2, <2>3
<1>4. \A i \in 1..10 : Scripts[i].tag \in AllTags
  <2>1. 1..10 = {1, 2, 3, 4, 5, 6, 7, 8, 9, 10}
    OBVIOUS
  <2>2. QED
    BY <2>1 DEF Scripts, AllTags
<1>5. QED
  BY <1>2, <1>3, <1>4

LEMMA SelectedSteps ==
  ASSUME NEW tags
  PROVE  /\ ReadStep \in Items(Selected(tags)) \/ CutStep \in Items(Selected(tags))
              => MergeStep \in Items(Selected(tags))
         /\ MergeStep \in Items(Selected(tags)) => FacetSteps \subseteq Items(Selected(tags))
         /\ tags = AllTags => /\ MergeStep \in Items(Selected(tags))
                              /\ \A a \in Needed : Step("deploy", a) \in Items(Selected(tags))
<1>1. PICK S : S = Items(Selected(tags))
  OBVIOUS
<1>2. \A y : y \in S <=> \E i \in 1..10 : Scripts[i].tag \in Needing(tags) /\ y \in Items(Scripts[i].steps)
  BY <1>1, SelectedPhase
<1>3. /\ Items(DiamondScript) = {Step("deploy", "Voyage")} \cup {CoreStep}
      /\ Items(FacetsScript) = FacetsScriptSteps
  BY ScriptParts DEF Part
<1>4. ASSUME NEW i \in 1..10, NEW x \in {ReadStep, CutStep, MergeStep}, x \in Items(Scripts[i].steps)
      PROVE  i = 8
  <2>1. 4 <= Rank(x) /\ Rank(x) <= 8
    BY RanksKnown
  <2>2. PICK q : q = Scripts[i].steps
    OBVIOUS
  <2>3. PICK j \in 1..Len(q) : x = q[j]
    BY <1>4, <2>2 DEF Items
  <2>4. Levels[i - 1] <= Rank(x) /\ Rank(x) <= Levels[i]
    BY <2>2, <2>3, ScriptLevels DEF Phase
  <2>5. i \notin 1..7 /\ i \notin 9..10
    <3>1. i \in 1..7 => Levels[i] \in {1, 3}
      BY DEF Levels
    <3>2. i \in 9..10 => Levels[i - 1] \in {9, 10}
      BY DEF Levels
    <3>3. QED
      BY <2>1, <2>4, <3>1, <3>2, RanksKnown
  <2>6. QED
    BY <2>5
<1>5. (\E x \in {ReadStep, CutStep, MergeStep} : x \in S) => "Facets" \in Needing(tags)
  BY <1>2, <1>4, ScriptsKnown
<1>6. "Facets" \in Needing(tags) => FacetsScriptSteps \subseteq S /\ CoreStep \in S
  <2>1. SUFFICES ASSUME "Facets" \in Needing(tags)
                 PROVE  FacetsScriptSteps \subseteq S /\ CoreStep \in S
    OBVIOUS
  <2>2. Scripts[8].tag \in Needing(tags) /\ Scripts[7].tag \in Needing(tags) /\ 7 \in 1..10 /\ 8 \in 1..10
    BY <2>1, NeedingKnown, ScriptsKnown
  <2>3. \A y \in FacetsScriptSteps : y \in Items(Scripts[8].steps)
    BY <1>3, ScriptsKnown
  <2>4. CoreStep \in Items(Scripts[7].steps)
    BY <1>3, ScriptsKnown
  <2>5. QED
    BY <1>2, <2>2, <2>3, <2>4
<1>7. MergeStep \in FacetsScriptSteps /\ FacetSteps \subseteq FacetsScriptSteps \cup {CoreStep}
  BY DEF FacetSteps, FacetsScriptSteps
<1>8. ASSUME tags = AllTags
      PROVE  MergeStep \in S /\ \A a \in Needed : Step("deploy", a) \in S
  <2>1. \A i \in 1..10 : Scripts[i].tag \in Needing(tags)
    BY <1>8, NeedingKnown
  <2>2. \A i \in 1..10 : \A y \in Items(Scripts[i].steps) : y \in S
    BY <1>2, <2>1
  <2>3. /\ Step("deploy", "JuniorDepositToken") \in Items(Scripts[2].steps)
        /\ Step("deploy", "SeniorDepositToken") \in Items(Scripts[2].steps)
        /\ Step("deploy", "Vault") \in Items(Scripts[3].steps)
        /\ Step("deploy", "LooksRareAdapter") \in Items(Scripts[4].steps)
        /\ Step("deploy", "SeaportAdapter") \in Items(Scripts[4].steps)
        /\ Step("deploy", "Voyage") \in Items(Scripts[7].steps)
        /\ Step("deploy", "VoyagePaymaster") \in Items(Scripts[9].steps)
        /\ Step("deploy", "VoyageReserveConfigurator") \in Items(Scripts[10].steps)
    BY ScriptsKnown, ScriptParts DEF Part
  <2>4. \A a \in Needed \ Facets : Step("deploy", a) \in S
    <3>1. \A a \in Needed \ Facets : a \in {"JuniorDepositToken", "SeniorDepositToken", "Vault", "LooksRareAdapter",
             "SeaportAdapter", "Voyage", "VoyagePaymaster", "VoyageReserveConfigurator"}
      BY DEF Needed, Impls, MarketAdapters
    <3>2. {2, 3, 4, 7, 9, 10} \subseteq 1..10
      OBVIOUS
    <3>3. QED
      BY <2>2, <2>3, <3>1, <3>2
  <2>5. 8 \in 1..10
    OBVIOUS
  <2>6. "Facets" \in Needing(tags)
    BY <2>1, <2>5, ScriptsKnown
  <2>7. \A f \in Facets : Step("deploy", f) \in FacetsScriptSteps
    BY DEF FacetsScriptSteps
  <2>8. QED
    BY <1>6, <1>7, <2>4, <2>6, <2>7
<1>9. QED
  BY <1>1, <1>5, <1>6, <1>7, <1>8

\* The tasks after the scripts.
LEMMA OneImpl ==
  ASSUME NEW i \in Impls
  PROVE  Part(<<Step("impl", i)>>, 11, 11, {Step("impl", i)})
<1>1. PICK x : x = Step("impl", i)
  OBVIOUS
<1>2. x \in Steps /\ x.op = "impl"
  BY <1>1, NamesKnown DEF Steps, Step, Ops
<1>3. Rank(x) = 11
  BY <1>2, OpRanks
<1>4. PICK q : q = <<x>>
  OBVIOUS
<1>5. q \in Seq(Steps) /\ Len(q) = 1 /\ q[1] = x
  BY <1>2, <1>4
<1>6. Phase(q, 11, 11) /\ Items(q) = {x}
  BY <1>3, <1>5 DEF Phase, Items
<1>7. QED
  BY <1>1, <1>4, <1>6 DEF Part

LEMMA TaskParts ==
  /\ Part(ConfigureAdapters, 11, 11, {Step("adapter", c) : c \in AdapterConfigs(net)})
  /\ Part(ConfigureVaultImpl, 11, 11, {Step("impl", "Vault")})
  /\ Part(ConfigureJdImpl, 11, 11, {Step("impl", "JuniorDepositToken")})
  /\ Part(ConfigureSdImpl, 11, 11, {Step("impl", "SeniorDepositToken")})
  /\ Part(ConfigureGSN, 11, 11, {Step("gsn", None)})
  /\ Part(ConfigureOracleSigner, 11, 11, {Step("signer", None)})
  /\ Part(ConfigureConfigurator, 11, 11, {Step("authorize", None)})
  /\ Part(Do("forwarder"), 11, 11, {Step("forwarder", None)})
<1>1. Part(ConfigureAdapters, 11, 11, {Step("adapter", c) : c \in AdapterConfigs(net)})
  <2>1. PICK q : q = AdaptersToSet(SetHRE(net))
    OBVIOUS
  <2>2. PICK n \in Nat : n = Len(q) /\ DOMAIN q = 1..n
    BY <2>1, ConfigsKnown
  <2>3. PICK s : s = [i \in 1..n |-> Step("adapter", q[i])]
    OBVIOUS
  <2>4. ConfigureAdapters = s
    BY <2>1, <2>2, <2>3 DEF ConfigureAdapters
  <2>5. AdapterConfigs(net) = {q[i] : i \in 1..n}
    BY <2>1, <2>2 DEF AdapterConfigs, ToSet
  <2>6. \A i \in 1..n : s[i] = Step("adapter", q[i]) /\ s[i] \in Steps /\ s[i].op = "adapter"
    BY <2>3, <2>5 DEF Steps, Step, Ops
  <2>7. s \in Seq(Steps) /\ Len(s) = n
    BY <2>3, <2>6
  <2>8. \A i \in 1..n : Rank(s[i]) = 11
    BY <2>6, OpRanks
  <2>9. Phase(s, 11, 11)
    BY <2>7, <2>8 DEF Phase
  <2>10. Items(s) = {Step("adapter", c) : c \in AdapterConfigs(net)}
    BY <2>5, <2>6, <2>7 DEF Items
  <2>11. QED
    BY <2>4, <2>9, <2>10 DEF Part
<1>2. /\ Part(ConfigureVaultImpl, 11, 11, {Step("impl", "Vault")})
      /\ Part(ConfigureJdImpl, 11, 11, {Step("impl", "JuniorDepositToken")})
      /\ Part(ConfigureSdImpl, 11, 11, {Step("impl", "SeniorDepositToken")})
  <2>1. "Vault" \in Impls /\ "JuniorDepositToken" \in Impls /\ "SeniorDepositToken" \in Impls
    BY DEF Impls
  <2>2. QED
    BY <2>1, OneImpl DEF ConfigureVaultImpl, ConfigureJdImpl, ConfigureSdImpl
<1>3. /\ {"gsn", "signer", "authorize", "forwarder"} \subseteq Ops \ {"deploy", "impl", "adapter"}
      /\ OpRank["gsn"] = 11 /\ OpRank["signer"] = 11 /\ OpRank["authorize"] = 11 /\ OpRank["forwarder"] = 11
  BY DEF Ops, OpRank
<1>4. Part(ConfigureGSN, 11, 11, {Step("gsn", None)})
  BY <1>3, PartDo DEF ConfigureGSN
<1>5. Part(ConfigureOracleSigner, 11, 11, {Step("signer", None)})
  BY <1>3, PartDo DEF ConfigureOracleSigner
<1>6. Part(ConfigureConfigurator, 11, 11, {Step("authorize", None)})
  BY <1>3, PartDo DEF ConfigureConfigurator
<1>7. Part(Do("forwarder"), 11, 11, {Step("forwarder", None)})
  BY <1>3, PartDo
<1>8. QED
  BY <1>1, <1>2, <1>4, <1>5, <1>6, <1>7

\* A run may start with the steps s.
Launch(kind, s) ==
  /\ Phase(s, 1, 11)
  /\ ReadStep \in Items(s) \/ CutStep \in Items(s) => MergeStep \in Items(s)
  /\ MergeStep \in Items(s) => FacetSteps \subseteq Items(s)
  /\ Required(kind) \subseteq Items(s)

TaskOps == {"adapter", "impl", "gsn", "signer", "forwarder", "authorize"}

LEMMA ScriptsFirst ==
  ASSUME NEW tags, NEW s, NEW C, Phase(s, 1, 11), Items(s) = Items(Selected(tags)) \cup C,
         \A y \in C : y.op \in TaskOps
  PROVE  /\ ReadStep \in Items(s) \/ CutStep \in Items(s) => MergeStep \in Items(s)
         /\ MergeStep \in Items(s) => FacetSteps \subseteq Items(s)
         /\ tags = AllTags => /\ FacetSteps \subseteq Items(s) /\ MergeStep \in Items(s)
                              /\ \A a \in Needed : Step("deploy", a) \in Items(s)
<1>1. ReadStep \notin C /\ CutStep \notin C /\ MergeStep \notin C
  BY DEF ReadStep, CutStep, MergeStep, Step, TaskOps
<1>2. QED
  BY <1>1, SelectedSteps

LEMMA DeployDevLaunch ==
  ASSUME NEW tags
  PROVE  Launch("tagged", DeployDev(tags)) /\ (tags = AllTags => Launch("full", DeployDev(tags)))
<1> DEFINE C1 == {Step("adapter", c) : c \in AdapterConfigs(net)}
           C == ((((C1 \cup {Step("impl", "Vault")}) \cup {Step("gsn", None)})
                   \cup {Step("impl", "JuniorDepositToken")}) \cup {Step("impl", "SeniorDepositToken")})
                  \cup {Step("signer", None)}
<1>1. PICK S : S = Items(Selected(tags))
  OBVIOUS
<1>2. Part(Selected(tags), 1, 10, S)
  BY <1>1, SelectedPhase DEF Part
<1>3. PICK a : a = Joined(Selected(tags), ConfigureAdapters)
  OBVIOUS
<1>4. PICK A : A = S \cup C1
  OBVIOUS
<1>5. Part(a, 1, 11, A)
  <2>1. Part(ConfigureAdapters, 11, 11, C1)
    BY TaskParts
  <2> HIDE DEF C1
  <2>2. QED
    BY <1>2, <1>3, <1>4, <2>1, PartNext
<1> HIDE DEF C1
<1>6. PICK v : v = Joined(a, ConfigureVaultImpl)
  OBVIOUS
<1>7. Part(v, 1, 11, A \cup {Step("impl", "Vault")})
  BY <1>5, <1>6, TaskParts, PartNext
<1>8. PICK g : g = Joined(v, ConfigureGSN)
  OBVIOUS
<1>9. Part(g, 1, 11, (A \cup {Step("impl", "Vault")}) \cup {Step("gsn", None)})
  BY <1>7, <1>8, TaskParts, PartNext
<1>10. PICK j : j = Joined(g, ConfigureJdImpl)
  OBVIOUS
<1>11. Part(j, 1, 11, ((A \cup {Step("impl", "Vault")}) \cup {Step("gsn", None)})
                        \cup {Step("impl", "JuniorDepositToken")})
  BY <1>9, <1>10, TaskParts, PartNext
<1>12. PICK d : d = Joined(j, ConfigureSdImpl)
  OBVIOUS
<1>13. Part(d, 1, 11, (((A \cup {Step("impl", "Vault")}) \cup {Step("gsn", None)})
                        \cup {Step("impl", "JuniorDepositToken")}) \cup {Step("impl", "SeniorDepositToken")})
  BY <1>11, <1>12, TaskParts, PartNext
<1>14. PICK s : s = Joined(d, ConfigureOracleSigner)
  OBVIOUS
<1>15. Part(s, 1, 11, ((((A \cup {Step("impl", "Vault")}) \cup {Step("gsn", None)})
                        \cup {Step("impl", "JuniorDepositToken")}) \cup {Step("impl", "SeniorDepositToken")})
                        \cup {Step("signer", None)})
  BY <1>13, <1>14, TaskParts, PartNext
<1>16. DeployDev(tags) = s
  BY <1>3, <1>6, <1>8, <1>10, <1>12, <1>14 DEF DeployDev, Joined
<1>17. Phase(s, 1, 11) /\ Items(s) = S \cup C
  BY <1>4, <1>15 DEF Part
<1>18. \A y \in C : y.op \in TaskOps
  BY DEF C1, Step, TaskOps
<1> HIDE DEF C
<1>19. /\ ReadStep \in Items(s) \/ CutStep \in Items(s) => MergeStep \in Items(s)
       /\ MergeStep \in Items(s) => FacetSteps \subseteq Items(s)
       /\ tags = AllTags => /\ FacetSteps \subseteq Items(s) /\ MergeStep \in Items(s)
                            /\ \A x \in Needed : Step("deploy", x) \in Items(s)
  BY <1>1, <1>17, <1>18, ScriptsFirst
<1>20. Required("tagged") = {}
  BY DEF Required
<1>21. tags = AllTags => Required("full") \subseteq Items(s)
  <2>1. /\ \A i \in Impls : Step("impl", i) \in C
        /\ \A c \in AdapterConfigs(net) : Step("adapter", c) \in C
        /\ Step("gsn", None) \in C /\ Step("signer", None) \in C
    BY DEF C, C1, Impls
  <2>2. QED
    BY <1>17, <1>19, <2>1 DEF Required, CommonSteps
<1>22. QED
  BY <1>16, <1>17, <1>19, <1>20, <1>21 DEF Launch

LEMMA FixtureLaunch ==
  Launch("fixture", Fixture)
<1>1. PICK S : S = Items(Selected(AllTags))
  OBVIOUS
<1>2. Part(Selected(AllTags), 1, 10, S)
  BY <1>1, SelectedPhase DEF Part
<1>3. PICK f : f = Joined(Selected(AllTags), Do("forwarder"))
  OBVIOUS
<1>4. Part(f, 1, 11, S \cup {Step("forwarder", None)})
  BY <1>2, <1>3, TaskParts, PartNext
<1>5. PICK g : g = Joined(f, ConfigureGSN)
  OBVIOUS
<1>6. Part(g, 1, 11, (S \cup {Step("forwarder", None)}) \cup {Step("gsn", None)})
  BY <1>4, <1>5, TaskParts, PartNext
<1>7. PICK c : c = Joined(g, ConfigureConfigurator)
  OBVIOUS
<1>8. Part(c, 1, 11, ((S \cup {Step("forwarder", None)}) \cup {Step("gsn", None)}) \cup {Step("authorize", None)})
  BY <1>6, <1>7, TaskParts, PartNext
<1>9. PICK s : s = Joined(c, ConfigureOracleSigner)
  OBVIOUS
<1>10. Part(s, 1, 11, (((S \cup {Step("forwarder", None)}) \cup {Step("gsn", None)}) \cup {Step("authorize", None)})
                        \cup {Step("signer", None)})
  BY <1>8, <1>9, TaskParts, PartNext
<1>11. Fixture = s
  BY <1>3, <1>5, <1>7, <1>9 DEF Fixture, Joined
<1>12. PICK C : C = {Step("forwarder", None), Step("gsn", None), Step("authorize", None), Step("signer", None)}
  OBVIOUS
<1>13. Phase(s, 1, 11) /\ Items(s) = S \cup C
  BY <1>10, <1>12 DEF Part
<1>14. \A y \in C : y.op \in TaskOps
  BY <1>12 DEF Step, TaskOps
<1>15. /\ ReadStep \in Items(s) \/ CutStep \in Items(s) => MergeStep \in Items(s)
       /\ MergeStep \in Items(s) => FacetSteps \subseteq Items(s)
       /\ FacetSteps \subseteq Items(s) /\ MergeStep \in Items(s)
       /\ \A x \in Needed : Step("deploy", x) \in Items(s)
  BY <1>1, <1>13, <1>14, ScriptsFirst
<1>16. Required("fixture") \subseteq Items(s)
  BY <1>12, <1>13, <1>15 DEF Required, CommonSteps
<1>17. QED
  BY <1>11, <1>13, <1>15, <1>16 DEF Launch

LEMMA TasksLaunch ==
  ASSUME NEW task \in Tasks
  PROVE  Launch("task", task)
<1>1. \E S : Part(task, 11, 11, S) /\ \A y \in S : y.op \in TaskOps
  <2>1. \A o \in TaskOps : \A x : Step(o, x).op = o
    BY DEF Step
  <2>2. QED
    BY <2>1, TaskParts DEF Tasks, TaskOps
<1>2. PICK S : Part(task, 11, 11, S) /\ \A y \in S : y.op \in TaskOps
  BY <1>1
<1>3. Phase(task, 1, 11) /\ Items(task) = S
  BY <1>2, PhaseAny DEF Part
<1>4. ReadStep \notin S /\ CutStep \notin S /\ MergeStep \notin S
  BY <1>2 DEF ReadStep, CutStep, MergeStep, Step, TaskOps
<1>5. Required("task") = {}
  BY DEF Required
<1>6. QED
  BY <1>3, <1>4, <1>5 DEF Launch

(***************************************************************************)
(* Every step keeps the invariant.                                         *)
(***************************************************************************)
LEMMA StartKeeps ==
  ASSUME PipelineInv, NEW kind \in Kinds \ {"none"}, NEW s, Start(kind, s), Launch(kind, s),
         kind = "fixture" => saved["Voyage"] = None
  PROVE  PipelineInv'
<1>1. /\ DOMAIN run' = DOMAIN NoRun /\ run'.kind = kind /\ run'.todo = s /\ completed' = "none"
      /\ UNCHANGED <<net, source, saved, abi, diamond, paymaster, releases>>
  BY DEF Start, NoRun
<1>2. FreshDiamond' = FreshDiamond /\ Facets' = Facets /\ Impls' = Impls /\ Artifacts' = Artifacts
      /\ CoreFacets' = CoreFacets /\ NoRun' = NoRun
  BY DEF FreshDiamond, Facets, Impls, Artifacts, CoreFacets, NoRun, FacetNames, MockNames
<1>3. Types'
  BY <1>1, <1>2 DEF PipelineInv, Types, Kinds, Idle
<1>4. Todo' = Items(s)
  BY <1>1 DEF Todo, Items
<1>5. Progress'
  <2>1. Steps' = Steps
    BY <1>1 DEF Steps, AdapterConfigs
  <2>2. Phase(run.todo, 1, 11)'
    BY <1>1, <2>1 DEF Launch, Phase, Rank, OpRank, DeployRank, Facets, FacetNames
  <2>3. /\ ReadStep' = ReadStep /\ CutStep' = CutStep /\ MergeStep' = MergeStep /\ FacetSteps' = FacetSteps
        /\ Required(kind)' = Required(kind)
    BY <1>1 DEF ReadStep, CutStep, MergeStep, CoreStep, Step, FacetSteps, Facets, FacetNames, Required,
                CommonSteps, Needed, Impls, MarketAdapters, AdapterConfigs
  <2>4. Promised' \subseteq Todo'
    BY <1>1, <1>4, <2>3 DEF Promised, Launch
  <2>5. ReadStep' \in Todo' \/ CutStep' \in Todo' => MergeStep' \in Todo'
    BY <1>4, <2>3 DEF Launch
  <2>6. QED
    BY <2>2, <2>4, <2>5 DEF Progress
<1>6. Chained'
  <2>1. Routed' = Routed /\ SavedABINeverStale' = SavedABINeverStale
    BY <1>1 DEF Routed, SavedABINeverStale, Facets, FacetNames, CoreFacets
  <2>2. kind = "fixture" => ~Routed /\ \A i \in Impls : diamond.impl[i] = None
    BY DEF PipelineInv, Chained
  <2>3. QED
    BY <1>1, <1>2, <2>1, <2>2 DEF PipelineInv, Chained
<1>7. CompletedRunConfigures'
  BY <1>1 DEF CompletedRunConfigures
<1>8. QED
  BY <1>3, <1>5, <1>6, <1>7 DEF PipelineInv

LEMMA StartsKeep ==
  ASSUME PipelineInv, StartDeploy \/ StartTagged \/ StartTask \/ StartFixture
  PROVE  PipelineInv'
<1>1. CASE StartDeploy
  <2>1. Start("full", DeployDev(AllTags)) /\ Launch("full", DeployDev(AllTags))
    BY <1>1, DeployDevLaunch DEF StartDeploy
  <2>2. QED
    BY <2>1, StartKeeps DEF Kinds
<1>2. CASE StartTagged
  <2>1. PICK tag \in Tags : Start("tagged", DeployDev({tag}))
    BY <1>2 DEF StartTagged
  <2>2. Launch("tagged", DeployDev({tag}))
    BY DeployDevLaunch
  <2>3. QED
    BY <2>1, <2>2, StartKeeps DEF Kinds
<1>3. CASE StartTask
  <2>1. PICK task \in Tasks : Start("task", task)
    BY <1>3 DEF StartTask
  <2>2. Launch("task", task)
    BY <2>1, TasksLaunch
  <2>3. QED
    BY <2>1, <2>2, StartKeeps DEF Kinds
<1>4. CASE StartFixture
  <2>1. Start("fixture", Fixture) /\ saved["Voyage"] = None
    BY <1>4, NamesKnown DEF StartFixture
  <2>2. QED
    BY <2>1, FixtureLaunch, StartKeeps DEF Kinds
<1>5. QED
  BY <1>1, <1>2, <1>3, <1>4

LEMMA EndsKeep ==
  ASSUME PipelineInv, Finish \/ Abort \/ Crash
  PROVE  PipelineInv'
<1>1. CASE Finish
  <2>1. /\ run' = NoRun /\ completed' \in Kinds
        /\ UNCHANGED <<net, source, saved, abi, diamond, paymaster, releases>>
    BY <1>1 DEF Finish, PipelineInv, Types
  <2>2. QED
    BY <1>1, <2>1, EndedRun, FinishConfigures DEF PipelineInv
<1>2. CASE Abort \/ Crash
  <2>1. /\ run' = NoRun /\ completed' = completed /\ ~Idle
        /\ UNCHANGED <<net, source, saved, abi, diamond, paymaster, releases>>
    BY <1>2 DEF Abort, Crash, PipelineInv, Types
  <2>2. completed = "none"
    BY <2>1 DEF PipelineInv, Types
  <2>3. CompletedRunConfigures'
    BY <2>1, <2>2 DEF CompletedRunConfigures
  <2>4. completed' \in Kinds
    BY <2>1 DEF PipelineInv, Types
  <2>5. QED
    BY <2>1, <2>3, <2>4, EndedRun DEF PipelineInv
<1>3. QED
  BY <1>1, <1>2

LEMMA ReleaseKeeps ==
  ASSUME PipelineInv, Release
  PROVE  PipelineInv'
<1>1. /\ Idle /\ releases < MaxReleases /\ releases' = releases + 1 /\ completed' = "none"
      /\ UNCHANGED <<net, saved, abi, diamond, paymaster, run>>
  BY DEF Release
<1>2. PICK changed \in Releases : source' = [a \in Artifacts |-> source[a] + IF a \in changed THEN 1 ELSE 0]
  BY DEF Release
<1>3. releases \in Nat /\ MaxReleases \in Nat /\ releases' \in 0..MaxReleases
  BY <1>1, BoundsAssumption DEF PipelineInv, Types
<1>4. \A a \in Artifacts : source[a] \in 1..releases + 1 /\ source'[a] \in {source[a], source[a] + 1}
  BY <1>2 DEF PipelineInv, Types
<1>5. \A a \in Artifacts : source'[a] \in 1..releases' + 1 /\ 1..source[a] \subseteq 1..source'[a]
                           /\ 0..source[a] \subseteq 0..source'[a]
  BY <1>1, <1>3, <1>4
<1>6. source' \in [Artifacts -> 1..releases' + 1]
  BY <1>2, <1>5
<1>7. FreshDiamond' = FreshDiamond /\ Facets' = Facets /\ Impls' = Impls /\ Artifacts' = Artifacts
      /\ CoreFacets' = CoreFacets /\ NoRun' = NoRun
  BY DEF FreshDiamond, Facets, Impls, Artifacts, CoreFacets, NoRun, FacetNames, MockNames
<1>8. Types'
  <2>1. \A a \in Artifacts : saved[a] = None \/ (saved[a].name = a /\ saved[a].code \in 1..source'[a])
    BY <1>5 DEF PipelineInv, Types
  <2>2. \A f \in Facets : diamond.routes[f] \in 0..source'[f]
    BY <1>5, NamesKnown DEF PipelineInv, Types
  <2>3. QED
    BY <1>1, <1>3, <1>6, <1>7, <2>1, <2>2 DEF PipelineInv, Types, Kinds, Idle
<1>9. Todo = {} /\ Promised = {} /\ run.kind = "none" /\ run.todo = <<>>
  <2>1. run.kind = "none" /\ run.todo = <<>>
    BY <1>1 DEF PipelineInv, Types, Idle
  <2>2. Todo = {}
    BY <2>1 DEF Todo
  <2>3. QED
    BY <2>1, <2>2 DEF Promised, Required
<1>10. Todo' = {} /\ Promised' = {}
  <2>1. Todo' = {}
    BY <1>1, <1>9 DEF Todo
  <2>2. QED
    BY <1>1, <1>9, <2>1 DEF Promised, Required
<1>11. Progress'
  <2>1. Phase(<<>>, 1, 11)'
    BY EmptyPhase, PTL
  <2>2. run'.todo = <<>>
    BY <1>1, <1>9
  <2>3. Phase(run.todo, 1, 11)'
    BY <2>1, <2>2
  <2>4. QED
    BY <1>10, <2>3 DEF Progress
<1>12. Chained'
  <2>1. Routed' = Routed /\ SavedABINeverStale' = SavedABINeverStale
    BY <1>1 DEF Routed, SavedABINeverStale, Facets, FacetNames, CoreFacets
  <2>2. QED
    BY <1>1, <1>7, <1>9, <2>1 DEF PipelineInv, Chained
<1>13. QED
  BY <1>1, <1>8, <1>11, <1>12 DEF PipelineInv, CompletedRunConfigures

LEMMA PausesKeep ==
  ASSUME PipelineInv, Pause \/ Unpause
  PROVE  PipelineInv'
<1>1. PICK p \in BOOLEAN : SetPaused(p)
  BY DEF Pause, Unpause
<1>2. /\ diamond' = [diamond EXCEPT !.paused = p] /\ diamond.routes["SecurityFacet"] # 0
      /\ UNCHANGED <<net, source, saved, abi, paymaster, run, completed, releases, crashes, extras>>
  BY <1>1 DEF SetPaused
<1>3. /\ diamond'.routes = diamond.routes /\ diamond'.impl = diamond.impl /\ diamond'.weth9 = diamond.weth9
      /\ diamond'.signer = diamond.signer /\ diamond'.paymaster = diamond.paymaster
      /\ diamond'.forwarder = diamond.forwarder /\ diamond'.adapters = diamond.adapters
      /\ diamond'.configurators = diamond.configurators /\ diamond'.paused = p
      /\ DOMAIN diamond' = DOMAIN diamond
  BY <1>2, DiamondFields DEF PipelineInv
<1>4. FreshDiamond' = FreshDiamond /\ Facets' = Facets /\ Impls' = Impls /\ Artifacts' = Artifacts
      /\ CoreFacets' = CoreFacets /\ NoRun' = NoRun
  BY DEF FreshDiamond, Facets, Impls, Artifacts, CoreFacets, NoRun, FacetNames, MockNames
<1>5. Types'
  BY <1>2, <1>3, <1>4 DEF PipelineInv, Types, Kinds, Idle
<1>6. \A x : Goal(x)' = Goal(x)
  <2>1. ReadStep' = ReadStep /\ CutStep' = CutStep /\ MergeStep' = MergeStep /\ Todo' = Todo
    BY <1>2 DEF ReadStep, CutStep, MergeStep, Step, Todo
  <2>2. CoreABI' = CoreABI /\ FacetABIs' = FacetABIs
    BY <1>2 DEF CoreABI, FacetABIs, Functions, FacetNames, CoreFacets
  <2>3. MergedABI(FacetABIs)' = MergedABI(FacetABIs)
    BY <2>2 DEF MergedABI
  <2>4. Matches' = Matches
    BY <1>2, <1>3 DEF Matches, Facets, FacetNames
  <2>5. \A a : Instance(a)' = Instance(a)
    BY <1>2 DEF Instance
  <2>6. QED
    BY <1>2, <1>3, <2>1, <2>2, <2>3, <2>4, <2>5, <1>4 DEF Goal
<1>7. Todo' = Todo /\ Promised' = Promised
  <2>1. Todo' = Todo
    BY <1>2 DEF Todo
  <2>2. QED
    BY <1>2, <2>1 DEF Promised, Required, AdapterConfigs, MergeStep, Step, FacetSteps, CommonSteps,
                CoreStep, ReadStep, CutStep, Facets, FacetNames, Needed, Impls, MarketAdapters
<1>8. \A x : Settled(x)' = Settled(x)
  BY <1>6, <1>7 DEF Settled, Rank, OpRank, DeployRank, Facets, FacetNames
<1>9. Progress'
  <2>1. Steps' = Steps
    BY <1>2 DEF Steps, AdapterConfigs
  <2>2. Phase(run.todo, 1, 11)'
    BY <1>2, <2>1 DEF PipelineInv, Progress, Phase, Rank, OpRank, DeployRank, Facets, FacetNames
  <2>3. ReadStep' = ReadStep /\ CutStep' = CutStep /\ MergeStep' = MergeStep
    BY DEF ReadStep, CutStep, MergeStep, Step
  <2>4. QED
    BY <1>7, <1>8, <2>2, <2>3 DEF PipelineInv, Progress
<1>10. Chained'
  <2>1. Routed' = Routed /\ SavedABINeverStale' = SavedABINeverStale
    BY <1>2, <1>3 DEF Routed, SavedABINeverStale, Facets, FacetNames, CoreFacets
  <2>2. CutStep' = CutStep /\ Settled(CutStep)' = Settled(CutStep)
    BY <1>8 DEF CutStep, Step
  <2>3. QED
    BY <1>2, <1>3, <1>4, <1>7, <2>1, <2>2 DEF PipelineInv, Chained
<1>11. CompletedRunConfigures'
  BY <1>2, SameConfiguration DEF PipelineInv
<1>12. QED
  BY <1>5, <1>9, <1>10, <1>11 DEF PipelineInv

LEMMA WorkingKeeps ==
  ASSUME PipelineInv, Working
  PROVE  PipelineInv'
<1>1. Types /\ Progress /\ Chained
  BY DEF PipelineInv
<1>2. Types' /\ Progress' /\ Chained'
  BY <1>1, WorkingTypes, WorkingProgress, WorkingChained
<1>3. completed' = "none"
  BY <1>1, WorkingAdvances
<1>4. QED
  BY <1>2, <1>3 DEF PipelineInv, CompletedRunConfigures

LEMMA StutterKeeps ==
  ASSUME PipelineInv, UNCHANGED vars
  PROVE  PipelineInv'
<1>1. UNCHANGED <<net, source, saved, abi, diamond, paymaster, run, completed, releases>>
  BY DEF vars
<1>2. FreshDiamond' = FreshDiamond /\ Facets' = Facets /\ Impls' = Impls /\ Artifacts' = Artifacts
      /\ CoreFacets' = CoreFacets /\ NoRun' = NoRun
  BY DEF FreshDiamond, Facets, Impls, Artifacts, CoreFacets, NoRun, FacetNames, MockNames
<1>3. Types'
  BY <1>1, <1>2 DEF PipelineInv, Types, Kinds, Idle
<1>4. Todo' = Todo /\ Promised' = Promised
  <2>1. Todo' = Todo
    BY <1>1 DEF Todo
  <2>2. QED
    BY <1>1, <2>1 DEF Promised, Required, AdapterConfigs, MergeStep, Step, FacetSteps, CommonSteps,
                CoreStep, ReadStep, CutStep, Facets, FacetNames, Needed, Impls, MarketAdapters
<1>5. \A x : Goal(x)' = Goal(x)
  <2>1. ReadStep' = ReadStep /\ CutStep' = CutStep /\ MergeStep' = MergeStep
    BY DEF ReadStep, CutStep, MergeStep, Step
  <2>2. CoreABI' = CoreABI /\ FacetABIs' = FacetABIs
    BY <1>1 DEF CoreABI, FacetABIs, Functions, FacetNames, CoreFacets
  <2>3. MergedABI(FacetABIs)' = MergedABI(FacetABIs)
    BY <2>2 DEF MergedABI
  <2>4. Matches' = Matches
    BY <1>1 DEF Matches, Facets, FacetNames
  <2>5. \A a : Instance(a)' = Instance(a)
    BY <1>1 DEF Instance
  <2>6. QED
    BY <1>1, <1>2, <1>4, <2>1, <2>2, <2>3, <2>4, <2>5 DEF Goal
<1>6. \A x : Settled(x)' = Settled(x)
  BY <1>4, <1>5 DEF Settled, Rank, OpRank, DeployRank, Facets, FacetNames
<1>7. Progress'
  <2>1. Steps' = Steps
    BY <1>1 DEF Steps, AdapterConfigs
  <2>2. Phase(run.todo, 1, 11)'
    BY <1>1, <2>1 DEF PipelineInv, Progress, Phase, Rank, OpRank, DeployRank, Facets, FacetNames
  <2>3. ReadStep' = ReadStep /\ CutStep' = CutStep /\ MergeStep' = MergeStep
    BY DEF ReadStep, CutStep, MergeStep, Step
  <2>4. QED
    BY <1>4, <1>6, <2>2, <2>3 DEF PipelineInv, Progress
<1>8. Chained'
  <2>1. Routed' = Routed /\ SavedABINeverStale' = SavedABINeverStale
    BY <1>1 DEF Routed, SavedABINeverStale, Facets, FacetNames, CoreFacets
  <2>2. CutStep' = CutStep /\ Settled(CutStep)' = Settled(CutStep)
    BY <1>6 DEF CutStep, Step
  <2>3. QED
    BY <1>1, <1>2, <1>4, <2>1, <2>2 DEF PipelineInv, Chained
<1>9. CompletedRunConfigures'
  BY <1>1, SameConfiguration DEF PipelineInv
<1>10. QED
  BY <1>3, <1>7, <1>8, <1>9 DEF PipelineInv

LEMMA InitPipeline ==
  ASSUME Init
  PROVE  PipelineInv
<1>1. run = NoRun /\ completed = "none" /\ releases = 0 /\ abi = {} /\ diamond = FreshDiamond
      /\ paymaster = FreshPaymaster /\ net \in Settings
      /\ source = [a \in Artifacts |-> 1] /\ saved = [a \in Artifacts |-> None]
  BY DEF Init
<1>2. Types
  <2>1. releases \in 0..MaxReleases /\ source \in [Artifacts -> 1..releases + 1]
    BY <1>1, BoundsAssumption
  <2>2. \A f \in Facets : diamond.routes[f] \in 0..source[f]
    <3>1. \A f \in Facets : diamond.routes[f] = 0 /\ source[f] = 1
      BY <1>1, FreshKnown, NamesKnown
    <3>2. QED
      BY <3>1
  <2>3. DOMAIN diamond = DOMAIN FreshDiamond /\ diamond.paused \in BOOLEAN
    BY <1>1, FreshKnown
  <2>4. /\ DOMAIN diamond.routes = Facets /\ DOMAIN diamond.impl = Impls
        /\ \A i \in Impls : diamond.impl[i] = None
    BY <1>1, FreshKnown
  <2>5. DOMAIN run = DOMAIN NoRun /\ run.kind = "none" /\ run.todo = <<>>
    BY <1>1 DEF NoRun
  <2>6. DOMAIN paymaster = {"forwarder", "hub"}
    BY <1>1 DEF FreshPaymaster
  <2>7. DOMAIN saved = Artifacts /\ \A a \in Artifacts : saved[a] = None
    BY <1>1
  <2>8. QED
    BY <1>1, <2>1, <2>2, <2>3, <2>4, <2>5, <2>6, <2>7 DEF Types, Kinds, Idle
<1>3. Progress
  BY <1>1, NoPromises
<1>4. Chained
  <2>1. ~Routed /\ (\A i \in Impls : diamond.impl[i] = None) /\ diamond.paused = FALSE
    BY <1>1, FreshKnown DEF Routed
  <2>2. SavedABINeverStale
    BY <1>1 DEF SavedABINeverStale
  <2>3. QED
    BY <2>1, <2>2 DEF Chained
<1>5. CompletedRunConfigures
  BY <1>1 DEF CompletedRunConfigures
<1>6. QED
  BY <1>2, <1>3, <1>4, <1>5 DEF PipelineInv

LEMMA NextPipeline ==
  ASSUME PipelineInv, [Next]_vars
  PROVE  PipelineInv'
<1>1. CASE StartDeploy \/ StartTagged \/ StartTask \/ StartFixture
  BY <1>1, StartsKeep
<1>2. CASE Working
  BY <1>2, WorkingKeeps
<1>3. CASE Finish \/ Abort \/ Crash
  BY <1>3, EndsKeep
<1>4. CASE Release
  BY <1>4, ReleaseKeeps
<1>5. CASE Pause \/ Unpause
  BY <1>5, PausesKeep
<1>6. CASE UNCHANGED vars
  BY <1>6, StutterKeeps
<1>7. QED
  BY <1>1, <1>2, <1>3, <1>4, <1>5, <1>6 DEF Next, RunStep, Working

\* The inductive invariant of the pipeline.
THEOREM PipelineInvariant == Spec => []PipelineInv
<1>1. Init => PipelineInv
  BY InitPipeline
<1>2. PipelineInv /\ [Next]_vars => PipelineInv'
  BY NextPipeline
<1>3. QED
  BY <1>1, <1>2, PTL DEF Spec

(***************************************************************************)
(* The properties.                                                         *)
(***************************************************************************)
LEMMA InvConsistent ==
  ASSUME PipelineInv
  PROVE  DeploymentConsistent
<1>1. Types /\ Chained
  BY DEF PipelineInv
<1>2. source \in [Artifacts -> 1 .. MaxReleases + 1]
  <2>1. releases \in Nat /\ MaxReleases \in Nat /\ releases <= MaxReleases
    BY <1>1, BoundsAssumption DEF Types
  <2>2. 1..releases + 1 \subseteq 1 .. MaxReleases + 1
    BY <2>1
  <2>3. QED
    BY <1>1, <2>2 DEF Types
<1>3. TypeOK
  BY <1>1, <1>2 DEF Types, TypeOK, Kinds, Facets
<1>4. QED
  BY <1>1, <1>3 DEF DeploymentConsistent, Chained

\* On every network and for every choice of tags, releases and bounds: the
\* saved ABI of Voyage has only functions the diamond routes, in the version
\* it routes, at every moment, also while a run is between its cut and the
\* save after it and after a run broke off there.
THEOREM PipelineConsistent == Spec => []DeploymentConsistent
<1>1. PipelineInv => DeploymentConsistent
  BY InvConsistent
<1>2. QED
  BY <1>1, PipelineInvariant, PTL

\* A run of deploy:dev or of the test fixture that reaches its end has brought
\* the whole system to the code in the repository, however many runs, tasks,
\* tags, crashes and exceptions came before it and wherever they broke off.
THEOREM RunsConfigure == Spec => []CompletedRunConfigures
<1>1. PipelineInv => CompletedRunConfigures
  BY DEF PipelineInv
<1>2. QED
  BY <1>1, PipelineInvariant, PTL

LEMMA PauseStep ==
  ASSUME PipelineInv, [Next]_vars, diamond.paused, ~diamond'.paused
  PROVE  Unpause \/ diamond'.routes # diamond.routes
<1>1. Types /\ Progress /\ Chained
  BY DEF PipelineInv
<1>2. CASE Working
  <2>1. CASE Cut
    <3>1. PICK f \in Facets : diamond.routes[f] # saved[f].code
      BY <1>1, <2>1, CutEffect DEF ChangesDetected, Facets
    <3>2. diamond'.routes[f] = saved[f].code
      BY <1>1, <2>1, CutEffect
    <3>3. QED
      BY <3>1, <3>2
  <2>2. CASE Deploy /\ Of = "Voyage"
    <3>1. diamond' = FreshDiamond
      BY <2>2 DEF Deploy
    <3>2. diamond'.routes["SecurityFacet"] = 0 /\ diamond.routes["SecurityFacet"] # 0
      BY <1>1, <3>1, FreshKnown, NamesKnown DEF Chained
    <3>3. QED
      BY <3>2
  <2>3. QED
    BY <1>1, <1>2, <2>1, <2>2, WorkingDiamond
<1>3. CASE Pause
  <2>1. diamond'.paused = TRUE
    BY <1>1, <1>3, DiamondFields DEF Pause, SetPaused
  <2>2. QED
    BY <2>1
<1>4. CASE diamond' = diamond
  BY <1>4
<1>5. QED
  BY <1>2, <1>3, <1>4
     DEF Next, RunStep, Working, StartDeploy, StartTagged, StartTask, StartFixture, Start,
         Finish, Abort, Crash, Release, vars

\* No run lifts a pause except by a cut that changes facets or by a diamond
\* deployed anew.
THEOREM PauseStays == Spec => PauseOutlivesRuns
<1>1. PipelineInv /\ [Next]_vars
        => [diamond.paused /\ ~diamond'.paused => Unpause \/ diamond'.routes # diamond.routes]_vars
  BY PauseStep
<1>2. QED
  BY <1>1, PipelineInvariant, PTL DEF Spec, PauseOutlivesRuns
=============================================================================
