------------------------------ MODULE Deployment ------------------------------
(***************************************************************************)
(* The deployment pipeline: the scripts of deploy/ in their order, run by  *)
(* the task deploy:dev, which then configures the system                   *)
(* (tasks/migration/voyage.dev.ts), by a tag, or by the test fixture.      *)
(* A script's awaited effects are its steps; an exception in one ends the  *)
(* whole run, and so may a crash or a lost connection between any two.     *)
(* The operator then runs the task again, over whatever was left behind.   *)
(***************************************************************************)
EXTENDS Networks, SequencesExt, FiniteSets

CONSTANTS Settings,     \* networks and environments a run may be started in
          Releases,     \* sets of artifacts whose code changes together
          Tags,         \* tags a run may be restricted to
          MaxReleases, MaxCrashes, MaxExtras   \* bounds
ASSUME BoundsAssumption == {MaxReleases, MaxCrashes, MaxExtras} \subseteq Nat

VARIABLES net,        \* the network of this behaviour
          source,     \* version of each artifact in the repository
          saved,      \* saved deployments: the latest instance of each artifact
          abi,        \* the functions in the saved ABI of Voyage
          diamond,    \* state of the diamond on chain
          paymaster,  \* state of the saved paymaster on chain
          run,        \* the run in progress
          completed,  \* the kind of run that was the last one to finish, if it did
          releases, crashes, extras
vars == <<net, source, saved, abi, diamond, paymaster, run, completed, releases, crashes, extras>>

CoreFacets == {"DiamondCutFacet", "DiamondLoupeFacet", "OwnershipFacet"}
FacetNames == <<"SecurityFacet", "LiquidityFacet", "LiquidateFacet", "LoanFacet",
                "RepaymentFacet", "VaultFacet", "ConfigurationFacet",
                "DataProviderFacet", "OracleFacet">>
Impls == {"Vault", "JuniorDepositToken", "SeniorDepositToken"}
MockNames == <<"WETH9", "MockForwarder", "Crab", "MockMarketPlace", "MockSeaport">>
Artifacts ==
  ToSet(MockNames) \cup Impls \cup ToSet(FacetNames)
    \cup {"LooksRareAdapter", "SeaportAdapter", "WadRayMath", "DefaultReserveInterestRateStrategy",
          "PriceOracle", "Voyage", "InitDiamond", "VoyagePaymaster", "VoyageReserveConfigurator"}

-----------------------------------------------------------------------------
(* The scripts. *)

Step(op, of) == [op |-> op, of |-> of]
Deploys(names) == [i \in DOMAIN names |-> Step("deploy", names[i])]
Do(op) == <<Step(op, None)>>

Mocks == IF IsHardhat(net) THEN Deploys(MockNames) ELSE <<>>
VTokens == Deploys(<<"JuniorDepositToken", "SeniorDepositToken">>)
VaultScript == Deploys(<<"Vault">>)
Adapters == Deploys(<<"LooksRareAdapter", "SeaportAdapter">>)
RateStrategy == Deploys(<<"WadRayMath", "DefaultReserveInterestRateStrategy">>)
Oracle == Deploys(<<"PriceOracle">>)
DiamondScript_KeepsABI == Deploys(<<"Voyage">>)
DiamondScript == Deploys(<<"Voyage">>) \o Do("saveCoreABI")
FacetsScript == Do("readVoyage") \o Deploys(FacetNames) \o Do("deployInit") \o Do("cut") \o Do("saveMergedABI")
PaymasterScript == Deploys(<<"VoyagePaymaster">>) \o Do("firstForwarder") \o Do("firstHub")
ConfiguratorScript == Deploys(<<"VoyageReserveConfigurator">>)

\* In the order of their file names, which dependencies respect.
Scripts ==
  <<[tag |-> "Mocks", needs |-> {}, steps |-> Mocks],
    [tag |-> "VToken", needs |-> {}, steps |-> VTokens],
    [tag |-> "Vault", needs |-> {}, steps |-> VaultScript],
    [tag |-> "Adapters", needs |-> {}, steps |-> Adapters],
    [tag |-> "InterestRateStrategy", needs |-> {}, steps |-> RateStrategy],
    [tag |-> "Oracle", needs |-> {}, steps |-> Oracle],
    [tag |-> "Diamond", needs |-> {}, steps |-> DiamondScript],
    [tag |-> "Facets", needs |-> {"Diamond"}, steps |-> FacetsScript],
    [tag |-> "Paymaster", needs |-> {"Diamond", "Facets"}, steps |-> PaymasterScript],
    [tag |-> "Configurator", needs |-> {"Diamond", "Facets"}, steps |-> ConfiguratorScript]>>
AllTags == {"Mocks", "VToken", "Vault", "Adapters", "InterestRateStrategy", "Oracle", "Diamond",
            "Facets", "Paymaster", "Configurator"}
Selected(tags) ==
  LET needed == tags \cup UNION {s.needs : s \in {t \in ToSet(Scripts) : t.tag \in tags}}
      Kept(s) == IF s.tag \in needed THEN s.steps ELSE <<>>
  IN FlattenSeq([i \in DOMAIN Scripts |-> Kept(Scripts[i])])

\* The tasks that configure the diamond, each by the transactions it awaits.
ConfigureAdapters ==
  [i \in DOMAIN AdaptersToSet(SetHRE(net)) |-> Step("adapter", AdaptersToSet(SetHRE(net))[i])]
ConfigureVaultImpl == <<Step("impl", "Vault")>>
ConfigureJdImpl == <<Step("impl", "JuniorDepositToken")>>
ConfigureSdImpl == <<Step("impl", "SeniorDepositToken")>>
ConfigureGSN == Do("gsn")
ConfigureOracleSigner == Do("signer")
ConfigureConfigurator == Do("authorize")

DeployDev_NoVaultImpl(tags) ==
  Selected(tags) \o ConfigureAdapters \o ConfigureGSN
    \o ConfigureJdImpl \o ConfigureSdImpl \o ConfigureOracleSigner
DeployDev(tags) ==
  Selected(tags) \o ConfigureAdapters \o ConfigureVaultImpl \o ConfigureGSN
    \o ConfigureJdImpl \o ConfigureSdImpl \o ConfigureOracleSigner
Fixture ==
  Selected(AllTags) \o Do("forwarder") \o ConfigureGSN \o ConfigureConfigurator \o ConfigureOracleSigner
Tasks == {ConfigureAdapters, ConfigureVaultImpl, ConfigureJdImpl, ConfigureSdImpl,
          ConfigureGSN, ConfigureOracleSigner, ConfigureConfigurator}

-----------------------------------------------------------------------------
(* What a step needs and does. *)

BoundToVoyage == {"VoyagePaymaster", "VoyageReserveConfigurator"}
UsesWETH9 == {"MockMarketPlace", "MockSeaport", "SeaportAdapter", "VoyagePaymaster"}
\* An instance is known by the code and the constructor arguments it was
\* deployed with; of the arguments only the diamond's address ever changes.
Instance(a) ==
  [name |-> a, code |-> source[a],
   voyage |-> IF a \in BoundToVoyage THEN saved["Voyage"].code ELSE 0]
WETH9Known == IF IsLocal(net) THEN saved["WETH9"] # None ELSE GetWETH9(net) # None
CanDeploy(a) ==
  /\ a \in UsesWETH9 => WETH9Known
  /\ a = "LooksRareAdapter" /\ IsLocal(net) => WETH9Known
  /\ a \in BoundToVoyage => saved["Voyage"] # None
  /\ a = "VoyagePaymaster" => GetTreasury(net) # None
\* hardhat-deploy does nothing for an artifact deployed as it is now.
NewlyDeployed(a) == saved[a] # Instance(a)

\* mergeABIs throws when two of the ABIs share a function.
Functions(facets, version) == {[fn |-> f, code |-> version[f]] : f \in facets}
Shadowed(abis) ==
  \E i, j \in DOMAIN abis : i < j /\ \E f \in abis[i], g \in abis[j] : f.fn = g.fn
MergedABI(abis) == UNION ToSet(abis)
CoreABI == Functions(CoreFacets, [f \in CoreFacets |-> 0])
FacetABIs == [i \in DOMAIN FacetNames |-> Functions({FacetNames[i]}, [f \in {FacetNames[i]} |-> saved[f].code])]

Callable(f) == \E x \in abi : x.fn = f /\ diamond.routes[f] # 0
ChangesDetected_Always == TRUE
ChangesDetected == \E f \in ToSet(FacetNames) : diamond.routes[f] # saved[f].code

\* No deployment of the diamond has been initialised or configured yet.
FreshDiamond ==
  [routes |-> [f \in ToSet(FacetNames) |-> 0], impl |-> [i \in Impls |-> None], weth9 |-> None,
   adapters |-> <<>>, paymaster |-> None, forwarder |-> None, signer |-> None,
   configurators |-> {}, paused |-> FALSE]
FreshPaymaster == [forwarder |-> None, hub |-> None]

\* InitDiamond.init, run by the cut: roles and beacons only where there are none.
Initialised(d) ==
  [d EXCEPT !.weth9 = GetWETH9(net), !.paused = FALSE,
            !.impl = [i \in Impls |-> IF d.impl[i] = None THEN saved[i] ELSE d.impl[i]]]
AfterCut == Initialised([diamond EXCEPT !.routes = [f \in DOMAIN diamond.routes |-> saved[f].code]])

\* Steps that a run of what is already there passes over.
Applies(s) ==
  CASE s.op \in {"deployInit", "cut"} -> ChangesDetected
    [] s.op \in {"firstForwarder", "firstHub"} -> run.newPaymaster
    [] s.op = "deploy" -> CanDeploy(s.of) => NewlyDeployed(s.of)
    [] OTHER -> TRUE

Possible(s) ==
  CASE s.op = "deploy" -> CanDeploy(s.of)
    [] s.op = "readVoyage" -> saved["Voyage"] # None /\ CoreABI \subseteq abi
    [] s.op = "cut" -> WETH9Known /\ \A i \in Impls : saved[i] # None
    [] s.op = "saveMergedABI" -> ~Shadowed(<<run.base>> \o FacetABIs)
    [] s.op \in {"firstForwarder", "forwarder"} -> saved["VoyagePaymaster"] # None /\ GetTrustedForwarder(net) # None
    [] s.op = "firstHub" -> GetRelayHub(net) # None
    [] s.op = "adapter" ->
         /\ Callable("ConfigurationFacet") /\ s.of.marketplace # None
         /\ \A c \in ToSet(AdaptersToSet(SetHRE(net))) : saved[c.adapter] # None
         /\ IsHardhat(net) => saved["MockMarketPlace"] # None
    [] s.op = "impl" ->
         Callable(IF s.of = "Vault" THEN "VaultFacet" ELSE "ConfigurationFacet") /\ saved[s.of] # None
    [] s.op = "gsn" ->
         /\ Callable("ConfigurationFacet") /\ saved["VoyagePaymaster"] # None
         /\ GetTrustedForwarder(net) # None /\ paymaster.forwarder = GetTrustedForwarder(net)
    [] s.op = "signer" -> Callable("ConfigurationFacet") /\ GetTwapSigner(net) # None
    [] s.op = "authorize" -> Callable("SecurityFacet") /\ saved["VoyageReserveConfigurator"] # None
    [] OTHER -> TRUE

-----------------------------------------------------------------------------
Idle == run.kind = "none"
NoRun == [kind |-> "none", todo |-> <<>>, base |-> {}, newPaymaster |-> FALSE]

Init ==
  /\ net \in Settings
  /\ source = [a \in Artifacts |-> 1]
  /\ saved = [a \in Artifacts |-> None]
  /\ abi = {}
  /\ diamond = FreshDiamond
  /\ paymaster = FreshPaymaster
  /\ run = NoRun
  /\ completed = "none"
  /\ releases = 0 /\ crashes = 0 /\ extras = 0

Start(kind, steps) ==
  /\ Idle
  /\ run' = [NoRun EXCEPT !.kind = kind, !.todo = steps]
  /\ completed' = "none"
  /\ UNCHANGED <<net, source, saved, abi, diamond, paymaster, releases, crashes>>
\* The chain of the hardhat network lives in the process of one command; the
\* others outlive a run.
Lasting == net.name # "hardhat"
\* deploy:dev, until it has completed once for the code as it is.
StartDeploy ==
  /\ Lasting /\ completed # "full"
  /\ Start("full", DeployDev(AllTags)) /\ UNCHANGED extras
StartTagged ==
  /\ Lasting /\ extras < MaxExtras /\ extras' = extras + 1
  /\ \E tag \in Tags : Start("tagged", DeployDev({tag}))
StartTask ==
  /\ Lasting /\ extras < MaxExtras /\ extras' = extras + 1
  /\ \E task \in Tasks : Start("task", task)
\* Tests run in the hardhat process, from nothing.
StartFixture ==
  /\ ~Lasting /\ \A a \in Artifacts : saved[a] = None
  /\ Start("fixture", Fixture) /\ UNCHANGED extras

\* The next step of the run is s: it succeeds.
Takes(op) ==
  /\ run.todo # <<>> /\ Head(run.todo).op = op
  /\ Applies(Head(run.todo)) /\ Possible(Head(run.todo))
  /\ UNCHANGED <<net, source, completed, releases, crashes, extras>>
Advanced == [run EXCEPT !.todo = Tail(@)]
Of == Head(run.todo).of
OnDiamond(d) == diamond' = d /\ run' = Advanced /\ UNCHANGED <<saved, abi, paymaster>>

Deploy ==
  /\ Takes("deploy")
  /\ saved' = [saved EXCEPT ![Of] = Instance(Of)]
  /\ diamond' = IF Of = "Voyage" THEN FreshDiamond ELSE diamond
  /\ abi' = IF Of = "Voyage" THEN {} ELSE abi
  /\ paymaster' = IF Of = "VoyagePaymaster" THEN FreshPaymaster ELSE paymaster
  /\ run' = [Advanced EXCEPT !.newPaymaster = @ \/ Of = "VoyagePaymaster"]
SaveCoreABI_OnlyNew ==
  /\ Takes("saveCoreABI") /\ run' = Advanced /\ UNCHANGED <<saved, diamond, paymaster>>
  /\ abi' = IF abi = {} THEN CoreABI ELSE abi
SaveCoreABI ==
  Takes("saveCoreABI") /\ abi' = CoreABI /\ run' = Advanced /\ UNCHANGED <<saved, diamond, paymaster>>
ReadVoyage ==
  /\ Takes("readVoyage")
  /\ run' = [Advanced EXCEPT !.base = abi]
  /\ UNCHANGED <<saved, abi, diamond, paymaster>>
DeployInit ==
  /\ Takes("deployInit")
  /\ saved' = [saved EXCEPT !["InitDiamond"] = Instance("InitDiamond")]
  /\ run' = Advanced /\ UNCHANGED <<abi, diamond, paymaster>>
Cut == Takes("cut") /\ OnDiamond(AfterCut)
SaveMergedABI ==
  /\ Takes("saveMergedABI")
  /\ abi' = MergedABI(<<run.base>> \o FacetABIs)
  /\ run' = Advanced /\ UNCHANGED <<saved, diamond, paymaster>>
SetTrustedForwarder ==
  /\ Takes("firstForwarder") \/ Takes("forwarder")
  /\ paymaster' = [paymaster EXCEPT !.forwarder = GetTrustedForwarder(net)]
  /\ run' = Advanced /\ UNCHANGED <<saved, abi, diamond>>
SetRelayHub ==
  /\ Takes("firstHub")
  /\ paymaster' = [paymaster EXCEPT !.hub = GetRelayHub(net)]
  /\ run' = Advanced /\ UNCHANGED <<saved, abi, diamond>>
UpdateMarketPlaceData ==
  /\ Takes("adapter")
  /\ OnDiamond([diamond EXCEPT !.adapters =
       [m \in DOMAIN @ \cup {Of.marketplace} |->
          IF m = Of.marketplace THEN saved[Of.adapter] ELSE @[m]]])
SetImpl_Copied ==
  Takes("impl") /\ OnDiamond([diamond EXCEPT !.impl[Of] = saved["JuniorDepositToken"]])
SetImpl == Takes("impl") /\ OnDiamond([diamond EXCEPT !.impl[Of] = saved[Of]])
SetGSNConfiguration ==
  /\ Takes("gsn")
  /\ OnDiamond([diamond EXCEPT !.paymaster = saved["VoyagePaymaster"],
                               !.forwarder = GetTrustedForwarder(net)])
SetOracleSigner == Takes("signer") /\ OnDiamond([diamond EXCEPT !.signer = GetTwapSigner(net)])
AuthorizeConfigurator ==
  /\ Takes("authorize")
  /\ OnDiamond([diamond EXCEPT !.configurators = @ \cup {saved["VoyageReserveConfigurator"]}])

\* A step that has nothing to do.
PassOver ==
  /\ run.todo # <<>> /\ ~Applies(Head(run.todo))
  /\ run' = Advanced
  /\ UNCHANGED <<net, source, saved, abi, diamond, paymaster, completed, releases, crashes, extras>>
Finish ==
  /\ ~Idle /\ run.todo = <<>>
  /\ run' = NoRun /\ completed' = run.kind
  /\ UNCHANGED <<net, source, saved, abi, diamond, paymaster, releases, crashes, extras>>
\* An exception leaves every later step undone.
Abort ==
  /\ run.todo # <<>> /\ Applies(Head(run.todo)) /\ ~Possible(Head(run.todo))
  /\ run' = NoRun
  /\ UNCHANGED <<net, source, saved, abi, diamond, paymaster, completed, releases, crashes, extras>>
Crash ==
  /\ ~Idle /\ crashes < MaxCrashes
  /\ crashes' = crashes + 1 /\ run' = NoRun
  /\ UNCHANGED <<net, source, saved, abi, diamond, paymaster, completed, releases, extras>>

\* The code in the repository changes.
Release ==
  /\ Idle /\ releases < MaxReleases
  /\ releases' = releases + 1 /\ completed' = "none"
  /\ \E changed \in Releases :
       source' = [a \in Artifacts |-> source[a] + IF a \in changed THEN 1 ELSE 0]
  /\ UNCHANGED <<net, saved, abi, diamond, paymaster, run, crashes, extras>>
\* An administrator, not through the saved ABI.
SetPaused(p) ==
  /\ diamond.routes["SecurityFacet"] # 0 /\ diamond.weth9 # None
  /\ diamond.paused # p
  /\ diamond' = [diamond EXCEPT !.paused = p]
  /\ UNCHANGED <<net, source, saved, abi, paymaster, run, completed, releases, crashes, extras>>
Pause == SetPaused(TRUE)
Unpause == SetPaused(FALSE)

RunStep ==
  \/ Deploy \/ SaveCoreABI \/ ReadVoyage \/ DeployInit \/ Cut \/ SaveMergedABI
  \/ SetTrustedForwarder \/ SetRelayHub \/ UpdateMarketPlaceData \/ SetImpl
  \/ SetGSNConfiguration \/ SetOracleSigner \/ AuthorizeConfigurator
  \/ PassOver \/ Finish \/ Abort
Next ==
  \/ StartDeploy \/ StartTagged \/ StartTask \/ StartFixture
  \/ RunStep \/ Crash \/ Release \/ Pause \/ Unpause

Spec == Init /\ [][Next]_vars
\* A started run goes on to its end, and the operator starts deploy:dev again
\* as long as it has not completed; crashes and releases are bounded.
FairSpec == Spec /\ WF_vars(RunStep) /\ WF_vars(StartDeploy)

-----------------------------------------------------------------------------
(* Properties. *)

\* Every address the scripts look up is known in the run's environment.
Supported ==
  /\ IsLocal(net) \/ net.chainId \in ExternalChains
  /\ \A c \in ToSet(AdaptersToSet(SetHRE(net))) : c.marketplace # None
Configured ==
  /\ \A i \in Impls : saved[i] = Instance(i) /\ diamond.impl[i] = saved[i]
  /\ \A f \in ToSet(FacetNames) : diamond.routes[f] = source[f]
  /\ abi = CoreABI \cup MergedABI(FacetABIs)
  /\ diamond.weth9 = GetWETH9(net) /\ diamond.signer = GetTwapSigner(net)
  /\ diamond.paymaster = Instance("VoyagePaymaster") /\ diamond.forwarder = GetTrustedForwarder(net)
  /\ paymaster.forwarder = diamond.forwarder
AdaptersConfigured ==
  \A c \in ToSet(AdaptersToSet(SetHRE(net))) :
    /\ c.marketplace \in DOMAIN diamond.adapters
    /\ diamond.adapters[c.marketplace] = Instance(c.adapter)

\* Types of the variables; the bounds are respected.
TypeOK ==
  /\ net \in Settings
  /\ source \in [Artifacts -> 1 .. MaxReleases + 1]
  /\ \A a \in Artifacts : saved[a] # None => saved[a].name = a /\ saved[a].code \in 1 .. source[a]
  /\ \A x \in abi : x.fn \in CoreFacets \cup ToSet(FacetNames)
  /\ \A f \in ToSet(FacetNames) : diamond.routes[f] \in 0 .. source[f]
  /\ \A i \in Impls : diamond.impl[i] # None => diamond.impl[i].name = i
  /\ run.kind \in {"none", "full", "tagged", "task", "fixture"}
  /\ completed \in {"none", "full", "tagged", "task", "fixture"}

\* A run of deploy:dev that reaches its end has brought everything to the
\* code in the repository, whatever an earlier run that broke off, a run
\* restricted to a tag or a task left behind: facets, their ABI, the
\* implementations behind the beacons, adapters, GSN and oracle signer. The
\* test fixture ends in the same configuration, with the configurator
\* authorised instead of the adapters set.
CompletedRunConfigures ==
  /\ completed \in {"full", "fixture"} => Configured
  /\ completed = "full" => AdaptersConfigured
  /\ completed = "fixture" => Instance("VoyageReserveConfigurator") \in diamond.configurators

\* At every moment, also between a cut and the next save and after a run
\* broke off there, the saved ABI of Voyage has only functions the diamond
\* routes, in the version it routes: a task may miss a function of the
\* diamond but never calls one that is gone.
SavedABINeverStale == \A x \in abi : x.fn \in CoreFacets \/ diamond.routes[x.fn] = x.code

\* Both together.
DeploymentConsistent == TypeOK /\ SavedABINeverStale

\* A pause ends by unpause or with a cut that changes facets (which runs
\* InitDiamond.init): runs that find nothing to cut, upgrade implementations
\* or only configure leave the system paused.
PauseOutlivesRuns ==
  [][diamond.paused /\ ~diamond'.paused => Unpause \/ diamond'.routes # diamond.routes]_vars

\* A saved paymaster whose run broke off before its forwarder was set: no
\* later run sets it, and dev:configure-gsn fails on it.
Stranded ==
  /\ saved["VoyagePaymaster"] # None /\ saved["VoyagePaymaster"] = Instance("VoyagePaymaster")
  /\ paymaster.forwarder # GetTrustedForwarder(net)
\* Run again after every failure, deploy:dev completes in the end wherever the
\* earlier runs broke off, except with a stranded paymaster: nothing else an
\* interrupted run leaves behind makes the next ones fail.
RetriesComplete == Supported /\ Lasting => <>[](completed = "full" \/ Stranded)
=============================================================================
