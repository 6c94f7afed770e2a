------------------------------- MODULE Networks -------------------------------
(***************************************************************************)
(* Which addresses the deployment and operation scripts use on which       *)
(* network (helpers/task-helpers, helpers/constants.ts, hardhat.config.ts). *)
(* An address is named by where it comes from: <<"account", i>> is the     *)
(* i-th signer, <<table, id>> the entry of chain id in that table, None    *)
(* an entry that is not there (undefined in the code).                     *)
(***************************************************************************)
EXTENDS Integers, Sequences

CONSTANT None

Mainnet == 1
Rinkeby == 4
Goerli == 5
Hardhat == 31337
ExternalChains == {Mainnet, Rinkeby, Goerli}

\* The networks a command can name, with the chain ids its environment gives
\* the local and the tenderly ones, and the fork variable of the shell.
ConfiguredNetworks(localId, tenderlyId, forkOf) ==
  {[name |-> at[1], chainId |-> at[2], fork |-> forkOf] :
     at \in {<<"hardhat", localId>>, <<"localhost", localId>>,
             <<"tenderly", tenderlyId>>, <<"goerli", Goerli>>,
             <<"mainnet", Mainnet>>}}

NamedAccounts == [owner |-> 0, alice |-> 1, bob |-> 2, twapSigner |-> 3,
                  treasury |-> 9, forwarder |-> 10]

IsHardhat(net) == net.name \in {"localhost", "hardhat"}
IsTenderly(net) == net.name = "tenderly"
IsFork(net) == (IsHardhat(net) \/ IsTenderly(net)) /\ net.chainId # Hardhat
IsLocal(net) == IsHardhat(net) /\ ~IsFork(net)

\* The task every other task runs first: on a localhost that serves another
\* chain's id the fork variable is set to that chain's name.
SetHRE(net) ==
  IF net.name = "localhost" /\ net.chainId # Hardhat
    THEN [net EXCEPT !.fork = net.chainId]
    ELSE net

Entry(table, id) == IF id \in ExternalChains THEN <<table, id>> ELSE None
Account(name) == <<"account", NamedAccounts[name]>>

GetWETH9(net) == IF IsLocal(net) THEN <<"WETH9", Hardhat>> ELSE Entry("WETH_ADDRESS", net.chainId)
GetTreasury(net) ==
  IF IsLocal(net) THEN Account("treasury") ELSE Entry("TREASURY_ADDRESS", net.chainId)
GetTrustedForwarder(net) ==
  IF IsLocal(net) THEN Account("forwarder") ELSE Entry("FORWARDER_ADDRESS", net.chainId)
GetRelayHub(net) ==
  IF IsLocal(net) THEN Account("forwarder") ELSE Entry("RELAY_HUB_ADDRESS", net.chainId)
GetTwapSigner(net) ==
  IF IsLocal(net) THEN Account("twapSigner") ELSE Entry("TWAP_SIGNER_ADDRESS", net.chainId)

\* Marketplaces and the adapters they get; the task adds the mock.
MarketplaceAdapterConfiguration(net) ==
  IF net.chainId = Hardhat /\ net.fork = None
    THEN <<>>
    ELSE <<[marketplace |-> Entry("LOOKS_ADDRESS", net.chainId), adapter |-> "LooksRareAdapter"],
           [marketplace |-> <<"CROSS_CHAIN_SEAPORT_ADDRESS", 0>>, adapter |-> "SeaportAdapter"]>>
MockMarketplace == <<"MockMarketPlace", Hardhat>>
AdaptersToSet(net) ==
  MarketplaceAdapterConfiguration(net) \o
    IF IsHardhat(net)
      THEN <<[marketplace |-> MockMarketplace, adapter |-> "LooksRareAdapter"]>>
      ELSE <<>>
=============================================================================
