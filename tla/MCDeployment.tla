----------------------------- MODULE MCDeployment -----------------------------
(***************************************************************************)
(* Networks and releases for checking Deployment with TLC.                 *)
(***************************************************************************)
EXTENDS Deployment

On(name, id, forkOf) == [name |-> name, chainId |-> id, fork |-> forkOf]
\* The tests' own chain, a local node, a fork as README.md starts it, the same
\* without the chain id it asks for, a fork of a chain the tables do not have,
\* tenderly and a public network.
MCSettings ==
  {On("hardhat", Hardhat, None), On("localhost", Hardhat, None), On("localhost", Rinkeby, Rinkeby),
   On("localhost", Hardhat, Rinkeby), On("localhost", 10, None), On("tenderly", Mainnet, None),
   On("goerli", Goerli, None)}
ASSUME AllConfigured ==
  \A s \in MCSettings : \E id \in {Hardhat, Rinkeby, 10} : s \in ConfiguredNetworks(id, Mainnet, s.fork)
MCLocal == {On("localhost", Hardhat, None)}

MCReleases == {{"LoanFacet"}, {"Vault"}, {"Voyage"}, {"VoyagePaymaster", "SeaportAdapter"}}
=============================================================================
