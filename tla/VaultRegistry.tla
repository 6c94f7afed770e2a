---------------------------- MODULE VaultRegistry ----------------------------
(***************************************************************************)
(* What the protocol promises about vaults: a user gets at most one, gets  *)
(* it once, keeps it, and shares it with nobody.                           *)
(***************************************************************************)
CONSTANTS Users, Vaults, Zero   \* Zero: the address that stands for no vault

VARIABLES vaultMap,  \* the vault of each user, or Zero
          vaults     \* all vaults

Init == vaultMap = [u \in Users |-> Zero] /\ vaults = {}

\* LibVault.recordVault
Record(u, v) ==
  /\ vaultMap[u] = Zero /\ v \notin vaults
  /\ vaultMap' = [vaultMap EXCEPT ![u] = v]
  /\ vaults' = vaults \cup {v}

Next == \E u \in Users, v \in Vaults : Record(u, v)
Spec == Init /\ [][Next]_<<vaultMap, vaults>>
=============================================================================
