------------------------------- MODULE ERC4626 -------------------------------
(***************************************************************************)
(* Conversions between the underlying asset and the shares of a tokenized  *)
(* vault, as functions of the vault's share supply and total assets.  An   *)
(* empty vault converts one to one.  ConvertToShares and PreviewWithdraw   *)
(* divide by the total assets and revert when there are shares but no      *)
(* assets; their callers state that as Convertible.                        *)
(***************************************************************************)
EXTENDS Integers

\* FixedPointMathLib of solmate; z # 0.
MulDivDown(x, y, z) == (x * y) \div z
MulDivUp(x, y, z) == (x * y + z - 1) \div z

Convertible(supply, total) == supply = 0 \/ total # 0

ConvertToShares(assets, supply, total) ==
  IF supply = 0 THEN assets ELSE MulDivDown(assets, supply, total)

ConvertToAssets(shares, supply, total) ==
  IF supply = 0 THEN shares ELSE MulDivDown(shares, total, supply)

PreviewMint_RoundedDown(shares, supply, total) ==
  IF supply = 0 THEN shares ELSE MulDivDown(shares, total, supply)

PreviewMint(shares, supply, total) ==
  IF supply = 0 THEN shares ELSE MulDivUp(shares, total, supply)

PreviewWithdraw(assets, supply, total) ==
  IF supply = 0 THEN assets ELSE MulDivUp(assets, supply, total)
=============================================================================
