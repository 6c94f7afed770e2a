---------------------------- MODULE MCVaultFunding ----------------------------
(***************************************************************************)
(* Settings for checking VaultFunding with TLC.                            *)
(***************************************************************************)
EXTENDS VaultFunding

CONSTANTS p1, p2

\* Two processes at once while the currency changes; every task, one after the
\* other; dev:bootstrap-user over what dev:poc left; and an operator who
\* repeats dev:create-vault next to another process.
AtOnce(mining) ==
  [mining |-> mining, processes |-> {p1, p2}, tasks |-> {"create-vault", "poc"},
   receivers |-> {Owner, Bob}, changes |-> TRUE, retries |-> FALSE,
   salts |-> 2, runs |-> 2, crashes |-> 1]
OneByOne(mining) ==
  [AtOnce(mining) EXCEPT !.processes = {p1}, !.changes = FALSE, !.salts = 3, !.runs = 3,
     !.tasks = {"create-vault", "poc", "fund-vault --sendeth", "deposit-weth", "unwrap-weth", "fixture"}]
Bootstraps ==
  [OneByOne("auto") EXCEPT !.tasks = {"poc", "bootstrap-user"}, !.salts = 4, !.runs = 4, !.crashes = 2]
Repeated(mining) ==
  [AtOnce(mining) EXCEPT !.tasks = {"create-vault"}, !.receivers = {Owner}, !.changes = FALSE,
     !.retries = TRUE, !.salts = 7, !.runs = 1]
MCSettings ==
  UNION {{AtOnce(m), OneByOne(m), Repeated(m)} : m \in {"auto", "interval"}} \cup {Bootstraps}
=============================================================================
