---------------------------- MODULE MCReserveSetup ----------------------------
(***************************************************************************)
(* Selections of scripts for checking ReserveSetup with TLC: none (which   *)
(* runs all), and some a person may choose.                                *)
(***************************************************************************)
EXTENDS ReserveSetup

\* No deactivation where blocks come at intervals: one that a process left
\* pending when it died may be mined after the next run has read the status,
\* and then undoes what that run reports.
MCManual ==
  LET always == {"configurator", "treasury", "loan", "strategy", "oracle", "staleness", "tolerance",
                 "deposit", "activate"}
  IN [auto |-> always \cup {"deactivate"}, interval |-> always]

MCSelections ==
  {{}, {"0001_create_reserve"}, {"0003_deposit_reserve"}, {"0005_buyNow", "0008_update_oracle_price"},
   {"0001_create_reserve", "0009_send_weth"}}
=============================================================================
