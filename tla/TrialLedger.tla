---------------------------- MODULE TrialLedger ----------------------------
(***************************************************************************)
(* What the Phase 1 database promises to whoever reads trials from it: one *)
(* entry for each trial key, the whole of a job recorded at once, and no   *)
(* key ever lost.  A key that a job no longer has keeps its last entry.    *)
(* Nothing here knows about tables, savepoints, locks, files that do not   *)
(* parse or crashes; module ResultStore is the ingestion that keeps this   *)
(* promise, and its property RefinesLedger says so.                        *)
(***************************************************************************)

CONSTANTS
  Keys,   \* trial keys
  Parts,  \* what one job can bring: entries for some of the keys
  NULL

VARIABLE table  \* the entry of every trial key, NULL where there is none

LedgerInit == table = [k \in Keys |-> NULL]

\* The job replaces the entries it has, and leaves the others alone.
Record(part) ==
  table' = [k \in Keys |-> IF k \in DOMAIN part THEN part[k] ELSE table[k]]

LedgerNext == \E part \in Parts : Record(part)

LedgerSpec == LedgerInit /\ [][LedgerNext]_table

=============================================================================
