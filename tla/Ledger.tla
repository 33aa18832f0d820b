------------------------------- MODULE Ledger -------------------------------
(***************************************************************************)
(* What the trades table promises about one filled order: it is entered,   *)
(* its exit is booked only after the broker has sold the contract, and a   *)
(* booked exit is never taken back, however often it is written again.     *)
(***************************************************************************)
VARIABLES sold,   \* the broker has sold the contract
          entry   \* of the table: "none", "open", "closed"

ledgerVars == <<sold, entry>>

LedgerInit == sold = FALSE /\ entry = "none"

Sell == ~sold /\ sold' = TRUE /\ UNCHANGED entry
Enter == entry = "none" /\ entry' = "open" /\ UNCHANGED sold
Book == sold /\ entry = "open" /\ entry' = "closed" /\ UNCHANGED sold

LedgerNext == Sell \/ Enter \/ Book

LedgerSpec == LedgerInit /\ [][LedgerNext]_ledgerVars
=============================================================================
