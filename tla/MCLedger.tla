------------------------------- MODULE MCLedger -------------------------------
(***************************************************************************)
(* The ledger under arbitrary callers on small instances, and beside it one  *)
(* entry's campaign over newsletter tables.  They share nothing: `part` says  *)
(* which of the two moves.                                                  *)
(***************************************************************************)
EXTENDS MailLedger, Campaign, TLC

VARIABLE part

Init == part \in {"ledger", "campaign"} /\ LedgerInit /\ (part # "ledger" => ~open) /\ CampaignInit
Next ==
  \/ part = "ledger" /\ LedgerNext /\ UNCHANGED <<part, tableVars, campaignVars>>
  \/ part = "campaign" /\ CampaignNext /\ UNCHANGED <<part, ledgerVars>>
Spec == Init /\ [][Next]_<<part, ledgerVars, tableVars, campaignVars>>

Symmetry == Permutations(Payloads)
=============================================================================
