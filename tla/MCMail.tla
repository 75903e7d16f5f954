-------------------------------- MODULE MCMail --------------------------------
(* The mail worker, the ledger and the provider on small instances. *)
EXTENDS MailSender, TLC

Symmetry == Permutations(Workers)

\* The consumer stays enrolled: enrolment is the budget run's question.
Enrolled == open

\* What an idle worker returned last influences nothing.
Unreported == <<ledgerVars, [w \in Workers |-> [worker[w] EXCEPT !.out = "none"]],
                wire, providerVars>>
=============================================================================
