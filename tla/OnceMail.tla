------------------------------- MODULE OnceMail -------------------------------
(***************************************************************************)
(* What the mail worker promises (tests/test_sender_idem.py, line 2): one   *)
(* logical mail never earns two acceptances, and a mail is reported sent    *)
(* only after it was accepted, for good.  Nothing here knows of keys,       *)
(* claims, leases or windows.                                              *)
(***************************************************************************)
CONSTANT Mails

VARIABLES deliveries,  \* the accepted mails, as <<mail, message id>>
          told         \* the mails the ledger reports as sent

Delivered(m) == \E d \in deliveries : d[1] = m

OnceInit == deliveries = {} /\ told = {}

Deliver(m) ==
  /\ ~Delivered(m)
  /\ \E d \in deliveries' : d[1] = m /\ deliveries' = deliveries \cup {d}
  /\ told' = told

Report(m) ==
  /\ Delivered(m)
  /\ told' = told \cup {m}
  /\ deliveries' = deliveries

OnceNext == \E m \in Mails : Deliver(m) \/ Report(m)

OnceSpec == OnceInit /\ [][OnceNext]_<<deliveries, told>>
=============================================================================
