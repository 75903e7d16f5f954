------------------------------- MODULE Campaign -------------------------------
(***************************************************************************)
(* One patch-notes entry on its way to the readers: the owner test, its      *)
(* approval and the gate (mail/sql/002), and Mailer.campaign, which works     *)
(* through a list of recipients while they leave and come back.              *)
(*                                                                         *)
(* The sends are used through what the ledger and the worker promise: a       *)
(* logical mail is bound to one body, and a body that was claimed may be       *)
(* accepted at any later time, its sender alive or not.                      *)
(***************************************************************************)
EXTENDS Newsletter, Sequences

CONSTANTS Owner,         \* DEWFPGA_OWNER_EMAIL
          Mailers,       \* campaign runs that may overlap
          ApprovalLife,  \* 14 days
          MaxTests       \* bound on the owner tests of the entry

VARIABLES tests,     \* the ledger's owner_test rows, in the order of their ids
          testing,   \* the token an owner-test command read, or NoToken
          approval,  \* the row of the entry in dewfpga_mail_approvals
          camp,      \* Mailers -> the state of one campaign run
          intent,    \* Addresses -> the token in the body the campaign's mail is bound to
          letters,   \* <<address, token>> of the accepted campaign mails
          proven     \* the consents that were confirmed (history)

campaignVars == <<tests, testing, approval, camp, intent, letters, proven>>

TestStatus == {"reserved", "sent", "failed", "released", "unknown"}
NoApproval == [test |-> 0, at |-> 0, measured |-> FALSE]
NoItemYet  == [addr |-> Owner, id |-> 0, unsub |-> NoToken]

-----------------------------------------------------------------------------
(* Mailer.owner_test: the owner's own subscription, then _send.             *)

ReadOwner ==
  /\ testing = NoToken /\ Owner \in Recipients
  /\ testing' = subscribers[Owner].unsub
  /\ UNCHANGED <<tests, approval, camp, intent, letters>>

\* The key holds the token: a new consent gets a new row, and so does a refusal.
MayTest(token) ==
  \A j \in DOMAIN tests : tests[j].token = token => tests[j].status = "failed"

SendTest ==
  /\ testing # NoToken /\ testing' = NoToken
  /\ \/ /\ MayTest(testing) /\ Len(tests) < MaxTests
        /\ tests' = Append(tests, [token |-> testing, status |-> "reserved", first |-> today])
     \/ tests' = tests
  /\ UNCHANGED <<approval, camp, intent, letters>>

\* What a claim, a later claim, or the operator makes of an open row.
TestSettles(j) ==
  /\ \E status \in TestStatus :
       /\ \/ tests[j].status = "reserved"
          \/ tests[j].status = "unknown" /\ status \in {"sent", "failed"}
       /\ tests' = [tests EXCEPT ![j].status = status]
  /\ UNCHANGED <<testing, approval, camp, intent, letters>>

-----------------------------------------------------------------------------
(* dewfpga_mail_approve and dewfpga_mail_campaign_gate                      *)

Newest(S) == CHOOSE j \in S : \A i \in S : i <= j
SentTests == {j \in DOMAIN tests : tests[j].status = "sent"}

\* The owner unsubscribed after this test was first tried.
Measured(t) ==
  HasSubscription(Owner) /\ Left(subscribers[Owner]) /\ subscribers[Owner].left >= t.first

Approve(attested) ==
  /\ SentTests # {}
  /\ LET j == Newest(SentTests) IN
     /\ Measured(tests[j]) \/ attested
     /\ approval' = [test |-> j, at |-> today, measured |-> Measured(tests[j])]
  /\ UNCHANGED <<tests, testing, camp, intent, letters>>

\* The approval names the latest test, sent or still open.
SupersedingSent == SentTests  \* mutant: an open test does not supersede
Superseding == {j \in DOMAIN tests : tests[j].status # "released"}

GateOpen ==
  /\ approval # NoApproval
  /\ tests[approval.test].status = "sent"
  /\ today < approval.at + ApprovalLife
  /\ approval.test = Newest(Superseding)

-----------------------------------------------------------------------------
(* Mailer.campaign                                                         *)

RecipientRow(a) == [addr |-> a, id |-> subscribers[a].id, unsub |-> subscribers[a].unsub]

\* The consents no row stands for any longer.
Ended == (1..consents) \
         {subscribers[a].unsub : a \in {b \in Addresses : HasSubscription(b) /\ ~Left(subscribers[b])}}

AtRest == [pc |-> "idle", item |-> NoItemYet, todo |-> {}, ended |-> {}, under |-> NoApproval, known |-> 0, since |-> 0]

StartCampaign(w) ==
  /\ camp[w].pc = "idle" /\ GateOpen
  /\ camp' = [camp EXCEPT ![w] = [AtRest EXCEPT !.pc = "list", !.under = approval, !.known = Len(tests), !.since = today]]
  /\ UNCHANGED <<tests, testing, approval, intent, letters>>

\* On to the next of the list, or the end; what has ended by then is remembered (history).
Turn(w, left) ==
  \/ left = {} /\ camp' = [camp EXCEPT ![w] = AtRest]
  \/ \E i \in left :
       camp' = [camp EXCEPT ![w].pc = "check", ![w].item = i, ![w].todo = left \ {i}, ![w].ended = Ended]

ReadRecipients(w) ==
  /\ camp[w].pc = "list" /\ Turn(w, {RecipientRow(a) : a \in Recipients})
  /\ UNCHANGED <<tests, testing, approval, intent, letters>>

\* Eligibility is read again right before each send.
EligibleAsListed(i) == TRUE  \* mutant: who was listed is still a recipient
Eligible(i) == \E a \in Recipients : subscribers[a].id = i.id /\ subscribers[a].unsub = i.unsub

CheckEligible(w) ==
  /\ camp[w].pc = "check"
  /\ IF Eligible(camp[w].item) THEN camp' = [camp EXCEPT ![w].pc = "send"] ELSE Turn(w, camp[w].todo)
  /\ UNCHANGED <<tests, testing, approval, intent, letters>>

\* The reserve binds the recipient's mail to its body, or raises an identity
\* mismatch, and then the recipient is left for reconciliation.
MismatchedBody(i) == intent[i.addr] \notin {NoToken, i.unsub}

Reserve(w) ==
  LET i == camp[w].item IN
  /\ camp[w].pc = "send"
  /\ IF MismatchedBody(i) THEN Turn(w, camp[w].todo) /\ intent' = intent
     ELSE /\ camp' = [camp EXCEPT ![w].pc = "wait"]
          /\ intent' = [intent EXCEPT ![i.addr] = i.unsub]
  /\ UNCHANGED <<tests, testing, approval, letters>>

\* _send returns an outcome that is counted.
SendReturns(w) ==
  /\ camp[w].pc = "wait" /\ Turn(w, camp[w].todo)
  /\ UNCHANGED <<tests, testing, approval, intent, letters>>

\* The budget halts the run, a call raises, the process dies.
HaltCampaign(w) ==
  /\ camp[w].pc # "idle" /\ camp' = [camp EXCEPT ![w] = AtRest]
  /\ UNCHANGED <<tests, testing, approval, intent, letters>>

\* The provider accepts a body that was claimed.
LetterAccepted(a) ==
  /\ intent[a] # NoToken /\ letters' = letters \cup {<<a, intent[a]>>}
  /\ UNCHANGED <<tests, testing, approval, camp, intent>>

-----------------------------------------------------------------------------
Operator ==
  \/ ReadOwner \/ SendTest
  \/ \E j \in DOMAIN tests : TestSettles(j)
  \/ \E attested \in BOOLEAN : Approve(attested)
  \/ \E w \in Mailers : StartCampaign(w)

Sending ==
  \/ \E w \in Mailers : ReadRecipients(w) \/ CheckEligible(w) \/ Reserve(w) \/ SendReturns(w) \/ HaltCampaign(w)
  \/ \E a \in Addresses : LetterAccepted(a)

\* People ask, confirm once a confirmation mail is marked, leave and come back.
Reader ==
  \/ \E a \in Addresses :
       \/ SubscribeNew(a) \/ SubscribeAgain(a) \/ Renew(a)
       \/ \E c \in Consent : \/ MarkConfirmSent(a, subscribers[a].id, c)
                             \/ Confirm(a, c, NoUser) \/ Unsubscribe(a, c)
  \/ Prune \/ NextDay

\* The owner has subscribed and confirmed.
CampaignInit ==
  /\ today = 0 /\ profiles = {} /\ asking = [a \in Addresses |-> 0] /\ consents = 1
  /\ subscribers = [a \in Addresses |->
       IF a = Owner THEN Confirmed([NewRow(1, 1) EXCEPT !.sent = 0], NoUser) ELSE NoSubscription]
  /\ tests = <<>> /\ testing = NoToken /\ approval = NoApproval
  /\ camp = [w \in Mailers |-> AtRest]
  /\ intent = [a \in Addresses |-> NoToken] /\ letters = {} /\ proven = {1}

CampaignNext ==
  /\ \/ (Operator \/ Sending) /\ UNCHANGED tableVars
     \/ Reader /\ UNCHANGED <<tests, testing, approval, camp, intent, letters>>
  /\ proven' = proven \cup
       {subscribers'[a].consent :
          a \in {b \in Addresses : subscribers'[b] # NoSubscription /\ subscribers'[b].confirmed}}

CampaignSpec == CampaignInit /\ [][CampaignNext]_<<tableVars, campaignVars>>

-----------------------------------------------------------------------------
(* Properties *)

CampaignTypeOK ==
  /\ tests \in Seq([token : Consent, status : TestStatus, first : Nat]) /\ Len(tests) <= MaxTests
  /\ testing \in Consent \cup {NoToken} /\ approval.test \in 0..Len(tests)
  /\ \A w \in Mailers : camp[w].pc \in {"idle", "list", "check", "send", "wait"}
  /\ intent \in [Addresses -> Consent \cup {NoToken}]

(* A campaign that is under way began under an approval of a test that was     *)
(* accepted, not too old, with no newer test that was or might be sent; it turns *)
(* to nobody whose consent had ended by then, or was never confirmed, though it *)
(* lists people once and they leave and come back; and a reader gets one body of *)
(* an entry at most, with a link of a confirmed consent, whatever runs overlap.  *)
CampaignIsCleared ==
  /\ CampaignTypeOK
  /\ \A w \in Mailers : camp[w].pc # "idle" =>
       LET run == camp[w] IN
       /\ tests[run.under.test].status = "sent" /\ run.since < run.under.at + ApprovalLife
       /\ \A j \in (run.under.test + 1)..run.known : tests[j].status = "released"
       /\ run.pc \in {"send", "wait"} => run.item.unsub \in proven \ run.ended
  /\ \A l, m \in letters : l[2] \in proven /\ (l[1] = m[1] => l = m)
=============================================================================
