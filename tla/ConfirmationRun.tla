---------------------------- MODULE ConfirmationRun ----------------------------
(***************************************************************************)
(* Mailer.confirmations against the newsletter tables, with people who      *)
(* subscribe, click the links of the mails they got, and keep accounts.     *)
(*                                                                         *)
(* A run prunes, lists the oldest pending requests, and for each of them    *)
(* sends one mail and marks it.  The sending itself is used through what it  *)
(* promises: the module OnceMail, which MailSender implements; a logical    *)
(* mail is the confirmation of one consent.  Runs may overlap and die       *)
(* between any two calls.                                                  *)
(***************************************************************************)
EXTENDS Newsletter

CONSTANTS Workers,
          Limit       \* --limit: how many requests one run takes

ASSUME RunAssumption == Limit \in Nat \ {0}

VARIABLES run,         \* Workers -> the state of one confirmations run
          deliveries,  \* <<consent, the mail>>: the accepted confirmations
          told,        \* the consents whose mail the ledger calls sent
          clicks       \* <<kind, consent, user>>: the clicks that worked

vars == <<tableVars, run, deliveries, told, clicks>>

Sender == INSTANCE OnceMail WITH Mails <- Consent

Item   == [addr : Addresses, id : Consent, confirm : Consent, unsub : Consent, requested : Nat]
NoItem == [id |-> 0]
Run    == [pc : {"idle", "list", "send", "mark"}, item : Item \cup {NoItem}, todo : SUBSET Item]
Mail   == [unsub : Consent, at : Nat]
Click  == {"confirm", "leave", "link"} \X Consent \X (Users \cup {NoUser})

Resting == [pc |-> "idle", item |-> NoItem, todo |-> {}]

ItemOf(a) == LET r == subscribers[a] IN
  [addr |-> a, id |-> r.id, confirm |-> r.confirm, unsub |-> r.unsub, requested |-> r.requested]

-----------------------------------------------------------------------------
(* One run                                                                 *)

\* The first Limit of S in the order of confirm_requested_at.
IsOldest(T, S) ==
  /\ Cardinality(T) = IF Cardinality(S) < Limit THEN Cardinality(S) ELSE Limit
  /\ \A i \in T, j \in S \ T : i.requested <= j.requested

\* Go on with the oldest of what is left, or end.
Proceed(w, left) ==
  \/ left = {} /\ run' = [run EXCEPT ![w] = Resting]
  \/ \E i \in left :
        /\ \A j \in left : i.requested <= j.requested
        /\ run' = [run EXCEPT ![w] = [pc |-> "send", item |-> i, todo |-> left \ {i}]]

StartRun(w) ==
  /\ run[w].pc = "idle"
  /\ Prune
  /\ run' = [run EXCEPT ![w].pc = "list"]
  /\ UNCHANGED <<deliveries, told, clicks>>

List(w) ==
  /\ run[w].pc = "list"
  /\ LET all == {ItemOf(a) : a \in Pending} IN
     \E T \in SUBSET all : IsOldest(T, all) /\ Proceed(w, T)
  /\ UNCHANGED <<tableVars, deliveries, told, clicks>>

\* The provider accepts the mail; its answer is still to come.
Accepted(w) ==
  LET i == run[w].item IN
  /\ run[w].pc = "send"
  /\ deliveries' = deliveries \cup {<<i.confirm, [unsub |-> i.unsub, at |-> today]>>}
  /\ Sender!Deliver(i.confirm)
  /\ UNCHANGED <<tableVars, run, clicks>>

\* _send returns sent.
SendReturnsSent(w) ==
  /\ run[w].pc = "send"
  /\ Sender!Report(run[w].item.confirm)
  /\ run' = [run EXCEPT ![w].pc = "mark"]
  /\ UNCHANGED <<tableVars, clicks>>

\* _send returns any other outcome: the request stays pending.
SendReturnsOther(w) ==
  /\ run[w].pc = "send" /\ run[w].item.confirm \notin told
  /\ Proceed(w, run[w].todo)
  /\ UNCHANGED <<tableVars, deliveries, told, clicks>>

Mark(w) ==
  LET i == run[w].item IN
  /\ run[w].pc = "mark"
  /\ \/ MarkConfirmSent(i.addr, i.id, i.confirm)
     \/ /\ ~(HasSubscription(i.addr) /\ Markable(subscribers[i.addr], i.id, i.confirm))
        /\ UNCHANGED tableVars
  /\ Proceed(w, run[w].todo)
  /\ UNCHANGED <<deliveries, told, clicks>>

\* The process dies, a call raises, or the budget halts the run.
Halt(w) ==
  /\ run[w].pc # "idle"
  /\ run' = [run EXCEPT ![w] = Resting]
  /\ UNCHANGED <<tableVars, deliveries, told, clicks>>

\* The ledger learns of an acceptance in another way (mail/README.md).
Resolve(c) ==
  /\ Sender!Report(c)
  /\ UNCHANGED <<tableVars, run, clicks>>

-----------------------------------------------------------------------------
(* People.  A click uses the tokens of the mail it is in.                   *)

Clicked(kind, d, u) == clicks' = clicks \cup {<<kind, d[1], u>>}

Follow(d, u) ==
  /\ \E a \in Addresses :
       \/ Confirm(a, d[1], u) /\ Clicked("confirm", d, u)
       \/ Unsubscribe(a, d[2].unsub) /\ Clicked("leave", d, NoUser)
       \/ LinkSubscription(a, d[2].unsub, u) /\ Clicked("link", d, u)
  /\ UNCHANGED <<run, deliveries, told>>

Person ==
  /\ \/ \E a \in Addresses : SubscribeNew(a) \/ SubscribeAgain(a) \/ Renew(a)
     \/ \E u \in Users : EnrolMe(u) \/ DeleteMe(u)
     \/ NextDay
  /\ UNCHANGED <<run, deliveries, told, clicks>>

-----------------------------------------------------------------------------
Init ==
  /\ TableInit
  /\ run = [w \in Workers |-> Resting]
  /\ Sender!OnceInit
  /\ clicks = {}

Next ==
  \/ Person
  \/ \E d \in deliveries, u \in Users \cup {NoUser} : Follow(d, u)
  \/ \E c \in Consent : Resolve(c)
  \/ \E w \in Workers :
       \/ StartRun(w) \/ List(w) \/ Accepted(w) \/ SendReturnsSent(w)
       \/ SendReturnsOther(w) \/ Mark(w) \/ Halt(w)

Spec == Init /\ [][Next]_vars

-----------------------------------------------------------------------------
(* Properties *)

NewsTypeOK ==
  /\ TableTypeOK
  /\ run \in [Workers -> Run]
  /\ deliveries \subseteq Consent \X Mail
  /\ told \subseteq Consent
  /\ clicks \subseteq Click

\* The rows that exist.
Rows == {subscribers[a] : a \in {b \in Addresses : HasSubscription(b)}}

(* A request marked as mailed was mailed: a mail with the very tokens its   *)
(* row holds was accepted, so the person can confirm it and leave it.      *)
SentMeansMailed ==
  \A r \in Rows : (r.sent # Never /\ r.confirm # NoToken)
    => \E d \in deliveries : d[1] = r.confirm /\ d[2].unsub = r.unsub

\* A row belongs to an account only while that account exists and only if its user
\* has used a link of the row's present consent.
AccountIsProven ==
  \A r \in Rows : r.user # NoUser
    => /\ r.user \in profiles
       /\ \E k \in clicks : k[1] # "leave" /\ k[2] = r.consent /\ k[3] = r.user

(* A row is confirmed, left, or tied to an account only by a click in a mail  *)
(* of its own present consent, and only while that account exists: the links  *)
(* of an earlier consent have lost their power.                              *)
OwnLinksOnly ==
  /\ \A r \in Rows :
       /\ r.confirmed => \E k \in clicks : k[1] = "confirm" /\ k[2] = r.consent
       /\ Left(r) => \E k \in clicks : k[1] = "leave" /\ k[2] = r.consent
  /\ AccountIsProven

\* The two rows are the same consent of the same address.
SameConsent(r, s) == r # NoSubscription /\ s # NoSubscription /\ r.consent = s.consent

(* The 48 hours of a link start once: no later completion, replay or        *)
(* overlapping run moves the time of the first mark.                       *)
LinkNotStretched ==
  [][\A a \in Addresses :
       (SameConsent(subscribers[a], subscribers'[a]) /\ subscribers[a].sent # Never)
         => subscribers'[a].sent = subscribers[a].sent]_vars

(* Who left stays out until a new consent: a confirmation link that is      *)
(* clicked after the unsubscribe link of the same mail does nothing.       *)
LeftStaysOut ==
  [][\A a \in Addresses :
       (SameConsent(subscribers[a], subscribers'[a]) /\ Left(subscribers[a]))
         => Left(subscribers'[a]) /\ subscribers'[a].confirmed = subscribers[a].confirmed]_vars

(* "a confirmed address is left as it is" (mail/sql/001, line 48): asking   *)
(* again never takes a subscriber off the list.                            *)
ConfirmedStays ==
  [][\A a \in Recipients : Renew(a) => a \in Recipients']_vars

(* The cleanup keeps a request whose confirmation mail went out less than   *)
(* LinkLife ago (mail/sql/001, line 198).                                  *)
PruneSparesLiveLinks ==
  [][\A w \in Workers, a \in Addresses :
       (StartRun(w) /\ HasSubscription(a) /\ subscribers'[a] = NoSubscription /\ ~Left(subscribers[a]))
         => \A d \in deliveries : d[1] = subscribers[a].consent => d[2].at + LinkLife < today]_vars
=============================================================================
