------------------------------ MODULE Newsletter ------------------------------
(***************************************************************************)
(* The tables dewfpga_subscribers and dewfpga_profiles and the functions    *)
(* that change them (mail/sql/001 with 003 applied).                        *)
(*                                                                         *)
(* A consent is a number: every new consent record mints a confirmation     *)
(* token and an unsubscribe token, and both are named by that number.  An   *)
(* address holds at most one row (email is unique).  Each function is one   *)
(* action: a single statement, or a few that the row locks and the foreign  *)
(* key to the profiles keep together.  The exception is dewfpga_subscribe:  *)
(* its SELECT and its UPDATE are two snapshots, and the advisory lock       *)
(* between them excludes only another subscribe of the same address.       *)
(***************************************************************************)
EXTENDS Naturals, FiniteSets

CONSTANTS Addresses, Users, NoUser,
          Throttle,     \* a pending request may be repeated after this time
          LinkLife,     \* a confirmation link works this long after the mark
          KeepPending,  \* an unconfirmed row is kept this long
          KeepUnsub,    \* an unsubscribed row is kept this long
          MaxConsents, MaxDays   \* bounds of the model

ASSUME NewsletterAssumption ==
  /\ NoUser \notin Users
  /\ Throttle \in Nat /\ LinkLife \in Nat /\ KeepPending \in Nat /\ KeepUnsub \in Nat
  /\ MaxConsents \in Nat \ {0} /\ MaxDays \in Nat

VARIABLES subscribers,  \* Addresses -> Subscription or NoSubscription
          profiles,     \* the enrolled users
          asking,       \* Addresses -> the row a subscribe has read, 0: none
          consents,     \* how many consents were recorded so far
          today

tableVars == <<subscribers, profiles, asking, consents, today>>

Consent == 1..MaxConsents
Never   == MaxDays + 1     \* SQL null, for a time
NoToken == 0               \* SQL null, for a token

Subscription ==
  [id : Consent, consent : Consent, confirm : Consent \cup {NoToken}, unsub : Consent,
   requested : Nat, sent : Nat, confirmed : BOOLEAN, left : Nat, user : Users \cup {NoUser}]
NoSubscription == [id |-> 0]

HasSubscription(a) == subscribers[a] # NoSubscription
Left(r)       == r.left # Never
Subscribed(r) == r.confirmed /\ ~Left(r)

\* dewfpga_recipients
Recipients == {a \in Addresses : HasSubscription(a) /\ Subscribed(subscribers[a])}

-----------------------------------------------------------------------------
(* dewfpga_subscribe                                                        *)

NewRow(id, c) ==
  [id |-> id, consent |-> c, confirm |-> c, unsub |-> c, requested |-> today,
   sent |-> Never, confirmed |-> FALSE, left |-> Never, user |-> NoUser]

\* The rewritten row of a new consent; only its id survives.
RenewedKeepsLink(r, c) == [NewRow(r.id, c) EXCEPT !.unsub = r.unsub]  \* mutant: the old footer link stays
RenewedKeepsUser(r, c) == [NewRow(r.id, c) EXCEPT !.user = r.user]    \* mutant: the old account stays
Renewed(r, c) == NewRow(r.id, c)

MayMint == consents < MaxConsents

SubscribeNew(a) ==
  /\ MayMint /\ asking[a] = 0 /\ ~HasSubscription(a)
  /\ consents' = consents + 1
  /\ subscribers' = [subscribers EXCEPT ![a] = NewRow(consents', consents')]
  /\ UNCHANGED <<profiles, asking, today>>

Throttled(r) == ~Left(r) /\ r.requested + Throttle > today

\* The SELECT: an existing row that may start a new consent.
SubscribeAgain(a) ==
  /\ asking[a] = 0 /\ HasSubscription(a)
  /\ LET r == subscribers[a] IN ~Subscribed(r) /\ ~Throttled(r)
  /\ asking' = [asking EXCEPT ![a] = subscribers[a].id]
  /\ UNCHANGED <<subscribers, profiles, consents, today>>

\* The UPDATE where id = r.id: whatever the row has become meanwhile.
Renew(a) ==
  /\ MayMint /\ asking[a] # 0
  /\ consents' = consents + 1
  /\ asking' = [asking EXCEPT ![a] = 0]
  /\ subscribers' = IF subscribers[a].id = asking[a]
                    THEN [subscribers EXCEPT ![a] = Renewed(@, consents')]
                    ELSE subscribers
  /\ UNCHANGED <<profiles, today>>

-----------------------------------------------------------------------------
(* The functions behind the links of a mail.  u is the signed-in user, or   *)
(* NoUser.                                                                 *)

Enrolled(u) == u \in profiles

Confirmable(r, token) ==
  r.confirm = token /\ ~r.confirmed /\ r.sent # Never /\ today < r.sent + LinkLife

\* A token works once; who confirms while enrolled owns the row.
ConfirmedKeepsToken(r, u) ==  \* mutant
  [r EXCEPT !.confirmed = TRUE, !.user = IF Enrolled(u) THEN u ELSE @]
Confirmed(r, u) ==
  [r EXCEPT !.confirmed = TRUE, !.confirm = NoToken, !.user = IF Enrolled(u) THEN u ELSE @]

\* dewfpga_confirm, as 003 replaces it.
Confirm(a, token, u) ==
  /\ HasSubscription(a) /\ Confirmable(subscribers[a], token)
  /\ subscribers' = [subscribers EXCEPT ![a] = Confirmed(@, u)]
  /\ UNCHANGED <<profiles, asking, consents, today>>

\* The row of someone who left: no confirmation can follow.
LeavingKeepsToken(r) == [r EXCEPT !.left = IF Left(r) THEN @ ELSE today]  \* mutant
Leaving(r) == [r EXCEPT !.left = IF Left(r) THEN @ ELSE today, !.confirm = NoToken]

Unsubscribe(a, token) ==
  /\ HasSubscription(a) /\ subscribers[a].unsub = token
  /\ subscribers' = [subscribers EXCEPT ![a] = Leaving(@)]
  /\ UNCHANGED <<profiles, asking, consents, today>>

LinkSubscription(a, token, u) ==
  /\ Enrolled(u) /\ HasSubscription(a)
  /\ subscribers[a].unsub = token /\ ~Left(subscribers[a])
  /\ subscribers' = [subscribers EXCEPT ![a].user = u]
  /\ UNCHANGED <<profiles, asking, consents, today>>

-----------------------------------------------------------------------------
(* The account                                                             *)

EnrolMe(u) ==
  /\ profiles' = profiles \cup {u}
  /\ UNCHANGED <<subscribers, asking, consents, today>>

Without(S) == [a \in Addresses |-> IF a \in S THEN NoSubscription ELSE subscribers[a]]

\* The rows a user's deletion takes along.
Owned(u) == {a \in Addresses : HasSubscription(a) /\ subscribers[a].user = u}

DeleteMe(u) ==
  /\ Enrolled(u)
  /\ profiles' = profiles \ {u}
  /\ subscribers' = Without(Owned(u))
  /\ UNCHANGED <<asking, consents, today>>

-----------------------------------------------------------------------------
(* The mailer's side                                                       *)

Pending == {a \in Addresses :
  /\ HasSubscription(a)
  /\ LET r == subscribers[a] IN ~r.confirmed /\ ~Left(r) /\ r.sent = Never /\ r.confirm # NoToken}

\* May this completed mail be marked on this row?
MarkableAnyToken(r, id, token) ==  \* mutant: the row's id is enough
  r.id = id /\ r.sent = Never /\ ~r.confirmed /\ ~Left(r)
MarkableAgain(r, id, token) ==     \* mutant: a replay moves the time
  r.id = id /\ r.confirm = token /\ ~r.confirmed /\ ~Left(r)
Markable(r, id, token) ==
  r.id = id /\ r.confirm = token /\ r.sent = Never /\ ~r.confirmed /\ ~Left(r)

MarkConfirmSent(a, id, token) ==
  /\ HasSubscription(a) /\ Markable(subscribers[a], id, token)
  /\ subscribers' = [subscribers EXCEPT ![a].sent = today]
  /\ UNCHANGED <<profiles, asking, consents, today>>

Abandoned(r) ==
  /\ ~r.confirmed /\ ~Left(r) /\ r.requested + KeepPending < today
  /\ r.sent = Never \/ r.sent + LinkLife < today

LongGone(r) == Left(r) /\ r.left + KeepUnsub < today

Outdated == {a \in Addresses : HasSubscription(a) /\ (Abandoned(subscribers[a]) \/ LongGone(subscribers[a]))}

\* dewfpga_newsletter_prune
Prune ==
  /\ subscribers' = Without(Outdated)
  /\ UNCHANGED <<profiles, asking, consents, today>>

\* A subscribe takes no time worth counting.
NextDay ==
  /\ today < MaxDays
  /\ \A a \in Addresses : asking[a] = 0
  /\ today' = today + 1
  /\ UNCHANGED <<subscribers, profiles, asking, consents>>

TableInit ==
  /\ subscribers = [a \in Addresses |-> NoSubscription]
  /\ profiles = {}
  /\ asking = [a \in Addresses |-> 0]
  /\ consents = 0 /\ today = 0

-----------------------------------------------------------------------------
(* The tables are well typed, and a row's confirmation token is null        *)
(* exactly when it can no longer be used (mail/sql/001, line 27).          *)

\* Only a row that waits for its confirmation has a confirmation token.
TokenWhileWaiting(r) == (r.confirm # NoToken) <=> (~r.confirmed /\ ~Left(r))

TableTypeOK ==
  /\ subscribers \in [Addresses -> Subscription \cup {NoSubscription}]
  /\ \A a \in Addresses : HasSubscription(a) => TokenWhileWaiting(subscribers[a])
  /\ profiles \subseteq Users
  /\ asking \in [Addresses -> 0..MaxConsents]
  /\ consents \in 0..MaxConsents
  /\ today \in 0..MaxDays
=============================================================================
