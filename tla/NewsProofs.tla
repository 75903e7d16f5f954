------------------------------ MODULE NewsProofs ------------------------------
(***************************************************************************)
(* What the newsletter tables and the confirmation runs guarantee for every  *)
(* number of addresses, users, consents and overlapping runs.  A step does   *)
(* one of a few things to the row of an address (lemma RowChanges), and the  *)
(* tokens of a row, of a listed request and of a mail are those of its own   *)
(* consent (TokensAreOwn): every property of the tables follows from these    *)
(* two.                                                                    *)
(*                                                                         *)
(* A campaign works on the same tables.  A consent that is confirmed stays   *)
(* proven and one that ended stays ended (RowSteps), so what a run wrote down *)
(* about a reader is still true when it sends.  A test that was sent or       *)
(* released never changes (TestsKept), so what the gate saw is still true     *)
(* while the run it let through goes on.                                     *)
(***************************************************************************)
EXTENDS ConfirmationRun, Campaign, WellFoundedInduction, TLAPS

\* The tokens of a row are those of its present consent, which was recorded.
OwnTokens(r) == r.consent <= consents /\ r.unsub = r.consent /\ r.confirm \in {NoToken, r.consent}

\* A request that is sent or marked holds the tokens of one consent, and when it
\* is marked its mail was accepted; so do the mails.
TokensAreOwn ==
  /\ \A a \in Addresses : HasSubscription(a) => OwnTokens(subscribers[a])
  /\ \A w \in Workers :
       /\ \A i \in run[w].todo : i.confirm = i.unsub
       /\ run[w].pc \in {"send", "mark"} => run[w].item \in Item /\ run[w].item.confirm = run[w].item.unsub
       /\ run[w].pc = "mark" => Sender!Delivered(run[w].item.confirm)
  /\ \A d \in deliveries : d[2].unsub = d[1]

\* What a step may do to the row of an address.
Minted(a) == /\ consents < MaxConsents /\ consents' = consents + 1
             /\ \E id \in Consent : subscribers'[a] = NewRow(id, consents + 1)
ClickedFor(a) ==
  \E d \in deliveries, u \in Users \cup {NoUser} :
    \/ /\ Confirmable(subscribers[a], d[1]) /\ subscribers'[a] = Confirmed(subscribers[a], u)
       /\ <<"confirm", d[1], u>> \in clicks'
    \/ /\ subscribers[a].unsub = d[2].unsub /\ subscribers'[a] = Leaving(subscribers[a])
       /\ <<"leave", d[1], NoUser>> \in clicks'
    \/ /\ subscribers[a].unsub = d[2].unsub /\ ~Left(subscribers[a]) /\ Enrolled(u)
       /\ subscribers'[a] = [subscribers[a] EXCEPT !.user = u]
       /\ <<"link", d[1], u>> \in clicks'
Marked(a) ==
  \E w \in Workers :
    /\ run[w].pc = "mark" /\ Markable(subscribers[a], run[w].item.id, run[w].item.confirm)
    /\ subscribers'[a] = [subscribers[a] EXCEPT !.sent = today]
RowChange(a) ==
  \/ subscribers'[a] = subscribers[a] \/ subscribers'[a] = NoSubscription \/ Minted(a)
  \/ HasSubscription(a) /\ profiles' = profiles /\ (ClickedFor(a) \/ Marked(a))

-----------------------------------------------------------------------------
LEMMA NoRowIsNone == NoSubscription \notin Subscription
BY DEF NoSubscription, Subscription, Consent

LEMMA RowChanges ==
  ASSUME NewsTypeOK, [Next]_vars, NEW a \in Addresses
  PROVE  RowChange(a) /\ clicks \subseteq clicks' /\ deliveries \subseteq deliveries' /\ consents <= consents'
<1> USE DEF NewsTypeOK, TableTypeOK
<1>0. consents \in Nat /\ MaxConsents \in Nat
  BY NewsletterAssumption
<1>1. ASSUME NEW b \in Addresses, SubscribeNew(b) \/ SubscribeAgain(b) \/ Renew(b),
             UNCHANGED <<run, deliveries, told, clicks>>
      PROVE  RowChange(a) /\ consents <= consents'
  <2>1. CASE SubscribeNew(b)
    <3>1. consents + 1 \in Consent
      BY <1>0, <2>1 DEF SubscribeNew, MayMint, Consent
    <3>2. QED
      BY <1>0, <2>1, <3>1 DEF SubscribeNew, MayMint, RowChange, Minted
  <2>2. CASE SubscribeAgain(b)
    BY <1>0, <2>2 DEF SubscribeAgain, RowChange
  <2>3. CASE Renew(b)
    <3>1. asking[b] \in Consent
      BY <1>0, <2>3 DEF Renew, Consent
    <3>2. CASE subscribers[b].id = asking[b]
      <4>1. subscribers' = [subscribers EXCEPT ![b] = NewRow(asking[b], consents + 1)]
        BY <2>3, <3>2 DEF Renew, Renewed, NewRow
      <4>2. subscribers'[a] = subscribers[a] \/ subscribers'[a] = NewRow(asking[b], consents + 1)
        BY <4>1
      <4>3. QED
        BY <1>0, <2>3, <3>1, <4>2 DEF Renew, MayMint, RowChange, Minted
    <3>3. CASE subscribers[b].id # asking[b]
      BY <1>0, <2>3, <3>3 DEF Renew, RowChange
    <3>4. QED
      BY <3>2, <3>3
  <2>4. QED
    BY <1>1, <2>1, <2>2, <2>3
<1>2. ASSUME NEW u \in Users, EnrolMe(u) \/ DeleteMe(u), UNCHANGED <<run, deliveries, told, clicks>>
      PROVE  RowChange(a) /\ consents <= consents'
  BY <1>0, <1>2 DEF EnrolMe, DeleteMe, Without, RowChange
<1>3. ASSUME NextDay, UNCHANGED <<run, deliveries, told, clicks>>
      PROVE  RowChange(a) /\ consents <= consents'
  BY <1>0, <1>3 DEF NextDay, RowChange
<1>4. ASSUME NEW d \in deliveries, NEW u \in Users \cup {NoUser}, Follow(d, u)
      PROVE  RowChange(a) /\ consents <= consents' /\ clicks \subseteq clicks' /\ deliveries \subseteq deliveries'
  <2>1. PICK b \in Addresses :
          \/ Confirm(b, d[1], u) /\ Clicked("confirm", d, u)
          \/ Unsubscribe(b, d[2].unsub) /\ Clicked("leave", d, NoUser)
          \/ LinkSubscription(b, d[2].unsub, u) /\ Clicked("link", d, u)
    BY <1>4 DEF Follow
  <2>2. deliveries' = deliveries /\ clicks \subseteq clicks' /\ consents' = consents /\ profiles' = profiles
    BY <1>4, <2>1 DEF Follow, Clicked, Confirm, Unsubscribe, LinkSubscription
  <2>3. a # b => subscribers'[a] = subscribers[a]
    BY <2>1 DEF Confirm, Unsubscribe, LinkSubscription
  <2>4. CASE a = b
    <3>1. HasSubscription(a) /\ ClickedFor(a)
      <4>1. CASE Confirm(b, d[1], u) /\ Clicked("confirm", d, u)
        BY <2>4, <4>1 DEF Confirm, Clicked, ClickedFor
      <4>2. CASE Unsubscribe(b, d[2].unsub) /\ Clicked("leave", d, NoUser)
        BY <2>4, <4>2 DEF Unsubscribe, Clicked, ClickedFor
      <4>3. CASE LinkSubscription(b, d[2].unsub, u) /\ Clicked("link", d, u)
        BY <2>4, <4>3 DEF LinkSubscription, Clicked, ClickedFor
      <4>4. QED
        BY <2>1, <4>1, <4>2, <4>3
    <3>2. QED
      BY <1>0, <2>2, <3>1 DEF RowChange
  <2>5. QED
    BY <1>0, <2>2, <2>3, <2>4 DEF RowChange
<1>5. ASSUME NEW c \in Consent, Resolve(c)
      PROVE  RowChange(a) /\ consents <= consents' /\ clicks \subseteq clicks' /\ deliveries \subseteq deliveries'
  BY <1>0, <1>5 DEF Resolve, Sender!Report, tableVars, RowChange
<1>6. ASSUME NEW w \in Workers, StartRun(w)
      PROVE  RowChange(a) /\ consents <= consents' /\ clicks \subseteq clicks' /\ deliveries \subseteq deliveries'
  BY <1>0, <1>6 DEF StartRun, Prune, Without, RowChange
<1>7. ASSUME NEW w \in Workers,
             List(w) \/ Accepted(w) \/ SendReturnsSent(w) \/ SendReturnsOther(w) \/ Halt(w)
      PROVE  RowChange(a) /\ consents <= consents' /\ clicks \subseteq clicks' /\ deliveries \subseteq deliveries'
  <2>1. UNCHANGED tableVars /\ clicks' = clicks
    BY <1>7 DEF List, Accepted, SendReturnsSent, SendReturnsOther, Halt
  <2>2. deliveries \subseteq deliveries'
    BY <1>7 DEF List, Accepted, SendReturnsSent, SendReturnsOther, Halt, Sender!Report
  <2>3. QED
    BY <1>0, <2>1, <2>2 DEF tableVars, RowChange
<1>8. ASSUME NEW w \in Workers, Mark(w)
      PROVE  RowChange(a) /\ consents <= consents' /\ clicks \subseteq clicks' /\ deliveries \subseteq deliveries'
  <2> DEFINE i == run[w].item
  <2>1. run[w].pc = "mark" /\ clicks' = clicks /\ deliveries' = deliveries
    BY <1>8 DEF Mark
  <2>2. CASE UNCHANGED tableVars
    BY <1>0, <2>1, <2>2 DEF tableVars, RowChange
  <2>3. CASE MarkConfirmSent(i.addr, i.id, i.confirm)
    <3>1. a # i.addr => subscribers'[a] = subscribers[a]
      BY <2>3 DEF MarkConfirmSent
    <3>2. a = i.addr => HasSubscription(a) /\ Marked(a)
      BY <2>1, <2>3 DEF MarkConfirmSent, Marked
    <3>3. consents' = consents /\ profiles' = profiles
      BY <2>3 DEF MarkConfirmSent
    <3>4. QED
      BY <1>0, <2>1, <3>1, <3>2, <3>3 DEF RowChange
  <2>4. QED
    BY <1>8, <2>2, <2>3 DEF Mark
<1>9. CASE UNCHANGED vars
  BY <1>0, <1>9 DEF vars, tableVars, RowChange
<1>10. QED
  BY <1>1, <1>2, <1>3, <1>4, <1>5, <1>6, <1>7, <1>8, <1>9 DEF Next, Person

-----------------------------------------------------------------------------
LEMMA StepTypes == NewsTypeOK => /\ consents \in Nat /\ today \in Nat /\ MaxConsents \in Nat /\ MaxDays \in Nat
                                 /\ Never \in Nat /\ NoSubscription \notin Subscription
                                 /\ \A a \in Addresses : HasSubscription(a) => subscribers[a] \in Subscription
BY NewsletterAssumption, NoRowIsNone DEF NewsTypeOK, TableTypeOK, Never, HasSubscription

\* The rows after a change are rows, and their confirmation tokens are null when used up.
LEMMA RowsStayTyped ==
  ASSUME NewsTypeOK, NEW a \in Addresses, RowChange(a)
  PROVE  /\ subscribers'[a] \in Subscription \cup {NoSubscription}
         /\ subscribers'[a] # NoSubscription => TokenWhileWaiting(subscribers'[a])
<1>0. /\ consents \in Nat /\ today \in Nat /\ MaxConsents \in Nat /\ Never \in Nat
      /\ HasSubscription(a) => subscribers[a] \in Subscription /\ TokenWhileWaiting(subscribers[a])
      /\ subscribers[a] \in Subscription \cup {NoSubscription} /\ profiles \subseteq Users /\ today # Never
  BY StepTypes, NewsletterAssumption DEF NewsTypeOK, TableTypeOK, Never
<1>1. CASE subscribers'[a] = subscribers[a] \/ subscribers'[a] = NoSubscription
  BY <1>0, <1>1 DEF HasSubscription
<1>2. CASE Minted(a)
  <2>1. PICK id \in Consent : subscribers'[a] = NewRow(id, consents + 1)
    BY <1>2 DEF Minted
  <2>2. consents + 1 \in Consent
    BY <1>0, <1>2 DEF Minted, Consent
  <2>3. NewRow(id, consents + 1) \in Subscription /\ TokenWhileWaiting(NewRow(id, consents + 1))
    BY <1>0, <2>2 DEF NewRow, Subscription, TokenWhileWaiting, Left, NoToken, Consent
  <2>4. QED
    BY <2>1, <2>3
<1>3. CASE HasSubscription(a) /\ ClickedFor(a)
  <2> DEFINE r == subscribers[a]
  <2>1. r \in Subscription /\ TokenWhileWaiting(r)
    BY <1>0, <1>3
  <2>2. \A u \in Users \cup {NoUser} : Confirmed(r, u) \in Subscription /\ TokenWhileWaiting(Confirmed(r, u))
    BY <1>0, <2>1 DEF Confirmed, Subscription, Enrolled, TokenWhileWaiting, Left
  <2>3. Leaving(r) \in Subscription /\ TokenWhileWaiting(Leaving(r))
    BY <1>0, <2>1 DEF Leaving, Subscription, TokenWhileWaiting, Left
  <2>4. \A u \in Users \cup {NoUser} : [r EXCEPT !.user = u] \in Subscription /\ TokenWhileWaiting([r EXCEPT !.user = u])
    BY <2>1 DEF Subscription, TokenWhileWaiting, Left
  <2>5. QED
    BY <1>3, <2>2, <2>3, <2>4 DEF ClickedFor
<1>4. CASE HasSubscription(a) /\ Marked(a)
  <2>1. [subscribers[a] EXCEPT !.sent = today] \in Subscription
    BY <1>0, <1>4 DEF Subscription
  <2>2. TokenWhileWaiting([subscribers[a] EXCEPT !.sent = today])
    BY <1>0, <1>4 DEF Subscription, TokenWhileWaiting, Left
  <2>3. QED
    BY <1>4, <2>1, <2>2 DEF Marked
<1>5. QED
  BY <1>1, <1>2, <1>3, <1>4 DEF RowChange

LEMMA ProceedTypes ==
  ASSUME run \in [Workers -> Run], NEW w \in Workers, NEW left \in SUBSET Item, Proceed(w, left)
  PROVE  run' \in [Workers -> Run]
<1>1. Resting \in Run
  BY DEF Resting, Run, NoItem
<1>2. \A i \in left : [pc |-> "send", item |-> i, todo |-> left \ {i}] \in Run
  BY DEF Run
<1>3. QED
  BY <1>1, <1>2 DEF Proceed

\* A listed request is one that can be confirmed.
LEMMA PendingItems ==
  ASSUME NewsTypeOK, NEW a \in Pending
  PROVE  ItemOf(a) \in Item /\ a \in Addresses /\ HasSubscription(a) /\ subscribers[a].confirm # NoToken
BY StepTypes DEF Pending, ItemOf, Item, Subscription, NoToken, Consent

LEMMA RunsStayTyped ==
  ASSUME NewsTypeOK, [Next]_vars
  PROVE  run' \in [Workers -> Run]
<1> USE DEF NewsTypeOK
<1>0. \A w \in Workers : run[w] \in Run
  BY DEF NewsTypeOK
<1>1. ASSUME NEW w \in Workers, StartRun(w) \/ SendReturnsSent(w) \/ Halt(w)
      PROVE  run' \in [Workers -> Run]
  BY <1>0, <1>1 DEF StartRun, SendReturnsSent, Halt, Run, Resting
<1>2. ASSUME NEW w \in Workers, List(w)
      PROVE  run' \in [Workers -> Run]
  <2>1. PICK T \in SUBSET {ItemOf(a) : a \in Pending} : Proceed(w, T)
    BY <1>2 DEF List
  <2>2. T \in SUBSET Item
    BY <2>1, PendingItems
  <2>3. QED
    BY <2>1, <2>2, ProceedTypes
<1>3. ASSUME NEW w \in Workers, SendReturnsOther(w) \/ Mark(w)
      PROVE  run' \in [Workers -> Run]
  <2>1. run[w].todo \in SUBSET Item /\ Proceed(w, run[w].todo)
    BY <1>0, <1>3 DEF SendReturnsOther, Mark, Run
  <2>2. QED
    BY <2>1, ProceedTypes
<1>4. CASE UNCHANGED run
  BY <1>4
<1>5. QED
  BY <1>1, <1>2, <1>3, <1>4 DEF Next, vars, Person, Follow, Resolve, Accepted

\* What is left of the types: accounts, a subscribe under way, mails and clicks.
LEMMA RestStaysTyped ==
  ASSUME NewsTypeOK, TokensAreOwn, [Next]_vars
  PROVE  /\ profiles' \subseteq Users /\ asking' \in [Addresses -> 0..MaxConsents]
         /\ consents' \in 0..MaxConsents /\ today' \in 0..MaxDays
         /\ subscribers' = [a \in Addresses |-> subscribers'[a]]
         /\ deliveries' \subseteq Consent \X Mail /\ told' \subseteq Consent /\ clicks' \subseteq Click
<1> USE DEF NewsTypeOK, TableTypeOK
<1> DEFINE TablesFine == /\ profiles' \subseteq Users /\ asking' \in [Addresses -> 0..MaxConsents]
                         /\ consents' \in 0..MaxConsents /\ today' \in 0..MaxDays
                         /\ subscribers' = [a \in Addresses |-> subscribers'[a]]
           MailsFine  == deliveries' \subseteq Consent \X Mail /\ told' \subseteq Consent
<1>0. consents \in Nat /\ today \in Nat /\ MaxConsents \in Nat /\ MaxDays \in Nat
  BY StepTypes
<1>1. ASSUME Person
      PROVE  TablesFine /\ UNCHANGED <<deliveries, told, clicks>>
  <2>1. ASSUME NEW b \in Addresses, SubscribeNew(b)
        PROVE  TablesFine
    <3>1. subscribers' = [a \in Addresses |-> subscribers'[a]]
      BY <2>1 DEF SubscribeNew
    <3>2. QED
      BY <1>0, <2>1, <3>1 DEF SubscribeNew, MayMint
  <2>2. ASSUME NEW b \in Addresses, SubscribeAgain(b)
        PROVE  TablesFine
    <3>1. subscribers[b].id \in 0..MaxConsents
      BY <1>0, <2>2, StepTypes DEF SubscribeAgain, Subscription, Consent
    <3>2. QED
      BY <1>0, <2>2, <3>1 DEF SubscribeAgain
  <2>3. ASSUME NEW b \in Addresses, Renew(b)
        PROVE  TablesFine
    <3>1. asking' \in [Addresses -> 0..MaxConsents]
      BY <1>0, <2>3 DEF Renew
    <3>2. subscribers' = [a \in Addresses |-> subscribers'[a]]
      BY <2>3 DEF Renew
    <3>3. QED
      BY <1>0, <2>3, <3>1, <3>2 DEF Renew, MayMint
  <2>4. ASSUME NEW u \in Users, EnrolMe(u) \/ DeleteMe(u)
        PROVE  TablesFine
    BY <2>4 DEF EnrolMe, DeleteMe, Without
  <2>5. ASSUME NextDay
        PROVE  TablesFine
    BY <1>0, <2>5 DEF NextDay
  <2>6. QED
    BY <1>1, <2>1, <2>2, <2>3, <2>4, <2>5 DEF Person
<1>2. ASSUME NEW d \in deliveries, NEW u \in Users \cup {NoUser}, Follow(d, u)
      PROVE  TablesFine /\ MailsFine /\ clicks' \subseteq Click
  <2>1. PICK b \in Addresses :
          \/ Confirm(b, d[1], u) /\ Clicked("confirm", d, u)
          \/ Unsubscribe(b, d[2].unsub) /\ Clicked("leave", d, NoUser)
          \/ LinkSubscription(b, d[2].unsub, u) /\ Clicked("link", d, u)
    BY <1>2 DEF Follow
  <2>2. TablesFine
    BY <2>1 DEF Confirm, Unsubscribe, LinkSubscription
  <2>3. d[1] \in Consent
    OBVIOUS
  <2>4. clicks' \subseteq Click
    BY <2>1, <2>3 DEF Clicked, Click
  <2>5. QED
    BY <1>2, <2>2, <2>4 DEF Follow
<1>3. ASSUME NEW w \in Workers, StartRun(w)
      PROVE  TablesFine /\ MailsFine /\ clicks' = clicks
  BY <1>3 DEF StartRun, Prune, Without
<1>4. ASSUME NEW w \in Workers, Accepted(w)
      PROVE  TablesFine /\ MailsFine /\ clicks' = clicks
  <2> DEFINE i == run[w].item
  <2>1. i \in Item
    BY <1>4 DEF Accepted, TokensAreOwn
  <2>2. <<i.confirm, [unsub |-> i.unsub, at |-> today]>> \in Consent \X Mail
    BY <1>0, <2>1 DEF Item, Mail
  <2>3. QED
    BY <1>4, <2>2 DEF Accepted, Sender!Deliver, tableVars
<1>5. ASSUME NEW w \in Workers, SendReturnsSent(w)
      PROVE  TablesFine /\ MailsFine /\ clicks' = clicks
  <2>1. run[w].item.confirm \in Consent
    BY <1>5 DEF SendReturnsSent, TokensAreOwn, Item
  <2>2. QED
    BY <1>5, <2>1 DEF SendReturnsSent, Sender!Report, tableVars
<1>6. ASSUME NEW w \in Workers, List(w) \/ SendReturnsOther(w) \/ Halt(w)
      PROVE  TablesFine /\ MailsFine /\ clicks' = clicks
  BY <1>6 DEF List, SendReturnsOther, Halt, tableVars
<1>7. ASSUME NEW w \in Workers, Mark(w)
      PROVE  TablesFine /\ MailsFine /\ clicks' = clicks
  BY <1>7 DEF Mark, MarkConfirmSent, tableVars
<1>8. ASSUME NEW c \in Consent, Resolve(c)
      PROVE  TablesFine /\ MailsFine /\ clicks' = clicks
  BY <1>8 DEF Resolve, Sender!Report, tableVars
<1>9. CASE UNCHANGED vars
  BY <1>9 DEF vars, tableVars
<1>10. QED
  BY <1>1, <1>2, <1>3, <1>4, <1>5, <1>6, <1>7, <1>8, <1>9 DEF Next

LEMMA TypesKept ==
  ASSUME NewsTypeOK, TokensAreOwn, [Next]_vars
  PROVE  NewsTypeOK'
<1>1. \A a \in Addresses : /\ subscribers'[a] \in Subscription \cup {NoSubscription}
                           /\ subscribers'[a] # NoSubscription => TokenWhileWaiting(subscribers'[a])
  BY RowChanges, RowsStayTyped
<1>2. subscribers' \in [Addresses -> Subscription \cup {NoSubscription}]
  BY <1>1, RestStaysTyped
<1>3. TableTypeOK'
  BY <1>1, <1>2, RestStaysTyped DEF TableTypeOK, HasSubscription, TokenWhileWaiting, Left
<1>4. QED
  BY <1>3, RunsStayTyped, RestStaysTyped DEF NewsTypeOK

-----------------------------------------------------------------------------
\* The tokens of a row stay those of its consent, whatever happens to it.
LEMMA RowTokensKept ==
  ASSUME NewsTypeOK, TokensAreOwn, [Next]_vars, NEW a \in Addresses, subscribers'[a] # NoSubscription
  PROVE  OwnTokens(subscribers[a])'
<1>0. /\ consents \in Nat /\ RowChange(a) /\ consents <= consents' /\ consents' \in Nat
      /\ HasSubscription(a) => subscribers[a] \in Subscription /\ OwnTokens(subscribers[a])
  BY StepTypes, RowChanges, RestStaysTyped DEF TokensAreOwn
<1>1. CASE subscribers'[a] = subscribers[a]
  BY <1>0, <1>1 DEF HasSubscription, OwnTokens, Subscription, Consent
<1>2. CASE Minted(a)
  BY <1>0, <1>2 DEF Minted, NewRow, OwnTokens
<1>3. CASE HasSubscription(a) /\ ClickedFor(a)
  <2>1. /\ subscribers'[a].consent = subscribers[a].consent
        /\ subscribers'[a].unsub = subscribers[a].unsub
        /\ subscribers'[a].confirm \in {subscribers[a].confirm, NoToken}
    BY <1>0, <1>3 DEF ClickedFor, Confirmed, Leaving, Subscription
  <2>2. QED
    BY <1>0, <1>3, <2>1 DEF OwnTokens, Subscription, Consent
<1>4. CASE HasSubscription(a) /\ Marked(a)
  <2>1. /\ subscribers'[a].consent = subscribers[a].consent
        /\ subscribers'[a].unsub = subscribers[a].unsub
        /\ subscribers'[a].confirm = subscribers[a].confirm
    BY <1>0, <1>4 DEF Marked, Subscription
  <2>2. QED
    BY <1>0, <1>4, <2>1 DEF OwnTokens, Subscription, Consent
<1>5. QED
  BY <1>0, <1>1, <1>2, <1>3, <1>4 DEF RowChange

\* One run: what it holds comes from the list, and what it marks was accepted.
RunOwns(w) ==
  /\ \A i \in run[w].todo : i.confirm = i.unsub
  /\ run[w].pc \in {"send", "mark"} => run[w].item \in Item /\ run[w].item.confirm = run[w].item.unsub
  /\ run[w].pc = "mark" => Sender!Delivered(run[w].item.confirm)

LEMMA ProceedOwns ==
  ASSUME NewsTypeOK, NEW w \in Workers, NEW left \in SUBSET Item, Proceed(w, left),
         \A i \in left : i.confirm = i.unsub
  PROVE  RunOwns(w)'
<1>0. run \in [Workers -> Run]
  BY DEF NewsTypeOK
<1>1. CASE run' = [run EXCEPT ![w] = Resting]
  BY <1>0, <1>1 DEF RunOwns, Resting
<1>2. CASE \E i \in left : run' = [run EXCEPT ![w] = [pc |-> "send", item |-> i, todo |-> left \ {i}]]
  BY <1>0, <1>2 DEF RunOwns
<1>3. QED
  BY <1>1, <1>2 DEF Proceed

LEMMA RunTokensKept ==
  ASSUME NewsTypeOK, TokensAreOwn, [Next]_vars, NEW v \in Workers
  PROVE  RunOwns(v)'
<1>0. RunOwns(v) /\ deliveries \subseteq deliveries' /\ run \in [Workers -> Run] /\ run[v] \in Run
  <2>1. Addresses = {} => deliveries \subseteq deliveries'
    BY DEF Next, vars, Person, Follow, Resolve, StartRun, List, Accepted, SendReturnsSent, SendReturnsOther,
           Mark, Halt, Sender!Report
  <2>2. QED
    BY <2>1, RowChanges DEF TokensAreOwn, RunOwns, NewsTypeOK
<1>1. (run'[v] = run[v]) => RunOwns(v)'
  BY <1>0 DEF RunOwns, Sender!Delivered
<1>2. ASSUME NEW w \in Workers, StartRun(w) \/ Halt(w)
      PROVE  RunOwns(v)'
  <2>1. CASE v # w
    BY <1>0, <1>1, <1>2, <2>1 DEF StartRun, Halt
  <2>2. CASE v = w /\ StartRun(w)
    <3>1. run'[v].todo = run[v].todo /\ run'[v].pc = "list"
      BY <1>0, <2>2 DEF StartRun, Run
    <3>2. QED
      BY <1>0, <3>1 DEF RunOwns
  <2>3. CASE v = w /\ Halt(w)
    BY <1>0, <2>3 DEF Halt, Resting, RunOwns
  <2>4. QED
    BY <1>2, <2>1, <2>2, <2>3
<1>3. ASSUME NEW w \in Workers, List(w)
      PROVE  RunOwns(v)'
  <2>1. PICK T \in SUBSET {ItemOf(a) : a \in Pending} : Proceed(w, T)
    BY <1>3 DEF List
  <2>2. \A a \in Pending : ItemOf(a) \in Item /\ ItemOf(a).confirm = ItemOf(a).unsub
    <3> SUFFICES ASSUME NEW a \in Pending
                 PROVE  ItemOf(a) \in Item /\ ItemOf(a).confirm = ItemOf(a).unsub
      OBVIOUS
    <3>1. ItemOf(a) \in Item /\ OwnTokens(subscribers[a]) /\ subscribers[a].confirm # NoToken
      BY PendingItems DEF TokensAreOwn
    <3>2. QED
      BY <3>1 DEF OwnTokens, ItemOf
  <2>3. T \in SUBSET Item /\ \A i \in T : i.confirm = i.unsub
    BY <2>1, <2>2
  <2>4. v = w => RunOwns(v)'
    BY <2>1, <2>3, ProceedOwns
  <2>5. v # w => run'[v] = run[v]
    BY <1>0, <2>1 DEF Proceed
  <2>6. QED
    BY <1>1, <2>4, <2>5
<1>4. ASSUME NEW w \in Workers, SendReturnsOther(w) \/ Mark(w)
      PROVE  RunOwns(v)'
  <2>1. Proceed(w, run[w].todo)
    BY <1>4 DEF SendReturnsOther, Mark
  <2>2. run[w].todo \in SUBSET Item /\ \A i \in run[w].todo : i.confirm = i.unsub
    BY DEF NewsTypeOK, Run, TokensAreOwn
  <2>3. v = w => RunOwns(v)'
    BY <2>1, <2>2, ProceedOwns
  <2>4. v # w => run'[v] = run[v]
    BY <1>0, <2>1 DEF Proceed
  <2>5. QED
    BY <1>1, <2>3, <2>4
<1>5. ASSUME NEW w \in Workers, SendReturnsSent(w)
      PROVE  RunOwns(v)'
  <2>1. CASE v = w
    <3>1. run'[v].todo = run[v].todo /\ run'[v].item = run[v].item /\ run[v].pc = "send"
      BY <1>0, <1>5, <2>1 DEF SendReturnsSent, Run
    <3>2. Sender!Delivered(run[v].item.confirm)
      BY <1>5, <2>1 DEF SendReturnsSent, Sender!Report
    <3>3. QED
      BY <1>0, <3>1, <3>2 DEF RunOwns, Sender!Delivered
  <2>2. QED
    BY <1>0, <1>1, <1>5, <2>1 DEF SendReturnsSent
<1>6. CASE UNCHANGED run
  BY <1>1, <1>6
<1>7. QED
  BY <1>2, <1>3, <1>4, <1>5, <1>6 DEF Next, vars, Person, Follow, Resolve, Accepted

LEMMA MailTokensKept ==
  ASSUME NewsTypeOK, TokensAreOwn, [Next]_vars, NEW d \in deliveries'
  PROVE  d[2].unsub = d[1]
<1>1. ASSUME NEW w \in Workers, Accepted(w)
      PROVE  d[2].unsub = d[1]
  <2>1. run[w].item.confirm = run[w].item.unsub
    BY <1>1 DEF Accepted, TokensAreOwn
  <2>2. QED
    BY <1>1, <2>1 DEF Accepted, TokensAreOwn
<1>2. CASE deliveries' = deliveries
  BY <1>2 DEF TokensAreOwn
<1>3. QED
  BY <1>1, <1>2 DEF Next, vars, Person, Follow, Resolve, StartRun, List, SendReturnsSent, SendReturnsOther,
                    Mark, Halt, Sender!Report

LEMMA TokensKept ==
  ASSUME NewsTypeOK, TokensAreOwn, [Next]_vars
  PROVE  TokensAreOwn'
BY RowTokensKept, RunTokensKept, MailTokensKept DEF TokensAreOwn, RunOwns, HasSubscription

-----------------------------------------------------------------------------
\* The inductive invariant the theorems rest on.
NewsInv == NewsTypeOK /\ TokensAreOwn

LEMMA NewsInvHolds == Spec => []NewsInv
<1>1. Init => NewsInv
  <2> SUFFICES ASSUME Init
               PROVE  NewsInv
    OBVIOUS
  <2> USE DEF Init, TableInit, Sender!OnceInit
  <2>1. TableTypeOK
    BY NewsletterAssumption DEF TableTypeOK, HasSubscription
  <2>2. run \in [Workers -> Run]
    BY DEF Resting, Run, NoItem
  <2>3. TokensAreOwn
    BY DEF TokensAreOwn, HasSubscription, Resting
  <2>4. QED
    BY <2>1, <2>2, <2>3 DEF NewsInv, NewsTypeOK
<1>2. NewsInv /\ [Next]_vars => NewsInv'
  BY TypesKept, TokensKept DEF NewsInv
<1>3. QED
  BY <1>1, <1>2, PTL DEF Spec

(* The tables and the runs stay well typed for any number of addresses,      *)
(* consents and overlapping runs; in particular a row has a confirmation     *)
(* token exactly while it waits to be confirmed.                            *)
THEOREM NewsTypeCorrect == Spec => []NewsTypeOK
BY NewsInvHolds, PTL DEF NewsInv

-----------------------------------------------------------------------------
\* A row that stays as it is keeps its account: deleting one takes its rows along.
LEMMA AccountsKept ==
  ASSUME NewsTypeOK, [Next]_vars, NEW a \in Addresses, HasSubscription(a),
         subscribers'[a] = subscribers[a], subscribers[a].user \in profiles
  PROVE  subscribers[a].user \in profiles'
<1>1. ASSUME NEW u \in Users, DeleteMe(u)
      PROVE  subscribers[a].user \in profiles'
  <2>1. a \notin Owned(u)
    BY <1>1 DEF DeleteMe, Without, HasSubscription
  <2>2. QED
    BY <1>1, <2>1 DEF DeleteMe, Owned
<1>2. ASSUME NEW u \in Users, EnrolMe(u)
      PROVE  subscribers[a].user \in profiles'
  BY <1>2 DEF EnrolMe
<1>3. CASE profiles' = profiles
  BY <1>3
<1>4. QED
  BY <1>1, <1>2, <1>3
     DEF Next, vars, tableVars, Person, SubscribeNew, SubscribeAgain, Renew, NextDay, Follow, Confirm,
         Unsubscribe, LinkSubscription, Resolve, StartRun, Prune, List, Accepted, SendReturnsSent,
         SendReturnsOther, Mark, MarkConfirmSent, Halt

\* What OwnLinksOnly says of one row.
Backed(r) ==
  /\ r.confirmed => \E k \in clicks : k[1] = "confirm" /\ k[2] = r.consent
  /\ Left(r) => \E k \in clicks : k[1] = "leave" /\ k[2] = r.consent
  /\ r.user # NoUser => /\ r.user \in profiles
                        /\ \E k \in clicks : k[1] # "leave" /\ k[2] = r.consent /\ k[3] = r.user

LEMMA RowStaysBacked ==
  ASSUME NewsTypeOK, TokensAreOwn, [Next]_vars, NEW a \in Addresses, subscribers'[a] # NoSubscription,
         HasSubscription(a) => Backed(subscribers[a])
  PROVE  Backed(subscribers[a])'
<1>0. /\ RowChange(a) /\ clicks \subseteq clicks'
      /\ HasSubscription(a) => subscribers[a] \in Subscription /\ OwnTokens(subscribers[a])
      /\ \A d \in deliveries : d[2].unsub = d[1] /\ d[1] # NoToken
  <2>1. \A d \in deliveries : d[1] # NoToken
    BY DEF NewsTypeOK, Consent, NoToken
  <2>2. QED
    BY <2>1, StepTypes, RowChanges DEF TokensAreOwn
<1>1. CASE subscribers'[a] = subscribers[a]
  <2>1. Backed(subscribers[a]) /\ HasSubscription(a)
    BY <1>1 DEF HasSubscription
  <2>2. subscribers[a].user # NoUser => subscribers[a].user \in profiles'
    BY <1>1, <2>1, AccountsKept DEF Backed
  <2>3. QED
    BY <1>0, <1>1, <2>1, <2>2 DEF Backed, Left
<1>2. CASE Minted(a)
  BY <1>2 DEF Minted, NewRow, Backed, Left
<1>3. CASE HasSubscription(a) /\ profiles' = profiles /\ ClickedFor(a)
  <2> DEFINE r == subscribers[a]
  <2>0. r \in Subscription /\ OwnTokens(r) /\ Backed(r) /\ profiles \subseteq Users /\ NoUser \notin Users
    BY <1>0, <1>3, NewsletterAssumption DEF NewsTypeOK, TableTypeOK
  <2>1. ASSUME NEW d \in deliveries, NEW u \in Users \cup {NoUser},
               Confirmable(r, d[1]), subscribers'[a] = Confirmed(r, u), <<"confirm", d[1], u>> \in clicks'
        PROVE  Backed(subscribers[a])'
    <3>1. d[1] = r.consent
      BY <1>0, <2>0, <2>1 DEF Confirmable, OwnTokens
    <3>2. \E k \in clicks' : k[1] = "confirm" /\ k[2] = r.consent /\ k[3] = u
      BY <2>1, <3>1
    <3>3. /\ subscribers'[a].consent = r.consent /\ subscribers'[a].left = r.left
          /\ subscribers'[a].user = IF Enrolled(u) THEN u ELSE r.user
      BY <2>0, <2>1 DEF Confirmed, Subscription
    <3>4. QED
      BY <1>0, <1>3, <2>0, <3>2, <3>3 DEF Backed, Left, Enrolled
  <2>2. ASSUME NEW d \in deliveries, r.unsub = d[2].unsub, subscribers'[a] = Leaving(r),
               <<"leave", d[1], NoUser>> \in clicks'
        PROVE  Backed(subscribers[a])'
    <3>1. d[1] = r.consent
      BY <1>0, <2>0, <2>2 DEF OwnTokens
    <3>2. \E k \in clicks' : k[1] = "leave" /\ k[2] = r.consent
      BY <2>2, <3>1
    <3>3. /\ subscribers'[a].consent = r.consent /\ subscribers'[a].user = r.user
          /\ subscribers'[a].confirmed = r.confirmed
      BY <2>0, <2>2 DEF Leaving, Subscription
    <3>4. QED
      BY <1>0, <1>3, <2>0, <3>2, <3>3 DEF Backed, Left
  <2>3. ASSUME NEW d \in deliveries, NEW u \in Users \cup {NoUser}, r.unsub = d[2].unsub, Enrolled(u),
               subscribers'[a] = [r EXCEPT !.user = u], <<"link", d[1], u>> \in clicks'
        PROVE  Backed(subscribers[a])'
    <3>1. d[1] = r.consent
      BY <1>0, <2>0, <2>3 DEF OwnTokens
    <3>2. \E k \in clicks' : k[1] # "leave" /\ k[2] = r.consent /\ k[3] = u
      <4>1. <<"link", d[1], u>>[1] # "leave"
        OBVIOUS
      <4>2. QED
        BY <2>3, <3>1, <4>1
    <3>3. /\ subscribers'[a].consent = r.consent /\ subscribers'[a].user = u
          /\ subscribers'[a].confirmed = r.confirmed /\ subscribers'[a].left = r.left
      BY <2>0, <2>3 DEF Subscription
    <3>4. QED
      BY <1>0, <1>3, <2>0, <2>3, <3>2, <3>3 DEF Backed, Left, Enrolled
  <2>4. QED
    BY <1>3, <2>1, <2>2, <2>3 DEF ClickedFor
<1>4. CASE HasSubscription(a) /\ profiles' = profiles /\ Marked(a)
  <2>1. /\ subscribers'[a].consent = subscribers[a].consent /\ subscribers'[a].user = subscribers[a].user
        /\ subscribers'[a].confirmed = subscribers[a].confirmed /\ subscribers'[a].left = subscribers[a].left
    BY <1>0, <1>4 DEF Marked, Subscription
  <2>2. QED
    BY <1>0, <1>4, <2>1 DEF Backed, Left
<1>5. QED
  BY <1>0, <1>1, <1>2, <1>3, <1>4 DEF RowChange

LEMMA OwnLinksByRow == OwnLinksOnly <=> \A a \in Addresses : HasSubscription(a) => Backed(subscribers[a])
BY DEF OwnLinksOnly, AccountIsProven, Rows, Backed

(* Whatever people, old links, deleted accounts and overlapping runs do, a    *)
(* row is confirmed, left or tied to an account only by a click in a mail of  *)
(* its own present consent.                                                 *)
THEOREM OwnLinksHold == Spec => []OwnLinksOnly
<1>1. Init => OwnLinksOnly
  BY OwnLinksByRow DEF Init, TableInit, HasSubscription
<1>2. NewsInv /\ OwnLinksOnly /\ [Next]_vars => OwnLinksOnly'
  <2> SUFFICES ASSUME NewsInv, OwnLinksOnly, [Next]_vars
               PROVE  OwnLinksOnly'
    OBVIOUS
  <2>1. \A a \in Addresses : subscribers'[a] # NoSubscription => Backed(subscribers[a])'
    BY OwnLinksByRow, RowStaysBacked DEF NewsInv
  <2>2. QED
    BY <2>1 DEF OwnLinksOnly, AccountIsProven, Rows, Backed, HasSubscription, Left
<1>3. QED
  BY <1>1, <1>2, NewsInvHolds, PTL DEF Spec

-----------------------------------------------------------------------------
\* What SentMeansMailed says of one row.
MailedIfSent(r) ==
  (r.sent # Never /\ r.confirm # NoToken) => \E d \in deliveries : d[1] = r.confirm /\ d[2].unsub = r.unsub

(* A request is marked as mailed only if a mail with its very tokens was       *)
(* accepted, although the run marks what it listed and the row may have been   *)
(* renewed, left or deleted since.                                          *)
THEOREM SentMeansMailedHolds == Spec => []SentMeansMailed
<1>1. Init => SentMeansMailed
  BY DEF Init, TableInit, SentMeansMailed, Rows, HasSubscription
<1>2. NewsInv /\ SentMeansMailed /\ [Next]_vars => SentMeansMailed'
  <2> SUFFICES ASSUME NewsTypeOK, TokensAreOwn, SentMeansMailed, [Next]_vars,
                      NEW a \in Addresses, subscribers'[a] # NoSubscription
               PROVE  MailedIfSent(subscribers[a])'
    BY DEF NewsInv, SentMeansMailed, Rows, MailedIfSent, HasSubscription
  <2>0. /\ RowChange(a) /\ deliveries \subseteq deliveries'
        /\ HasSubscription(a) => subscribers[a] \in Subscription /\ OwnTokens(subscribers[a]) /\ MailedIfSent(subscribers[a])
    BY StepTypes, RowChanges DEF TokensAreOwn, SentMeansMailed, Rows, MailedIfSent
  <2>1. CASE subscribers'[a] = subscribers[a]
    BY <2>0, <2>1 DEF MailedIfSent, HasSubscription
  <2>2. CASE Minted(a)
    BY <2>2 DEF Minted, NewRow, MailedIfSent
  <2>3. CASE HasSubscription(a) /\ ClickedFor(a)
    <3>1. /\ subscribers'[a].confirm \in {subscribers[a].confirm, NoToken}
          /\ subscribers'[a].unsub = subscribers[a].unsub /\ subscribers'[a].sent = subscribers[a].sent
      BY <2>0, <2>3 DEF ClickedFor, Confirmed, Leaving, Subscription
    <3>2. QED
      BY <2>0, <2>3, <3>1 DEF MailedIfSent
  <2>4. CASE HasSubscription(a) /\ Marked(a)
    <3>1. PICK w \in Workers :
            /\ run[w].pc = "mark" /\ Markable(subscribers[a], run[w].item.id, run[w].item.confirm)
            /\ subscribers'[a] = [subscribers[a] EXCEPT !.sent = today]
      BY <2>4 DEF Marked
    <3>2. PICK d \in deliveries : d[1] = run[w].item.confirm
      BY <3>1 DEF TokensAreOwn, Sender!Delivered
    <3>3. d[1] = subscribers[a].confirm /\ d[2].unsub = d[1] /\ d[1] # NoToken
      BY <3>1, <3>2 DEF Markable, TokensAreOwn, NewsTypeOK, Consent, NoToken
    <3>4. subscribers[a].confirm = subscribers[a].unsub
      BY <2>0, <2>4, <3>3 DEF OwnTokens
    <3>5. subscribers'[a].confirm = subscribers[a].confirm /\ subscribers'[a].unsub = subscribers[a].unsub
      BY <2>0, <2>4, <3>1 DEF Subscription
    <3>6. QED
      BY <2>0, <3>3, <3>4, <3>5 DEF MailedIfSent
  <2>5. QED
    BY <2>0, <2>1, <2>2, <2>3, <2>4 DEF RowChange
<1>3. QED
  BY <1>1, <1>2, NewsInvHolds, PTL DEF Spec

-----------------------------------------------------------------------------
\* The row of the same consent, before and after a step.
LEMMA SameConsentChanges ==
  ASSUME NewsInv, [Next]_vars, NEW a \in Addresses, SameConsent(subscribers[a], subscribers'[a])
  PROVE  /\ subscribers[a].sent # Never => subscribers'[a].sent = subscribers[a].sent
         /\ Left(subscribers[a]) => /\ Left(subscribers'[a])
                                    /\ subscribers'[a].confirmed = subscribers[a].confirmed
<1>0. /\ RowChange(a) /\ subscribers'[a] # NoSubscription /\ subscribers'[a].consent = subscribers[a].consent
      /\ subscribers[a] \in Subscription /\ OwnTokens(subscribers[a]) /\ TokenWhileWaiting(subscribers[a])
      /\ consents \in Nat /\ \A d \in deliveries : d[1] # NoToken
  <2>1. HasSubscription(a) /\ \A d \in deliveries : d[1] # NoToken
    BY DEF SameConsent, HasSubscription, NewsInv, NewsTypeOK, Consent, NoToken
  <2>2. QED
    BY <2>1, StepTypes, RowChanges DEF SameConsent, NewsInv, TokensAreOwn, NewsTypeOK, TableTypeOK
<1>1. CASE subscribers'[a] = subscribers[a]
  BY <1>1
<1>2. CASE Minted(a)
  <2>1. subscribers'[a].consent = consents + 1 /\ subscribers[a].consent <= consents
    BY <1>0, <1>2 DEF Minted, NewRow, OwnTokens
  <2>2. QED
    BY <1>0, <2>1 DEF Subscription, Consent
<1>3. CASE ClickedFor(a)
  <2>1. Left(subscribers[a]) => \A d \in deliveries : ~Confirmable(subscribers[a], d[1])
    BY <1>0 DEF Confirmable, TokenWhileWaiting
  <2>2. subscribers'[a].sent = subscribers[a].sent
    BY <1>0, <1>3 DEF ClickedFor, Confirmed, Leaving, Subscription
  <2>3. Left(subscribers[a]) => subscribers'[a].left = subscribers[a].left
                                /\ subscribers'[a].confirmed = subscribers[a].confirmed
    BY <1>0, <1>3, <2>1 DEF ClickedFor, Leaving, Subscription
  <2>4. QED
    BY <2>2, <2>3 DEF Left
<1>4. CASE Marked(a)
  <2>1. subscribers[a].sent = Never /\ ~Left(subscribers[a])
    BY <1>4 DEF Marked, Markable
  <2>2. QED
    BY <2>1
<1>5. QED
  BY <1>0, <1>1, <1>2, <1>3, <1>4 DEF RowChange

(* The 48 hours of a link start once, whatever run marks the request and when. *)
THEOREM LinkNotStretchedHolds == Spec => LinkNotStretched
<1>1. NewsInv /\ [Next]_vars =>
        [\A a \in Addresses :
           (SameConsent(subscribers[a], subscribers'[a]) /\ subscribers[a].sent # Never)
             => subscribers'[a].sent = subscribers[a].sent]_vars
  BY SameConsentChanges
<1>2. QED
  BY <1>1, NewsInvHolds, PTL DEF Spec, LinkNotStretched

(* Who left stays out until a new consent, whatever older link is clicked next. *)
THEOREM LeftStaysOutHolds == Spec => LeftStaysOut
<1>1. NewsInv /\ [Next]_vars =>
        [\A a \in Addresses :
           (SameConsent(subscribers[a], subscribers'[a]) /\ Left(subscribers[a]))
             => Left(subscribers'[a]) /\ subscribers'[a].confirmed = subscribers[a].confirmed]_vars
  BY SameConsentChanges
<1>2. QED
  BY <1>1, NewsInvHolds, PTL DEF Spec, LeftStaysOut

-----------------------------------------------------------------------------
(* The campaign.                                                           *)

Bodies    == [addr : Addresses, id : Consent, unsub : Consent]
Approvals == [test : Nat, at : Nat, measured : BOOLEAN]
RunState  == [pc : {"idle", "list", "check", "send", "wait"}, item : Bodies \cup {NoItemYet},
              todo : SUBSET Bodies, ended : SUBSET Consent, under : Approvals,
              known : Nat, since : Nat]

CampaignTypes ==
  /\ TableTypeOK /\ CampaignTypeOK
  /\ camp \in [Mailers -> RunState] /\ approval \in Approvals

ConsentsAreOwn == \A a \in Addresses : HasSubscription(a) =>
  /\ OwnTokens(subscribers[a])
  /\ subscribers[a].confirmed => subscribers[a].consent \in proven

\* What a run has listed is proven, and what it saw ended has ended.
RunIsHonest(q) ==
  /\ q.pc \in {"check", "send", "wait"} => q.item \in Bodies /\ q.item.unsub \in proven
  /\ \A i \in q.todo : i.unsub \in proven
  /\ q.ended \subseteq Ended
  /\ q.pc \in {"send", "wait"} => q.item.unsub \notin q.ended

\* What the gate saw when it let the run through.
RunIsCleared(q) == q.pc # "idle" =>
  /\ q.under.test \in SentTests /\ q.since < q.under.at + ApprovalLife
  /\ q.known <= Len(tests)
  /\ \A j \in (q.under.test + 1)..q.known : tests[j].status = "released"

RunsAreHonest == \A w \in Mailers : RunIsHonest(camp[w])
RunsAreCleared == \A w \in Mailers : RunIsCleared(camp[w])

\* An approval is of a test that was accepted.
ApprovalIsSent == approval # NoApproval => approval.test \in SentTests

\* A letter is the body its reader's mail is bound to, and that was proven.
LettersAreBound ==
  /\ \A l \in letters : l[1] \in Addresses /\ intent[l[1]] # NoToken /\ l = <<l[1], intent[l[1]]>>
  /\ \A a \in Addresses : intent[a] # NoToken => intent[a] \in proven

CampaignInv == /\ CampaignTypes /\ ConsentsAreOwn /\ RunsAreHonest
               /\ RunsAreCleared /\ ApprovalIsSent /\ LettersAreBound

-----------------------------------------------------------------------------
(* The newest of a set of tests is one of them.                             *)
LEMMA NewestIs ==
  ASSUME NEW n \in Nat, NEW S \in SUBSET (1..n), S # {}
  PROVE  Newest(S) \in S /\ \A i \in S : i <= Newest(S)
<1> DEFINE R == OpToRel(<, Nat)
           T == {n - i : i \in S}
<1>1. \A x, y \in Nat : <<y, x>> \in R <=> y < x
  BY DEF OpToRel
<1>2. IsWellFoundedOn(R, Nat)
  BY NatLessThanWellFounded
<1>3. T \subseteq Nat /\ T # {}
  <2>1. \A i \in S : n - i \in Nat
    OBVIOUS
  <2>2. PICK i \in S : TRUE
    OBVIOUS
  <2>3. QED
    BY <2>1, <2>2
<1> HIDE DEF R
<1>4. PICK x \in T : \A y \in T : ~(<<y, x>> \in R)
  BY <1>2, <1>3, WFMin
<1>5. PICK j \in S : x = n - j
  BY <1>4
<1>6. \A i \in S : i <= j
  <2> SUFFICES ASSUME NEW i \in S
               PROVE  i <= j
    OBVIOUS
  <2>1. n - i \in T /\ n - i \in Nat /\ n - j \in Nat
    BY <1>3, <1>4, <1>5
  <2>2. ~(n - i < n - j)
    BY <1>1, <1>4, <1>5, <2>1
  <2>3. QED
    BY <2>2
<1>7. QED
  BY <1>6 DEF Newest

-----------------------------------------------------------------------------
(* The tables.                                                             *)

\* What a step does to the row of an address: nothing, or its deletion; a new
\* consent; a confirmation, a departure or a mark.
Entered(a)  == /\ consents < MaxConsents /\ consents' = consents + 1
              /\ \E id \in Consent : subscribers'[a] = NewRow(id, consents + 1)
Touched(a) == LET r == subscribers[a] IN
  /\ HasSubscription(a)
  /\ \/ \E c \in Consent : Confirmable(r, c) /\ subscribers'[a] = Confirmed(r, NoUser)
     \/ subscribers'[a] = Leaving(r)
     \/ /\ \E id, c \in Consent : Markable(r, id, c)
        /\ subscribers'[a] = [r EXCEPT !.sent = today]
RowStep(a) == subscribers'[a] \in {subscribers[a], NoSubscription} \/ Entered(a) \/ Touched(a)

ReaderStep == Reader /\ UNCHANGED <<tests, testing, approval, camp, intent, letters>>

LEMMA TableTypes ==
  ASSUME TableTypeOK
  PROVE  /\ consents \in Nat /\ consents <= MaxConsents /\ today \in Nat /\ today <= MaxDays
         /\ MaxConsents \in Nat /\ MaxDays \in Nat /\ Never \in Nat /\ today # Never
         /\ NoSubscription \notin Subscription
         /\ \A a \in Addresses : HasSubscription(a) => subscribers[a] \in Subscription /\ TokenWhileWaiting(subscribers[a])
<1>1. NoSubscription \notin Subscription
  BY DEF NoSubscription, Subscription
<1>2. QED
  BY <1>1, NewsletterAssumption DEF TableTypeOK, Never, HasSubscription

LEMMA RowSteps ==
  ASSUME TableTypeOK, Reader
  PROVE  /\ \A a \in Addresses : RowStep(a)
         /\ consents' \in 0..MaxConsents /\ consents <= consents'
         /\ profiles' = profiles /\ today' \in 0..MaxDays
         /\ asking' \in [Addresses -> 0..MaxConsents]
         /\ subscribers' = [a \in Addresses |-> subscribers'[a]]
<1> DEFINE Fine == /\ \A a \in Addresses : RowStep(a)
                   /\ consents' \in 0..MaxConsents /\ consents <= consents'
                   /\ profiles' = profiles /\ today' \in 0..MaxDays
                   /\ asking' \in [Addresses -> 0..MaxConsents]
                   /\ subscribers' = [a \in Addresses |-> subscribers'[a]]
<1>0. /\ consents \in Nat /\ consents <= MaxConsents /\ today \in Nat /\ MaxConsents \in Nat
      /\ MaxDays \in Nat /\ today \in 0..MaxDays
      /\ \A a \in Addresses : HasSubscription(a) => subscribers[a] \in Subscription
      /\ asking \in [Addresses -> 0..MaxConsents]
      /\ subscribers = [a \in Addresses |-> subscribers[a]]
  BY TableTypes DEF TableTypeOK
<1>1. ASSUME NEW b \in Addresses, SubscribeNew(b)
      PROVE  Fine
  <2>1. consents + 1 \in Consent
    BY <1>0, <1>1 DEF SubscribeNew, MayMint, Consent
  <2>2. \A a \in Addresses : RowStep(a)
    BY <1>0, <1>1, <2>1 DEF SubscribeNew, MayMint, RowStep, Entered
  <2>3. QED
    BY <1>0, <1>1, <2>1, <2>2 DEF SubscribeNew, Consent
<1>2. ASSUME NEW b \in Addresses, SubscribeAgain(b)
      PROVE  Fine
  <2>1. subscribers[b].id \in 0..MaxConsents
    BY <1>0, <1>2 DEF SubscribeAgain, Subscription, Consent
  <2>2. QED
    BY <1>0, <1>2, <2>1 DEF SubscribeAgain, RowStep
<1>3. ASSUME NEW b \in Addresses, Renew(b)
      PROVE  Fine
  <2>1. asking[b] \in Consent /\ consents + 1 \in 0..MaxConsents
    BY <1>0, <1>3 DEF Renew, MayMint, Consent
  <2>2. asking' \in [Addresses -> 0..MaxConsents]
    BY <1>0, <1>3 DEF Renew
  <2>3. CASE subscribers[b].id = asking[b]
    <3>1. subscribers' = [subscribers EXCEPT ![b] = NewRow(asking[b], consents + 1)]
      BY <1>3, <2>3 DEF Renew, Renewed, NewRow
    <3>2. \A a \in Addresses : RowStep(a)
      BY <1>0, <1>3, <2>1, <3>1 DEF Renew, MayMint, RowStep, Entered
    <3>3. subscribers' = [a \in Addresses |-> subscribers'[a]]
      BY <1>0, <3>1
    <3>4. QED
      BY <1>0, <1>3, <2>1, <2>2, <3>2, <3>3 DEF Renew
  <2>4. CASE subscribers[b].id # asking[b]
    BY <1>0, <1>3, <2>1, <2>2, <2>4 DEF Renew, RowStep
  <2>5. QED
    BY <2>3, <2>4
<1>4. ASSUME NEW b \in Addresses, NEW c \in Consent, MarkConfirmSent(b, subscribers[b].id, c)
      PROVE  Fine
  <2>1. HasSubscription(b) /\ Markable(subscribers[b], subscribers[b].id, c) /\ subscribers[b].id \in Consent
        /\ subscribers' = [subscribers EXCEPT ![b] = [subscribers[b] EXCEPT !.sent = today]]
    BY <1>0, <1>4 DEF MarkConfirmSent, Subscription
  <2>2. \A a \in Addresses : RowStep(a)
    BY <1>0, <2>1 DEF RowStep, Touched
  <2>3. QED
    BY <1>0, <1>4, <2>1, <2>2 DEF MarkConfirmSent
<1>5. ASSUME NEW b \in Addresses, NEW c \in Consent, Confirm(b, c, NoUser)
      PROVE  Fine
  <2>1. \A a \in Addresses : RowStep(a)
    BY <1>0, <1>5 DEF Confirm, RowStep, Touched
  <2>2. QED
    BY <1>0, <1>5, <2>1 DEF Confirm
<1>6. ASSUME NEW b \in Addresses, NEW c \in Consent, Unsubscribe(b, c)
      PROVE  Fine
  <2>1. \A a \in Addresses : RowStep(a)
    BY <1>0, <1>6 DEF Unsubscribe, RowStep, Touched
  <2>2. QED
    BY <1>0, <1>6, <2>1 DEF Unsubscribe
<1>7. ASSUME Prune
      PROVE  Fine
  BY <1>0, <1>7 DEF Prune, Without, RowStep
<1>8. ASSUME NextDay
      PROVE  Fine
  BY <1>0, <1>8 DEF NextDay, RowStep
<1>9. QED
  BY <1>1, <1>2, <1>3, <1>4, <1>5, <1>6, <1>7, <1>8 DEF Reader

\* What becomes of one row: it stays a row with tokens of its own.
LEMMA RowStaysTyped ==
  ASSUME TableTypeOK, NEW a \in Addresses, RowStep(a), HasSubscription(a) => OwnTokens(subscribers[a]),
         consents <= consents', consents' \in Nat, HasSubscription(a)'
  PROVE  /\ subscribers'[a] \in Subscription /\ TokenWhileWaiting(subscribers'[a])
         /\ OwnTokens(subscribers[a])' /\ subscribers'[a].consent <= consents'
         /\ \/ /\ HasSubscription(a) /\ subscribers'[a].unsub = subscribers[a].unsub
               /\ subscribers'[a].consent = subscribers[a].consent
               /\ Left(subscribers[a]) => Left(subscribers'[a])
            \/ subscribers'[a].unsub = consents + 1
<1> DEFINE r == subscribers[a]  s == subscribers'[a]
           Good == /\ s \in Subscription /\ TokenWhileWaiting(s) /\ s.consent <= consents'
                   /\ s.unsub = s.consent /\ s.confirm \in {NoToken, s.consent}
                   /\ \/ /\ HasSubscription(a) /\ s.unsub = r.unsub /\ s.consent = r.consent
                         /\ Left(r) => Left(s)
                      \/ s.unsub = consents + 1
<1>0. /\ consents \in Nat /\ MaxConsents \in Nat /\ Never \in Nat /\ today \in Nat /\ today # Never
      /\ HasSubscription(a) => r \in Subscription /\ TokenWhileWaiting(r)
      /\ s # NoSubscription /\ NoUser \in Users \cup {NoUser}
  BY TableTypes DEF HasSubscription
<1> SUFFICES Good
  BY DEF OwnTokens
<1>1. CASE s = r
  BY <1>0, <1>1 DEF HasSubscription, OwnTokens, Subscription, Consent
<1>2. CASE Entered(a)
  <2>1. PICK id \in Consent : s = NewRow(id, consents + 1)
    BY <1>2 DEF Entered
  <2>2. consents + 1 \in Consent /\ consents' = consents + 1
    BY <1>0, <1>2 DEF Entered, Consent
  <2>3. s \in Subscription
    BY <1>0, <2>1, <2>2 DEF NewRow, Subscription
  <2>4. /\ s.consent = consents + 1 /\ s.confirm = consents + 1 /\ s.unsub = consents + 1
        /\ s.left = Never /\ ~s.confirmed
    BY <2>1 DEF NewRow
  <2>5. s.confirm # NoToken
    BY <1>0, <2>4 DEF NoToken
  <2> HIDE DEF s
  <2>6. QED
    BY <1>0, <2>2, <2>3, <2>4, <2>5 DEF TokenWhileWaiting, Left
<1>3. CASE Touched(a)
  <2>0. r \in Subscription /\ TokenWhileWaiting(r) /\ HasSubscription(a)
        /\ r.consent <= consents /\ r.unsub = r.consent /\ r.confirm \in {NoToken, r.consent}
        /\ r.consent \in Nat
    BY <1>0, <1>3 DEF Touched, OwnTokens, Subscription, Consent
  <2>1. ASSUME s \in Subscription, s.consent = r.consent, s.unsub = r.unsub,
               s.confirm \in {NoToken, r.confirm}, Left(r) => Left(s), TokenWhileWaiting(s)
        PROVE  Good
    BY <1>0, <2>0, <2>1
  <2>2. ASSUME NEW c \in Consent, Confirmable(r, c), s = Confirmed(r, NoUser)
        PROVE  Good
    <3>1. s \in Subscription
      BY <1>0, <2>0, <2>2 DEF Confirmed, Subscription
    <3>2. s.consent = r.consent /\ s.unsub = r.unsub /\ s.confirm = NoToken /\ s.left = r.left /\ s.confirmed
      BY <2>0, <2>2 DEF Confirmed, Subscription
    <3> HIDE DEF s
    <3>3. QED
      BY <2>1, <3>1, <3>2 DEF TokenWhileWaiting, Left
  <2>3. ASSUME s = Leaving(r)
        PROVE  Good
    <3>1. s \in Subscription
      BY <1>0, <2>0, <2>3 DEF Leaving, Subscription
    <3>2. s.consent = r.consent /\ s.unsub = r.unsub /\ s.confirm = NoToken /\ Left(s)
      BY <1>0, <2>0, <2>3 DEF Leaving, Subscription, Left
    <3> HIDE DEF s
    <3>3. QED
      BY <2>1, <3>1, <3>2 DEF TokenWhileWaiting
  <2>4. ASSUME s = [r EXCEPT !.sent = today]
        PROVE  Good
    <3>1. s \in Subscription
      BY <1>0, <2>0, <2>4 DEF Subscription
    <3>2. s.consent = r.consent /\ s.unsub = r.unsub /\ s.confirm = r.confirm /\ s.left = r.left
          /\ s.confirmed = r.confirmed
      BY <2>0, <2>4 DEF Subscription
    <3> HIDE DEF s
    <3>3. QED
      BY <2>0, <2>1, <3>1, <3>2 DEF TokenWhileWaiting, Left
  <2>5. QED
    BY <1>3, <2>2, <2>3, <2>4 DEF Touched
<1>4. QED
  BY <1>0, <1>1, <1>2, <1>3 DEF RowStep, OwnTokens

\* A consent that ended stays ended.
LEMMA EndedStays ==
  ASSUME TableTypeOK, \A a \in Addresses : HasSubscription(a) => OwnTokens(subscribers[a]), Reader
  PROVE  Ended \subseteq Ended'
<1> SUFFICES ASSUME NEW c \in Ended
             PROVE  c \in Ended'
  OBVIOUS
<1>1. consents \in Nat /\ consents' \in Nat /\ consents <= consents' /\ c \in 1..consents
  BY TableTypes, RowSteps, NewsletterAssumption DEF Ended
<1>2. ASSUME NEW a \in Addresses, HasSubscription(a)', ~Left(subscribers'[a]), subscribers'[a].unsub = c
      PROVE  FALSE
  <2>1. HasSubscription(a) /\ subscribers[a].unsub = c /\ ~Left(subscribers[a])
    BY <1>1, <1>2, RowSteps, RowStaysTyped
  <2>2. QED
    BY <2>1 DEF Ended
<1>3. QED
  BY <1>1, <1>2 DEF Ended, Left, Never

LEMMA ProvenGrows ==
  ASSUME CampaignNext
  PROVE  /\ proven \subseteq proven'
         /\ \A a \in Addresses : HasSubscription(a)' /\ subscribers'[a].confirmed
                                   => subscribers'[a].consent \in proven'
BY DEF CampaignNext, HasSubscription

LEMMA TablesStep ==
  ASSUME TableTypeOK, ConsentsAreOwn, CampaignNext
  PROVE  TableTypeOK' /\ ConsentsAreOwn' /\ Ended \subseteq Ended'
<1>1. CASE UNCHANGED tableVars
  BY <1>1, ProvenGrows DEF tableVars, TableTypeOK, ConsentsAreOwn, OwnTokens, HasSubscription, Ended
<1>2. CASE Reader
  <2>1. /\ consents' \in Nat /\ consents <= consents' /\ profiles' \subseteq Users
        /\ \A a \in Addresses : RowStep(a)
    BY <1>2, RowSteps, NewsletterAssumption DEF TableTypeOK
  <2>2. \A a \in Addresses : HasSubscription(a)' => /\ subscribers'[a] \in Subscription
                                          /\ TokenWhileWaiting(subscribers'[a])
                                          /\ OwnTokens(subscribers[a])'
    BY <2>1, RowStaysTyped DEF ConsentsAreOwn
  <2>3. subscribers' \in [Addresses -> Subscription \cup {NoSubscription}]
    BY <1>2, <2>2, RowSteps DEF HasSubscription
  <2>4. TableTypeOK'
    BY <1>2, <2>1, <2>2, <2>3, RowSteps DEF TableTypeOK
  <2>5. ConsentsAreOwn'
    BY <2>2, ProvenGrows DEF ConsentsAreOwn
  <2>6. QED
    BY <1>2, <2>4, <2>5, EndedStays DEF ConsentsAreOwn
<1>3. QED
  BY <1>1, <1>2 DEF CampaignNext

-----------------------------------------------------------------------------
(* The owner tests.                                                        *)

\* No test is taken back, and the verdict of a sent or released one is final.
TestsKept == /\ DOMAIN tests \subseteq DOMAIN tests' /\ Len(tests) <= Len(tests')
             /\ \A j \in DOMAIN tests : tests[j].status \in {"sent", "released"}
                                          => tests'[j].status = tests[j].status

LEMMA TestsStep ==
  ASSUME MaxTests \in Nat, CampaignTypes, CampaignNext
  PROVE  /\ TestsKept
         /\ tests' \in Seq([token : Consent, status : TestStatus, first : Nat])
         /\ Len(tests') <= MaxTests /\ testing' \in Consent \cup {NoToken}
<1> DEFINE Test == [token : Consent, status : TestStatus, first : Nat]
           Good == /\ TestsKept /\ tests' \in Seq(Test) /\ Len(tests') <= MaxTests
                   /\ testing' \in Consent \cup {NoToken}
<1>1. /\ tests \in Seq(Test) /\ Len(tests) <= MaxTests /\ testing \in Consent \cup {NoToken}
      /\ Len(tests) \in Nat /\ DOMAIN tests = 1..Len(tests) /\ today \in Nat
      /\ \A j \in DOMAIN tests : tests[j] \in Test
  <2>1. /\ tests \in Seq(Test) /\ Len(tests) <= MaxTests /\ testing \in Consent \cup {NoToken}
        /\ today \in Nat
    BY TableTypes DEF CampaignTypes, CampaignTypeOK
  <2> HIDE DEF Test
  <2>2. QED
    BY <2>1
<1>2. ASSUME ReadOwner
      PROVE  Good
  <2>1. subscribers[Owner].unsub \in Consent
    BY <1>2, TableTypes DEF CampaignTypes, ReadOwner, Recipients, Subscription
  <2>2. QED
    BY <1>1, <1>2, <2>1 DEF ReadOwner, TestsKept
<1>3. ASSUME SendTest
      PROVE  Good
  <2>1. CASE UNCHANGED tests
    BY <1>1, <1>3, <2>1 DEF SendTest, TestsKept
  <2>2. CASE ~UNCHANGED tests
    <3> DEFINE t == [token |-> testing, status |-> "reserved", first |-> today]
    <3>1. tests' = Append(tests, t) /\ Len(tests) < MaxTests /\ testing \in Consent /\ testing' = NoToken
      BY <1>1, <1>3, <2>2 DEF SendTest
    <3>2. t \in Test
      BY <1>1, <3>1 DEF TestStatus
    <3> HIDE DEF t
    <3>3. QED
      BY <1>1, <3>1, <3>2 DEF TestsKept
  <2>3. QED
    BY <2>1, <2>2
<1>4. ASSUME NEW j \in DOMAIN tests, TestSettles(j)
      PROVE  Good
  <2>1. PICK status \in TestStatus :
          /\ tests[j].status \in {"reserved", "unknown"}
          /\ tests' = [tests EXCEPT ![j] = [tests[j] EXCEPT !.status = status]]
          /\ UNCHANGED testing
    BY <1>1, <1>4 DEF TestSettles
  <2>2. [tests[j] EXCEPT !.status = status] \in Test
    BY <1>1
  <2>3. tests' \in Seq(Test) /\ Len(tests') = Len(tests) /\ DOMAIN tests' = DOMAIN tests
    BY <1>1, <2>1, <2>2
  <2>4. \A i \in DOMAIN tests : i # j => tests'[i] = tests[i]
    BY <1>1, <2>1
  <2>5. QED
    BY <1>1, <2>1, <2>3, <2>4 DEF TestsKept
<1>5. ASSUME UNCHANGED <<tests, testing>>
      PROVE  Good
  BY <1>1, <1>5 DEF TestsKept
<1>6. ASSUME NEW w \in Mailers,
             StartCampaign(w) \/ ReadRecipients(w) \/ CheckEligible(w) \/ Reserve(w)
             \/ SendReturns(w) \/ HaltCampaign(w)
      PROVE  UNCHANGED <<tests, testing>>
  BY <1>6 DEF StartCampaign, ReadRecipients, CheckEligible, Reserve, SendReturns, HaltCampaign
<1>7. ASSUME (\E attested \in BOOLEAN : Approve(attested)) \/ (\E a \in Addresses : LetterAccepted(a))
      PROVE  UNCHANGED <<tests, testing>>
  BY <1>7 DEF Approve, LetterAccepted
<1>8. QED
  BY <1>2, <1>3, <1>4, <1>5, <1>6, <1>7 DEF CampaignNext, Operator, Sending

\* Who approves names the newest of the tests that were sent.
LEMMA ApprovalStep ==
  ASSUME CampaignTypes, ApprovalIsSent, TestsKept, CampaignNext
  PROVE  approval' \in Approvals /\ ApprovalIsSent'
<1>1. /\ approval \in Approvals /\ today \in Nat /\ Len(tests) \in Nat
      /\ DOMAIN tests = 1..Len(tests)
  BY TableTypes DEF CampaignTypes, CampaignTypeOK
<1>2. SentTests \subseteq SentTests'
  BY DEF SentTests, TestsKept
<1>3. CASE UNCHANGED approval
  BY <1>1, <1>2, <1>3 DEF ApprovalIsSent
<1>4. ASSUME NEW attested \in BOOLEAN, Approve(attested)
      PROVE  approval' \in Approvals /\ approval'.test \in SentTests'
  <2>1. Newest(SentTests) \in SentTests /\ Newest(SentTests) \in Nat
    <3>1. SentTests \in SUBSET (1..Len(tests)) /\ SentTests # {}
      BY <1>1, <1>4 DEF Approve, SentTests
    <3>2. Newest(SentTests) \in SentTests
      BY <1>1, <3>1, NewestIs
    <3>3. Newest(SentTests) \in 1..Len(tests)
      BY <3>1, <3>2
    <3>4. QED
      BY <1>1, <3>2, <3>3
  <2>2. approval' = [test |-> Newest(SentTests), at |-> today, measured |-> Measured(tests[Newest(SentTests)])]
    BY <1>4 DEF Approve
  <2>3. Measured(tests[Newest(SentTests)]) \in BOOLEAN
    BY DEF Measured
  <2>4. QED
    BY <1>1, <1>2, <2>1, <2>2, <2>3 DEF Approvals
<1>5. ASSUME NEW w \in Mailers,
             StartCampaign(w) \/ ReadRecipients(w) \/ CheckEligible(w) \/ Reserve(w)
             \/ SendReturns(w) \/ HaltCampaign(w)
      PROVE  UNCHANGED approval
  BY <1>5 DEF StartCampaign, ReadRecipients, CheckEligible, Reserve, SendReturns, HaltCampaign
<1>6. ASSUME ReadOwner \/ SendTest \/ (\E j \in DOMAIN tests : TestSettles(j))
             \/ (\E a \in Addresses : LetterAccepted(a))
      PROVE  UNCHANGED approval
  BY <1>6 DEF ReadOwner, SendTest, TestSettles, LetterAccepted
<1>7. QED
  BY <1>3, <1>4, <1>5, <1>6 DEF CampaignNext, Operator, Sending, ApprovalIsSent

-----------------------------------------------------------------------------
(* The runs.                                                               *)

ProvenBodies == {i \in Bodies : i.unsub \in proven}

Started(c) == c = [AtRest EXCEPT !.pc = "list", !.under = approval, !.known = Len(tests), !.since = today]
Turned(c, d) == \E left \in SUBSET ProvenBodies : \E i \in left :
  d.pc # "idle" /\ c = [d EXCEPT !.pc = "check", !.item = i, !.todo = left \ {i}, !.ended = Ended]
RunStep(c, d) ==
  \/ c = d \/ c = AtRest
  \/ d.pc = "idle" /\ GateOpen /\ Started(c)
  \/ Turned(c, d)
  \/ d.pc = "check" /\ Eligible(d.item) /\ c = [d EXCEPT !.pc = "send"]
  \/ d.pc = "send" /\ c = [d EXCEPT !.pc = "wait"]

LEMMA TurnStep ==
  ASSUME NEW w \in Mailers, NEW left \in SUBSET ProvenBodies, Turn(w, left),
         camp \in [Mailers -> RunState], camp[w].pc # "idle"
  PROVE  /\ camp' = [v \in Mailers |-> camp'[v]]
         /\ \A v \in Mailers : RunStep(camp'[v], camp[v])
<1>1. CASE left = {} /\ camp' = [camp EXCEPT ![w] = AtRest]
  BY <1>1 DEF RunStep
<1>2. ASSUME NEW i \in left,
             camp' = [camp EXCEPT ![w] = [camp[w] EXCEPT !.pc = "check", !.item = i,
                                                         !.todo = left \ {i}, !.ended = Ended]]
      PROVE  /\ camp' = [v \in Mailers |-> camp'[v]]
             /\ \A v \in Mailers : RunStep(camp'[v], camp[v])
  BY <1>2 DEF RunStep, Turned
<1>3. ASSUME NEW i \in left,
             camp' = [camp EXCEPT ![w].pc = "check", ![w].item = i, ![w].todo = left \ {i}, ![w].ended = Ended]
      PROVE  camp' = [camp EXCEPT ![w] = [camp[w] EXCEPT !.pc = "check", !.item = i,
                                                         !.todo = left \ {i}, !.ended = Ended]]
  BY <1>3
<1>4. QED
  BY <1>1, <1>2, <1>3 DEF Turn

LEMMA RunSteps ==
  ASSUME CampaignInv, CampaignNext
  PROVE  /\ camp' = [v \in Mailers |-> camp'[v]]
         /\ \A v \in Mailers : RunStep(camp'[v], camp[v])
<1> DEFINE Good == /\ camp' = [v \in Mailers |-> camp'[v]]
                   /\ \A v \in Mailers : RunStep(camp'[v], camp[v])
<1>1. camp \in [Mailers -> RunState]
  BY DEF CampaignInv, CampaignTypes
<1>2. ASSUME NEW w \in Mailers, camp[w].pc # "idle"
      PROVE  camp[w].todo \in SUBSET ProvenBodies
  BY <1>1 DEF CampaignInv, RunsAreHonest, RunIsHonest, RunState, ProvenBodies
<1>3. ASSUME NEW w \in Mailers, StartCampaign(w)
      PROVE  Good
  <2>1. PICK c : Started(c) /\ camp' = [camp EXCEPT ![w] = c]
    BY <1>3 DEF StartCampaign, Started
  <2>2. QED
    BY <1>1, <1>3, <2>1 DEF StartCampaign, RunStep
<1>4. ASSUME NEW w \in Mailers, ReadRecipients(w)
      PROVE  Good
  <2>1. {RecipientRow(a) : a \in Recipients} \in SUBSET ProvenBodies
    <3> SUFFICES ASSUME NEW a \in Recipients
                 PROVE  RecipientRow(a) \in ProvenBodies
      OBVIOUS
    <3>1. a \in Addresses /\ HasSubscription(a) /\ subscribers[a].confirmed /\ subscribers[a] \in Subscription
      BY TableTypes DEF CampaignInv, CampaignTypes, Recipients, Subscribed
    <3>2. subscribers[a].unsub \in proven
      BY <3>1 DEF CampaignInv, ConsentsAreOwn, OwnTokens
    <3>3. QED
      BY <3>1, <3>2 DEF RecipientRow, ProvenBodies, Bodies, Subscription
  <2>2. QED
    BY <1>1, <1>4, <2>1, TurnStep DEF ReadRecipients
<1>5. ASSUME NEW w \in Mailers, CheckEligible(w)
      PROVE  Good
  <2>1. CASE Eligible(camp[w].item)
    <3>1. camp' = [camp EXCEPT ![w] = [camp[w] EXCEPT !.pc = "send"]] /\ camp[w].pc = "check"
      BY <1>1, <1>5, <2>1 DEF CheckEligible
    <3>2. QED
      BY <1>1, <2>1, <3>1 DEF RunStep
  <2>2. CASE ~Eligible(camp[w].item)
    BY <1>1, <1>2, <1>5, <2>2, TurnStep DEF CheckEligible
  <2>3. QED
    BY <2>1, <2>2
<1>6. ASSUME NEW w \in Mailers, Reserve(w)
      PROVE  Good
  <2>1. CASE MismatchedBody(camp[w].item)
    BY <1>1, <1>2, <1>6, <2>1, TurnStep DEF Reserve
  <2>2. CASE ~MismatchedBody(camp[w].item)
    <3>1. camp' = [camp EXCEPT ![w] = [camp[w] EXCEPT !.pc = "wait"]] /\ camp[w].pc = "send"
      BY <1>1, <1>6, <2>2 DEF Reserve
    <3>2. QED
      BY <1>1, <3>1 DEF RunStep
  <2>3. QED
    BY <2>1, <2>2
<1>7. ASSUME NEW w \in Mailers, SendReturns(w)
      PROVE  Good
  BY <1>1, <1>2, <1>7, TurnStep DEF SendReturns
<1>8. ASSUME NEW w \in Mailers, HaltCampaign(w)
      PROVE  Good
  BY <1>1, <1>8 DEF HaltCampaign, RunStep
<1>9. CASE UNCHANGED camp
  BY <1>1, <1>9 DEF RunStep
<1>10. ASSUME \/ ReadOwner \/ SendTest
              \/ \E j \in DOMAIN tests : TestSettles(j)
              \/ \E attested \in BOOLEAN : Approve(attested)
              \/ \E a \in Addresses : LetterAccepted(a)
       PROVE  UNCHANGED camp
  BY <1>10 DEF ReadOwner, SendTest, TestSettles, Approve, LetterAccepted
<1>11. QED
  BY <1>3, <1>4, <1>5, <1>6, <1>7, <1>8, <1>9, <1>10 DEF CampaignNext, Operator, Sending

\* What a run wrote down stays true, and it sends only to whom it found again.
LEMMA HonestStep ==
  ASSUME TableTypeOK, ConsentsAreOwn, proven \subseteq proven', Ended \subseteq Ended',
         NEW d \in RunState, NEW c, RunStep(c, d), RunIsHonest(d), Ended \subseteq Consent,
         approval \in Approvals, today \in Nat, Len(tests) \in Nat
  PROVE  c \in RunState /\ RunIsHonest(c)'
<1>1. CASE c = d
  BY <1>1 DEF RunIsHonest
<1>2. AtRest \in RunState /\ RunIsHonest(AtRest)'
  BY DEF AtRest, RunState, RunIsHonest, Approvals, NoApproval
<1>3. CASE Started(c)
  <2>1. c \in RunState
    BY <1>2, <1>3 DEF Started, AtRest, RunState
  <2>2. c.pc = "list" /\ c.todo = {} /\ c.ended = {}
    BY <1>3 DEF Started, AtRest
  <2>3. QED
    BY <2>1, <2>2 DEF RunIsHonest
<1>4. CASE Turned(c, d)
  <2>0. PICK left \in SUBSET ProvenBodies : \E i \in left :
          c = [d EXCEPT !.pc = "check", !.item = i, !.todo = left \ {i}, !.ended = Ended]
    BY <1>4 DEF Turned
  <2>1. PICK i \in left :
          c = [d EXCEPT !.pc = "check", !.item = i, !.todo = left \ {i}, !.ended = Ended]
    BY <2>0
  <2>2. i \in Bodies /\ left \ {i} \in SUBSET Bodies /\ \A j \in left : j.unsub \in proven'
    BY <2>1 DEF ProvenBodies
  <2>3. c \in RunState
    BY <2>1, <2>2 DEF RunState
  <2>4. c.pc = "check" /\ c.item = i /\ c.todo = left \ {i} /\ c.ended = Ended
    BY <2>1 DEF RunState
  <2>5. QED
    BY <2>2, <2>3, <2>4 DEF RunIsHonest
<1>5. CASE d.pc = "check" /\ Eligible(d.item) /\ c = [d EXCEPT !.pc = "send"]
  <2>1. c \in RunState /\ c.pc = "send" /\ c.item = d.item /\ c.todo = d.todo /\ c.ended = d.ended
    BY <1>5 DEF RunState
  <2>2. d.item.unsub \notin Ended
    BY <1>5 DEF Eligible, Recipients, Subscribed, Ended
  <2>3. QED
    BY <1>5, <2>1, <2>2 DEF RunIsHonest
<1>6. CASE d.pc = "send" /\ c = [d EXCEPT !.pc = "wait"]
  <2>1. c \in RunState /\ c.pc = "wait" /\ c.item = d.item /\ c.todo = d.todo /\ c.ended = d.ended
    BY <1>6 DEF RunState
  <2>2. QED
    BY <1>6, <2>1 DEF RunIsHonest
<1>7. QED
  BY <1>1, <1>2, <1>3, <1>4, <1>5, <1>6 DEF RunStep

\* The gate's finding stays true while the run goes on.
LEMMA ClearedStep ==
  ASSUME CampaignTypes, ApprovalIsSent, TestsKept,
         NEW d \in RunState, NEW c, RunStep(c, d), RunIsCleared(d)
  PROVE  RunIsCleared(c)'
<1>1. Len(tests) \in Nat /\ Len(tests') >= Len(tests) /\ DOMAIN tests = 1..Len(tests)
      /\ SentTests \subseteq SentTests' /\ approval \in Approvals
  BY DEF CampaignTypes, CampaignTypeOK, TestsKept, SentTests
<1>2. ASSUME c.pc # "idle" => d.pc # "idle" /\ c.under = d.under /\ c.since = d.since /\ c.known = d.known
      PROVE  RunIsCleared(c)'
  <2> SUFFICES ASSUME c.pc # "idle"
               PROVE  /\ c.under.test \in SentTests' /\ c.since < c.under.at + ApprovalLife
                      /\ c.known <= Len(tests')
                      /\ \A j \in (c.under.test + 1)..c.known : tests'[j].status = "released"
    BY DEF RunIsCleared
  <2>1. /\ d.under.test \in SentTests /\ d.since < d.under.at + ApprovalLife
        /\ d.known <= Len(tests) /\ d.known \in Nat /\ d.under.test \in Nat
        /\ \A j \in (d.under.test + 1)..d.known : tests[j].status = "released"
    BY <1>2 DEF RunIsCleared, RunState, Approvals
  <2>2. \A j \in (d.under.test + 1)..d.known : j \in DOMAIN tests
    BY <1>1, <2>1
  <2>3. QED
    BY <1>1, <1>2, <2>1, <2>2 DEF TestsKept
<1>3. CASE c = AtRest
  BY <1>3 DEF AtRest, RunIsCleared
<1>4. CASE c = d \/ Turned(c, d) \/ (d.pc = "check" /\ c = [d EXCEPT !.pc = "send"])
           \/ (d.pc = "send" /\ c = [d EXCEPT !.pc = "wait"])
  BY <1>2, <1>4 DEF Turned, RunState
<1>5. CASE GateOpen /\ Started(c)
  <2>1. c.pc = "list" /\ c.under = approval /\ c.known = Len(tests) /\ c.since = today
    BY <1>5 DEF Started, AtRest
  <2>2. approval.test \in SentTests /\ today < approval.at + ApprovalLife
        /\ approval.test = Newest(Superseding) /\ approval.test \in Nat
    BY <1>1, <1>5 DEF GateOpen, ApprovalIsSent, Approvals
  <2>3. Superseding \in SUBSET (1..Len(tests)) /\ Superseding # {}
    BY <1>1, <2>2 DEF Superseding, SentTests
  <2>4. \A i \in Superseding : i <= approval.test
    BY <1>1, <2>2, <2>3, NewestIs
  <2>5. ASSUME NEW j \in (approval.test + 1)..Len(tests)
        PROVE  j \in DOMAIN tests /\ tests[j].status = "released"
    <3>1. j \in DOMAIN tests /\ ~(j <= approval.test)
      BY <1>1, <2>2
    <3>2. QED
      BY <2>4, <3>1 DEF Superseding
  <2>6. QED
    BY <1>1, <2>1, <2>2, <2>5 DEF RunIsCleared, TestsKept
<1>6. QED
  BY <1>3, <1>4, <1>5 DEF RunStep

-----------------------------------------------------------------------------
(* The letters.                                                            *)

\* The body a reader's mail is bound to is bound once, from a run's item.
LEMMA LettersStep ==
  ASSUME CampaignInv, CampaignNext
  PROVE  /\ intent' \in [Addresses -> Consent \cup {NoToken}]
         /\ LettersAreBound'
<1> DEFINE Good == /\ intent' \in [Addresses -> Consent \cup {NoToken}]
                   /\ \A a \in Addresses : intent[a] # NoToken => intent'[a] = intent[a]
                   /\ \A a \in Addresses : intent'[a] # NoToken => intent'[a] \in proven
                   /\ \A l \in letters' :
                        l \in letters \/ \E a \in Addresses : intent[a] # NoToken /\ l = <<a, intent[a]>>
<1>1. /\ intent \in [Addresses -> Consent \cup {NoToken}] /\ camp \in [Mailers -> RunState]
      /\ \A a \in Addresses : intent[a] # NoToken => intent[a] \in proven
  BY DEF CampaignInv, CampaignTypes, CampaignTypeOK, LettersAreBound
<1>2. ASSUME UNCHANGED <<intent, letters>>
      PROVE  Good
  BY <1>1, <1>2
<1>3. ASSUME NEW w \in Mailers, Reserve(w)
      PROVE  Good
  <2> DEFINE i == camp[w].item
  <2>1. CASE MismatchedBody(i)
    BY <1>1, <1>3, <2>1 DEF Reserve
  <2>2. CASE ~MismatchedBody(i)
    <3>1. i \in Bodies /\ i.unsub \in proven
      BY <1>3 DEF Reserve, CampaignInv, RunsAreHonest, RunIsHonest
    <3>2. /\ i.addr \in Addresses /\ i.unsub \in Consent /\ intent[i.addr] \in {NoToken, i.unsub}
          /\ intent' = [intent EXCEPT ![i.addr] = i.unsub] /\ letters' = letters
      BY <1>3, <2>2, <3>1 DEF Reserve, MismatchedBody, Bodies
    <3> HIDE DEF i
    <3>3. QED
      BY <1>1, <3>1, <3>2
  <2>3. QED
    BY <2>1, <2>2
<1>4. ASSUME NEW a \in Addresses, LetterAccepted(a)
      PROVE  Good
  BY <1>1, <1>4 DEF LetterAccepted
<1>5. ASSUME NEW w \in Mailers,
             StartCampaign(w) \/ ReadRecipients(w) \/ CheckEligible(w) \/ SendReturns(w) \/ HaltCampaign(w)
      PROVE  UNCHANGED <<intent, letters>>
  BY <1>5 DEF StartCampaign, ReadRecipients, CheckEligible, SendReturns, HaltCampaign
<1>6. ASSUME \/ ReadOwner \/ SendTest
             \/ \E j \in DOMAIN tests : TestSettles(j)
             \/ \E attested \in BOOLEAN : Approve(attested)
      PROVE  UNCHANGED <<intent, letters>>
  BY <1>6 DEF ReadOwner, SendTest, TestSettles, Approve
<1>7. Good
  BY <1>1, <1>2, <1>3, <1>4, <1>5, <1>6 DEF CampaignNext, Operator, Sending
<1>8. \A l \in letters' : l[1] \in Addresses /\ intent[l[1]] # NoToken /\ l = <<l[1], intent[l[1]]>>
  BY <1>7 DEF CampaignInv, LettersAreBound
<1>9. QED
  BY <1>7, <1>8, ProvenGrows DEF LettersAreBound

-----------------------------------------------------------------------------
LEMMA CampaignStarts ==
  ASSUME MaxTests \in Nat, CampaignInit
  PROVE  CampaignInv
<1> DEFINE row == Confirmed([NewRow(1, 1) EXCEPT !.sent = 0], NoUser)
<1>1. 1 \in Consent /\ 1 \in 0..MaxConsents /\ 0 \in 0..MaxDays /\ Never \in Nat /\ today = 0
      /\ MaxDays \in Nat /\ Never # 0
  BY NewsletterAssumption DEF Consent, Never, CampaignInit
<1>2. [NewRow(1, 1) EXCEPT !.sent = 0] \in Subscription
  BY <1>1 DEF NewRow, Subscription
<1>3. row \in Subscription
  BY <1>2 DEF Confirmed, Subscription
<1>4. row.consent = 1 /\ row.unsub = 1 /\ row.confirm = NoToken /\ row.confirmed
  BY DEF Confirmed, NewRow
<1> HIDE DEF row
<1>5. \A a \in Addresses : subscribers[a] = row \/ subscribers[a] = NoSubscription
  BY DEF CampaignInit, row
<1>6. TableTypeOK
  <2>1. subscribers \in [Addresses -> Subscription \cup {NoSubscription}]
    BY <1>3 DEF CampaignInit, row
  <2>2. \A a \in Addresses : HasSubscription(a) => TokenWhileWaiting(subscribers[a])
    BY <1>4, <1>5 DEF TokenWhileWaiting, HasSubscription
  <2>3. /\ profiles \subseteq Users /\ asking \in [Addresses -> 0..MaxConsents]
        /\ consents \in 0..MaxConsents /\ today \in 0..MaxDays
    <3>1. profiles = {} /\ asking = [a \in Addresses |-> 0] /\ consents = 1 /\ today = 0
      BY DEF CampaignInit
    <3>2. 0 \in 0..MaxConsents
      BY NewsletterAssumption
    <3>3. QED
      BY <1>1, <3>1, <3>2
  <2>4. QED
    BY <2>1, <2>2, <2>3 DEF TableTypeOK
<1>7. ConsentsAreOwn
  BY <1>1, <1>4, <1>5 DEF CampaignInit, ConsentsAreOwn, OwnTokens, HasSubscription
<1>8. AtRest \in RunState
  BY DEF AtRest, RunState, Approvals, NoApproval
<1>9. CampaignTypeOK /\ approval \in Approvals /\ camp \in [Mailers -> RunState]
  <2>1. tests = <<>> /\ Len(tests) = 0 /\ 0 <= MaxTests
    BY DEF CampaignInit
  <2>2. tests \in Seq([token : Consent, status : TestStatus, first : Nat])
    BY <2>1
  <2>3. /\ camp = [w \in Mailers |-> AtRest] /\ intent = [a \in Addresses |-> NoToken]
        /\ testing = NoToken /\ approval = NoApproval
    BY DEF CampaignInit
  <2>4. approval \in Approvals /\ approval.test \in 0..Len(tests)
    BY <2>1, <2>3 DEF NoApproval, Approvals
  <2>5. \A w \in Mailers : camp[w].pc \in {"idle", "list", "check", "send", "wait"}
    BY <2>3 DEF AtRest
  <2>6. camp \in [Mailers -> RunState] /\ intent \in [Addresses -> Consent \cup {NoToken}]
    BY <1>8, <2>3
  <2>7. QED
    BY <2>1, <2>2, <2>3, <2>4, <2>5, <2>6 DEF CampaignTypeOK
<1>10. RunsAreHonest /\ RunsAreCleared
  BY DEF CampaignInit, RunsAreHonest, RunsAreCleared, RunIsHonest, RunIsCleared, AtRest
<1>11. ApprovalIsSent /\ LettersAreBound
  BY DEF CampaignInit, ApprovalIsSent, LettersAreBound
<1>12. QED
  BY <1>6, <1>7, <1>9, <1>10, <1>11 DEF CampaignInv, CampaignTypes

LEMMA CampaignKeeps ==
  ASSUME MaxTests \in Nat, CampaignInv, [CampaignNext]_<<tableVars, campaignVars>>
  PROVE  CampaignInv'
<1>1. CASE UNCHANGED <<tableVars, campaignVars>>
  BY <1>1 DEF tableVars, campaignVars, CampaignInv, CampaignTypes, TableTypeOK, CampaignTypeOK,
              ConsentsAreOwn, OwnTokens, HasSubscription, RunsAreHonest, RunIsHonest, Ended,
              RunsAreCleared, RunIsCleared, SentTests, ApprovalIsSent, LettersAreBound
<1>2. CASE CampaignNext
  <2>1. TableTypeOK' /\ ConsentsAreOwn' /\ Ended \subseteq Ended' /\ proven \subseteq proven'
    BY <1>2, TablesStep, ProvenGrows DEF CampaignInv, CampaignTypes
  <2>2. /\ TestsKept /\ testing' \in Consent \cup {NoToken}
        /\ tests' \in Seq([token : Consent, status : TestStatus, first : Nat])
        /\ Len(tests') <= MaxTests
    BY <1>2, TestsStep DEF CampaignInv
  <2>3. approval' \in Approvals /\ ApprovalIsSent'
    BY <1>2, <2>2, ApprovalStep DEF CampaignInv
  <2>4. Ended \subseteq Consent /\ today \in Nat /\ Len(tests) \in Nat
    BY TableTypes DEF CampaignInv, CampaignTypes, CampaignTypeOK, Ended, Consent
  <2>5. ASSUME NEW w \in Mailers
        PROVE  camp'[w] \in RunState /\ RunIsHonest(camp[w])' /\ RunIsCleared(camp[w])'
    <3>1. camp[w] \in RunState /\ RunIsHonest(camp[w]) /\ RunIsCleared(camp[w])
          /\ RunStep(camp'[w], camp[w])
      BY <1>2, RunSteps DEF CampaignInv, CampaignTypes, RunsAreHonest, RunsAreCleared
    <3>2. camp'[w] \in RunState /\ RunIsHonest(camp[w])'
      BY <2>1, <2>4, <3>1, HonestStep DEF CampaignInv, CampaignTypes
    <3>3. RunIsCleared(camp[w])'
      BY <2>2, <3>1, ClearedStep DEF CampaignInv
    <3>4. QED
      BY <3>2, <3>3
  <2>6. camp' \in [Mailers -> RunState] /\ RunsAreHonest' /\ RunsAreCleared'
    BY <1>2, <2>5, RunSteps DEF RunsAreHonest, RunsAreCleared
  <2>7. intent' \in [Addresses -> Consent \cup {NoToken}] /\ LettersAreBound'
    BY <1>2, LettersStep
  <2>8. approval'.test \in 0..Len(tests')
    <3>1. Len(tests') \in Nat /\ approval'.test \in Nat /\ DOMAIN tests' = 1..Len(tests')
      BY <2>2, <2>3 DEF Approvals
    <3>2. CASE approval' = NoApproval
      BY <3>1, <3>2 DEF NoApproval
    <3>3. CASE approval' # NoApproval
      BY <2>3, <3>1, <3>3 DEF ApprovalIsSent, SentTests
    <3>4. QED
      BY <3>2, <3>3
  <2>9. CampaignTypeOK'
    BY <2>2, <2>6, <2>7, <2>8 DEF CampaignTypeOK, RunState
  <2>10. QED
    BY <2>1, <2>3, <2>6, <2>7, <2>9 DEF CampaignInv, CampaignTypes
<1>3. QED
  BY <1>1, <1>2

(* However many runs overlap and however often the owner tests anew and the  *)
(* readers leave and come back: a run under way was let through by an       *)
(* approval of a test that was accepted, in time and newer than any other; it *)
(* turns to nobody whose consent had ended or was never confirmed; and each   *)
(* reader gets one body of the entry at most.                               *)
THEOREM CampaignIsClearedHolds ==
  ASSUME MaxTests \in Nat
  PROVE  CampaignSpec => []CampaignIsCleared
<1>1. CampaignInv => CampaignIsCleared
  <2> SUFFICES ASSUME CampaignInv
               PROVE  CampaignIsCleared
    OBVIOUS
  <2>1. CampaignTypeOK
    BY DEF CampaignInv, CampaignTypes
  <2>2. ASSUME NEW w \in Mailers, camp[w].pc # "idle"
        PROVE  LET q == camp[w] IN
               /\ tests[q.under.test].status = "sent" /\ q.since < q.under.at + ApprovalLife
               /\ \A j \in (q.under.test + 1)..q.known : tests[j].status = "released"
               /\ q.pc \in {"send", "wait"} => q.item.unsub \in proven \ q.ended
    BY <2>2 DEF CampaignInv, RunsAreHonest, RunIsHonest, RunsAreCleared, RunIsCleared, SentTests
  <2>3. \A l, m \in letters : l[2] \in proven /\ (l[1] = m[1] => l = m)
    BY DEF CampaignInv, LettersAreBound
  <2>4. QED
    BY <2>1, <2>2, <2>3 DEF CampaignIsCleared
<1>2. MaxTests \in Nat /\ CampaignInv /\ [CampaignNext]_<<tableVars, campaignVars>> => CampaignInv'
  BY CampaignKeeps
<1>3. QED
  BY <1>1, <1>2, CampaignStarts, PTL DEF CampaignSpec
=============================================================================
