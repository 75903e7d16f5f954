------------------------------ MODULE MailLedger ------------------------------
(***************************************************************************)
(* The send ledger of mail/sql/002_dewfpga_mail_ledger.sql.                *)
(*                                                                         *)
(* One row per provider idempotency key.  A logical mail m may use the     *)
(* keys <<m, 1>> (the base key), <<m, 2>> (':r2'), ... up to MaxAttempts.  *)
(* Every SQL function takes the same advisory lock for its transaction, so *)
(* each is one atomic action here.  The caller is arbitrary: any key may   *)
(* be reserved and any claim, current or stale, may be settled with any    *)
(* status at any time.  What is true here is true whatever the worker does.*)
(*                                                                         *)
(* Abstractions: recipient, payload and content hash are one value, the    *)
(* payload a key is bound to; a claim's random uuid is the row's claim     *)
(* count (fresh per claim of a key, 0 after the operator resolved it);     *)
(* created_at equals first_attempt_at, which never moves; message ids and  *)
(* notes are left out.  There is one consumer.                             *)
(***************************************************************************)
EXTENDS Integers, FiniteSets

CONSTANTS Mails,        \* the logical mails
          Payloads,     \* what a key can be bound to
          NoPayload,    \* the payload of a row that does not exist
          MaxAttempts,  \* keys the sender derives per logical mail
          MaxClaims,    \* max_claims: claims per row, and keys per mail
          Lease,        \* how long a claim is in flight
          Window,       \* reuse_window: same-key retries after the first
          Day, Month,   \* the two spans of the budget
          DayCap, MonthCap,
          MaxTime       \* bound: the clock stops there

ASSUME LedgerAssumption ==
  /\ NoPayload \notin Payloads
  /\ MaxAttempts \in Nat \ {0} /\ MaxClaims \in Nat \ {0}
  /\ Lease \in Nat /\ Window \in Nat /\ MaxTime \in Nat
  /\ Day \in Nat \ {0} /\ Month \in Nat /\ Day <= Month
  /\ DayCap \in Nat /\ MonthCap \in Nat

VARIABLES ledger,  \* Key -> row
          open,    \* the consumer is enrolled and has both caps
          now      \* the database clock

ledgerVars == <<ledger, open, now>>

Key == Mails \X (1..MaxAttempts)
MailOf(k) == k[1]

NoTime  == -1                          \* a null timestamp
Open    == {"reserved", "unknown"}     \* the provider may still accept
Refused == {"failed", "released"}      \* definite refusals
Settled == {"sent", "failed", "released", "unknown"}
Status  == {"none", "reserved"} \cup Settled

Row == [status : Status, attempts : 0..MaxClaims, first : Nat, last : Nat,
        settled : Nat \cup {NoTime}, uncertain : BOOLEAN,
        token : 0..MaxClaims, payload : Payloads \cup {NoPayload}]

NoRow == [status |-> "none", attempts |-> 0, first |-> 0, last |-> 0,
          settled |-> NoTime, uncertain |-> FALSE, token |-> 0,
          payload |-> NoPayload]

HasRow(k) == ledger[k].status # "none"
RowsOf(m) == {k \in Key : MailOf(k) = m /\ HasRow(k)}

-----------------------------------------------------------------------------
(* The budget (dewfpga_mail_budget): open rows always count, settled ones   *)
(* until their latest activity is a span old, released ones never.         *)

LatestActivityClaim(r) == r.last  \* mutant: the settlement does not count
LatestActivity(r) == IF r.settled > r.last THEN r.settled ELSE r.last

Counts(r, span) ==
  \/ r.status \in Open
  \/ r.status \in {"sent", "failed"} /\ LatestActivity(r) > now - span

Used(span) == Cardinality({k \in Key : Counts(ledger[k], span)})

\* A row that is re-claimed is already counted and is not counted twice.
SelfCountedAlways(k) == 1  \* mutant: a new key passes as if counted
SelfCounted(k) == IF HasRow(k) THEN 1 ELSE 0

GatesOpen(k) ==
  /\ open
  /\ DayCap - Used(Day) + SelfCounted(k) > 0
  /\ MonthCap - Used(Month) + SelfCounted(k) > 0

-----------------------------------------------------------------------------
(* Reserve: what the rows alone decide, before the gates.                  *)

\* Mutant: a key is not bound to its payload.
KnownKeyUnbound(k, p, a) ==
  /\ HasRow(k)
  /\ \/ a = "sent" /\ ledger[k].status = "sent"
     \/ a = "spent" /\ ledger[k].status \in Refused

KnownKeyDecides(k, p, a) ==
  /\ HasRow(k)
  /\ \/ a = "mismatch" /\ ledger[k].payload # p
     \/ a = "sent" /\ ledger[k].payload = p /\ ledger[k].status = "sent"
     \/ a = "spent" /\ ledger[k].payload = p /\ ledger[k].status \in Refused

Sibling(m, S) == \E j \in RowsOf(m) : ledger[j].status \in S

\* Mutants: only a claimed row blocks the next key; only a sent row binds the
\* mail's payload; one key too many.
UnresolvedClaimed(m)    == \E j \in RowsOf(m) : ledger[j].status = "reserved"
MismatchedSent(m, p)    == \E j \in RowsOf(m) : ledger[j].status = "sent" /\ ledger[j].payload # p
KeysUsedUpOffByOne(m)   == Cardinality(RowsOf(m)) > MaxClaims

Unresolved(m)    == \E j \in RowsOf(m) : ledger[j].status \in Open \/ ledger[j].uncertain
Mismatched(m, p) == \E j \in RowsOf(m) : ledger[j].payload # p
KeysUsedUp(m)    == Cardinality(RowsOf(m)) >= MaxClaims

NewKeyDecides(k, p, a) ==
  LET m == MailOf(k) IN
  /\ ~HasRow(k)
  /\ \/ a = "mismatch" /\ Mismatched(m, p)
     \/ /\ ~Mismatched(m, p)
        /\ \/ a = "sent" /\ Sibling(m, {"sent"})
           \/ a = "unresolved" /\ ~Sibling(m, {"sent"}) /\ Unresolved(m)
           \/ /\ a = "spent" /\ ~Sibling(m, {"sent"}) /\ ~Unresolved(m)
              /\ Sibling(m, {"released"}) \/ KeysUsedUp(m)

Answers == {"mismatch", "sent", "unresolved", "spent", "budget", "in_flight"}

Decides(k, p, a) == KnownKeyDecides(k, p, a) \/ NewKeyDecides(k, p, a)
Undecided(k, p)  == \A a \in Answers : ~Decides(k, p, a)

-----------------------------------------------------------------------------
(* Reserve: past the gates.                                                *)

PastBoundsOffByOne(r) ==  \* mutant: one claim too many
  now - r.first > Window \/ r.attempts > MaxClaims
PastBounds(r) == now - r.first > Window \/ r.attempts >= MaxClaims
InLease(r)    == r.status = "reserved" /\ r.last > now - Lease

MayClaim(k, p)   == Undecided(k, p) /\ GatesOpen(k)
MayReclaim(k, p) == /\ MayClaim(k, p) /\ HasRow(k)
                    /\ ~PastBounds(ledger[k]) /\ ~InLease(ledger[k])
MayInsert(k, p)  == MayClaim(k, p) /\ ~HasRow(k)

\* The reserve calls that write nothing, with what they answer or raise.
NoClaim(k, p, a) ==
  \/ Decides(k, p, a)
  \/ a = "budget" /\ Undecided(k, p) /\ ~GatesOpen(k)
  \/ a = "unresolved" /\ MayClaim(k, p) /\ HasRow(k) /\ PastBounds(ledger[k])
  \/ /\ a = "in_flight" /\ MayClaim(k, p) /\ HasRow(k)
     /\ ~PastBounds(ledger[k]) /\ InLease(ledger[k])

\* Mutant: a claim abandoned past its lease leaves no doubt behind.
ReclaimedCertain(r) ==
  [r EXCEPT !.status = "reserved", !.attempts = @ + 1, !.last = now, !.token = r.attempts + 1]

\* An abandoned claim may have reached the provider: the row is uncertain.
ReclaimedRow(r) ==
  [r EXCEPT !.status = "reserved", !.attempts = @ + 1, !.last = now,
            !.token = r.attempts + 1,
            !.uncertain = @ \/ r.status = "reserved"]

InsertedRow(p) ==
  [NoRow EXCEPT !.status = "reserved", !.attempts = 1, !.first = now,
                !.last = now, !.token = 1, !.payload = p]

Reclaim(k, p) ==
  /\ MayReclaim(k, p)
  /\ ledger' = [ledger EXCEPT ![k] = ReclaimedRow(@)]
  /\ UNCHANGED <<open, now>>

Insert(k, p) ==
  /\ MayInsert(k, p)
  /\ ledger' = [ledger EXCEPT ![k] = InsertedRow(p)]
  /\ UNCHANGED <<open, now>>

\* seconds_left: what is left of the same-key window.
SecondsLeft(r) == IF r.first + Window > now THEN r.first + Window - now ELSE 0

-----------------------------------------------------------------------------
(* Settle: a definite acceptance converges from any status, whatever claim  *)
(* it comes from; the current claim records its refusal, or unknown when    *)
(* the row is uncertain; a stale claim can only add uncertainty.           *)

AcceptedRow(r) ==
  IF r.status = "sent" THEN r ELSE [r EXCEPT !.status = "sent", !.settled = now]

CurrentClaim(r, token) == r.token = token /\ r.status = "reserved"

\* Mutant: a refusal is believed whatever an earlier claim did.
CurrentRowTrusting(r, want) ==
  [r EXCEPT !.status = want, !.uncertain = @ \/ want = "unknown", !.settled = now]

CurrentRow(r, want) ==
  LET v == IF r.uncertain /\ want \in Refused THEN "unknown" ELSE want IN
  [r EXCEPT !.status = v, !.uncertain = @ \/ v = "unknown", !.settled = now]

\* Mutant: a stale unknown marks a sent row too.
StaleRowAlways(r, want) ==
  IF want = "unknown"
  THEN [r EXCEPT !.uncertain = TRUE, !.status = IF @ \in Refused THEN "unknown" ELSE @]
  ELSE r

StaleRow(r, want) ==
  IF want = "unknown" /\ r.status # "sent"
  THEN [r EXCEPT !.uncertain = TRUE,
                 !.status = IF @ \in Refused THEN "unknown" ELSE @]
  ELSE r

\* Mutant: no fencing, every claim settles as the current one.
SettledRowUnfenced(r, token, want) ==
  IF want = "sent" THEN AcceptedRow(r) ELSE CurrentRow(r, want)

SettledRow(r, token, want) ==
  CASE want = "sent" -> AcceptedRow(r)
    [] want # "sent" /\ CurrentClaim(r, token) -> CurrentRow(r, want)
    [] want # "sent" /\ ~CurrentClaim(r, token) -> StaleRow(r, want)

Settle(k, token, want) ==
  /\ HasRow(k)
  /\ ledger' = [ledger EXCEPT ![k] = SettledRow(@, token, want)]
  /\ UNCHANGED <<open, now>>

-----------------------------------------------------------------------------
(* The operator: reconcile an open row, enrol and revoke the consumer.     *)

Resolve(k, verdict) ==
  /\ verdict \in {"sent", "failed"}
  /\ ledger[k].status \in Open
  /\ ledger' = [ledger EXCEPT ![k] = [@ EXCEPT !.status = verdict, !.settled = now,
                                               !.uncertain = FALSE, !.token = 0]]
  /\ UNCHANGED <<open, now>>

SetOpen(b) == open # b /\ open' = b /\ UNCHANGED <<ledger, now>>

Tick == now < MaxTime /\ now' = now + 1 /\ UNCHANGED <<ledger, open>>

-----------------------------------------------------------------------------
LedgerInit == /\ ledger = [k \in Key |-> NoRow]
              /\ open \in BOOLEAN
              /\ now = 0

LedgerNext ==
  \/ \E k \in Key, p \in Payloads : Reclaim(k, p) \/ Insert(k, p)
  \/ \E k \in Key, t \in 1..MaxClaims, want \in Settled : Settle(k, t, want)
  \/ \E k \in Key, verdict \in {"sent", "failed"} : Resolve(k, verdict)
  \/ \E b \in BOOLEAN : SetOpen(b)
  \/ Tick

LedgerSpec == LedgerInit /\ [][LedgerNext]_ledgerVars

-----------------------------------------------------------------------------
(* Properties that hold whatever the callers do.                           *)

LedgerTypeOK == /\ ledger \in [Key -> Row]
                /\ open \in BOOLEAN
                /\ now \in Nat

(* A row that some claim may have got accepted is never reported as a       *)
(* definite refusal, and every unknown row carries the sticky mark that     *)
(* blocks the next key (reserve's sibling test, settle's v).               *)
StickyUncertainty ==
  \A k \in Key : /\ ledger[k].status \in Refused => ~ledger[k].uncertain
                 /\ ledger[k].status = "unknown" => ledger[k].uncertain

(* All the keys of one logical mail are bound to one payload.              *)
OnePayloadPerMail ==
  \A j, k \in Key : (MailOf(j) = MailOf(k) /\ HasRow(j) /\ HasRow(k))
                      => ledger[j].payload = ledger[k].payload

(* A logical mail never holds more keys than the ledger allows it.         *)
KeysBounded == \A m \in Mails : Cardinality(RowsOf(m)) <= MaxClaims

(* sent is final: no later answer, claim or operator call changes the row. *)
SentIsFinal == [][\A k \in Key : ledger[k].status = "sent" => ledger'[k] = ledger[k]]_ledger

(* A new key of a mail is minted only while every earlier key of it is a    *)
(* refusal without doubt.                                                  *)
NewKeyAfterRefusals ==
  [][\A k \in Key : (~HasRow(k) /\ ledger'[k].status # "none")
        => \A j \in RowsOf(MailOf(k)) : ledger[j].status = "failed" /\ ~ledger[j].uncertain]_ledger
=============================================================================
