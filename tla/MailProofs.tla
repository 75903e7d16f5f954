------------------------------ MODULE MailProofs ------------------------------
(***************************************************************************)
(* What the ledger guarantees for every number of mails, keys, claims and   *)
(* payloads and every caller.  Row by row, a step writes one of four new    *)
(* rows (re-claimed, inserted, settled, resolved); the lemmas say what each *)
(* is, and every invariant is proved from them.                            *)
(*                                                                         *)
(* Then what the mail worker guarantees, for every number of workers too:   *)
(* the ledger's own theorems carry over to it, and the claims, requests and *)
(* acceptances of one key hang together as IInv says.  The steps of Next    *)
(* fall into a few kinds (NextCases); each invariant is proved from the     *)
(* kinds and not from the single actions.                                  *)
(***************************************************************************)
EXTENDS MailSender, FiniteSetTheorems, TLAPS

-----------------------------------------------------------------------------
(* The ledger *)

(* A settled row keeps the row's type, key binding and window.             *)
LEMMA SettledRowType ==
  ASSUME NEW r \in Row, NEW t \in 1..MaxClaims, NEW want \in Settled, now \in Nat
  PROVE  SettledRow(r, t, want) \in Row
<1>1. AcceptedRow(r) \in Row
  BY DEF AcceptedRow, Row, Status, Settled
<1>2. CurrentRow(r, want) \in Row
  BY DEF CurrentRow, Row, Status, Settled, Refused
<1>3. StaleRow(r, want) \in Row
  BY DEF StaleRow, Row, Status, Settled, Refused
<1>4. QED
  BY <1>1, <1>2, <1>3 DEF SettledRow

LEMMA ReclaimedRowType ==
  ASSUME NEW r \in Row, r.attempts < MaxClaims, now \in Nat
  PROVE  ReclaimedRow(r) \in Row
<1> DEFINE doubt == r.uncertain \/ r.status = "reserved"
<1>1. doubt \in BOOLEAN
  OBVIOUS
<1>2. r.attempts + 1 \in 0..MaxClaims
  BY LedgerAssumption DEF Row
<1>3. [r EXCEPT !.status = "reserved", !.attempts = @ + 1, !.last = now,
                !.token = r.attempts + 1, !.uncertain = doubt] \in Row
  <2> HIDE DEF doubt
  <2> QED
    BY <1>1, <1>2 DEF Row, Status
<1>4. QED
  BY <1>3 DEF ReclaimedRow

LEMMA InsertedRowType ==
  ASSUME NEW p \in Payloads, now \in Nat
  PROVE  InsertedRow(p) \in Row
<1>1. NoRow \in Row
  BY LedgerAssumption DEF NoRow, Row, Status, NoTime
<1>2. 1 \in 0..MaxClaims
  BY LedgerAssumption
<1>3. QED
  BY <1>1, <1>2 DEF InsertedRow, Row, Status

LEMMA LedgerTypeStep ==
  ASSUME LedgerTypeOK, [LedgerNext]_ledgerVars
  PROVE  LedgerTypeOK'
<1> USE DEF LedgerTypeOK
<1>1. ASSUME NEW k \in Key, NEW p \in Payloads, Reclaim(k, p)
      PROVE  LedgerTypeOK'
  <2>1. ledger[k] \in Row /\ ledger[k].attempts < MaxClaims
    BY <1>1, LedgerAssumption DEF Reclaim, MayReclaim, PastBounds, Row
  <2>2. ReclaimedRow(ledger[k]) \in Row
    BY <2>1, ReclaimedRowType
  <2>3. QED
    BY <1>1, <2>2 DEF Reclaim
<1>2. ASSUME NEW k \in Key, NEW p \in Payloads, Insert(k, p)
      PROVE  LedgerTypeOK'
  BY <1>2, InsertedRowType DEF Insert
<1>3. ASSUME NEW k \in Key, NEW t \in 1..MaxClaims, NEW want \in Settled,
             Settle(k, t, want)
      PROVE  LedgerTypeOK'
  BY <1>3, SettledRowType DEF Settle
<1>4. ASSUME NEW k \in Key, NEW v \in {"sent", "failed"}, Resolve(k, v)
      PROVE  LedgerTypeOK'
  <2>0. 0 \in 0..MaxClaims /\ v \in Status
    BY LedgerAssumption DEF Status, Settled
  <2>1. [ledger[k] EXCEPT !.status = v, !.settled = now,
                          !.uncertain = FALSE, !.token = 0] \in Row
    BY <2>0 DEF Row
  <2>2. QED
    BY <1>4, <2>1 DEF Resolve
<1>5. ASSUME NEW b \in BOOLEAN, SetOpen(b)
      PROVE  LedgerTypeOK'
  BY <1>5 DEF SetOpen
<1>6. CASE Tick
  BY <1>6 DEF Tick
<1>7. CASE UNCHANGED ledgerVars
  BY <1>7 DEF ledgerVars
<1>8. QED
  BY <1>1, <1>2, <1>3, <1>4, <1>5, <1>6, <1>7 DEF LedgerNext

(* The table stays a table of well-formed rows: in particular no row is     *)
(* ever claimed more often than max_claims allows.                         *)
THEOREM LedgerTypeCorrect == LedgerSpec => []LedgerTypeOK
<1>1. LedgerInit => LedgerTypeOK
  BY LedgerAssumption DEF LedgerInit, LedgerTypeOK, NoRow, Row, Status, NoTime
<1>2. LedgerTypeOK /\ [LedgerNext]_ledgerVars => LedgerTypeOK'
  BY LedgerTypeStep
<1>3. QED
  BY <1>1, <1>2, PTL DEF LedgerSpec

-----------------------------------------------------------------------------
(* The mark on one row: refused means certain, unknown means uncertain.    *)
Sticky(r) == /\ r.status \in Refused => ~r.uncertain
             /\ r.status = "unknown" => r.uncertain

LEMMA SettledRowSticky ==
  ASSUME NEW r \in Row, NEW t \in 1..MaxClaims, NEW want \in Settled, Sticky(r)
  PROVE  Sticky(SettledRow(r, t, want))
<1>1. Sticky(AcceptedRow(r))
  BY DEF AcceptedRow, Sticky, Row, Refused
<1>2. ASSUME want # "sent", CurrentClaim(r, t)
      PROVE  Sticky(CurrentRow(r, want))
  BY <1>2 DEF CurrentRow, CurrentClaim, Sticky, Row, Refused, Settled
<1>3. Sticky(StaleRow(r, want))
  BY DEF StaleRow, Sticky, Row, Refused
<1>4. QED
  BY <1>1, <1>2, <1>3 DEF SettledRow

(* Whatever the callers do, a mail that may have been accepted is never     *)
(* recorded as a definite refusal, and unknown always carries the mark     *)
(* that blocks the next key.                                               *)
THEOREM StickyUncertaintyHolds == LedgerSpec => []StickyUncertainty
<1>1. LedgerInit => StickyUncertainty
  BY DEF LedgerInit, StickyUncertainty, NoRow, Refused
<1>2. LedgerTypeOK /\ StickyUncertainty /\ [LedgerNext]_ledgerVars => StickyUncertainty'
  <2> SUFFICES ASSUME LedgerTypeOK, \A k \in Key : Sticky(ledger[k]),
                      [LedgerNext]_ledgerVars, NEW j \in Key
               PROVE  Sticky(ledger'[j])
    BY DEF StickyUncertainty, Sticky
  <2> USE DEF LedgerTypeOK
  <2>1. ASSUME NEW k \in Key, NEW p \in Payloads, Reclaim(k, p)
        PROVE  Sticky(ledger'[j])
    BY <2>1 DEF Reclaim, ReclaimedRow, Row, Sticky, Refused
  <2>2. ASSUME NEW k \in Key, NEW p \in Payloads, Insert(k, p)
        PROVE  Sticky(ledger'[j])
    BY <2>2 DEF Insert, InsertedRow, NoRow, Sticky, Refused
  <2>3. ASSUME NEW k \in Key, NEW t \in 1..MaxClaims, NEW want \in Settled,
               Settle(k, t, want)
        PROVE  Sticky(ledger'[j])
    BY <2>3, SettledRowSticky DEF Settle
  <2>4. ASSUME NEW k \in Key, NEW v \in {"sent", "failed"}, Resolve(k, v)
        PROVE  Sticky(ledger'[j])
    BY <2>4 DEF Resolve, Row, Sticky, Refused
  <2>5. CASE UNCHANGED ledger
    BY <2>5
  <2>6. QED
    BY <2>1, <2>2, <2>3, <2>4, <2>5 DEF LedgerNext, ledgerVars, SetOpen, Tick
<1>3. QED
  BY <1>1, <1>2, LedgerTypeCorrect, PTL DEF LedgerSpec

-----------------------------------------------------------------------------
(* What a fresh key's reserve call has established when it inserts.        *)
LEMMA InsertGuard ==
  ASSUME NEW k \in Key, NEW p \in Payloads, MayInsert(k, p)
  PROVE  /\ ~HasRow(k)
         /\ ~Mismatched(MailOf(k), p)
         /\ ~Sibling(MailOf(k), {"sent"})
         /\ ~Unresolved(MailOf(k))
         /\ ~Sibling(MailOf(k), {"released"})
         /\ ~KeysUsedUp(MailOf(k))
<1>1. ~HasRow(k) /\ \A a \in Answers : ~NewKeyDecides(k, p, a)
  BY DEF MayInsert, MayClaim, Undecided, Decides
<1>2. ~Mismatched(MailOf(k), p)
  BY <1>1 DEF NewKeyDecides, Answers
<1>3. ~Sibling(MailOf(k), {"sent"})
  BY <1>1, <1>2 DEF NewKeyDecides, Answers
<1>4. ~Unresolved(MailOf(k))
  BY <1>1, <1>2, <1>3 DEF NewKeyDecides, Answers
<1>5. ~Sibling(MailOf(k), {"released"}) /\ ~KeysUsedUp(MailOf(k))
  BY <1>1, <1>2, <1>3, <1>4 DEF NewKeyDecides, Answers
<1>6. QED
  BY <1>1, <1>2, <1>3, <1>4, <1>5

LEMMA SettledRowBinding ==
  ASSUME NEW r \in Row, NEW t \in 1..MaxClaims, NEW want \in Settled, r.status # "none"
  PROVE  /\ SettledRow(r, t, want).payload = r.payload
         /\ SettledRow(r, t, want).status # "none"
         /\ r.status = "sent" => SettledRow(r, t, want) = r
<1>1. AcceptedRow(r).payload = r.payload /\ AcceptedRow(r).status # "none"
      /\ (r.status = "sent" => AcceptedRow(r) = r)
  BY DEF AcceptedRow, Row
<1>2. ASSUME CurrentClaim(r, t)
      PROVE  CurrentRow(r, want).payload = r.payload /\ CurrentRow(r, want).status # "none"
             /\ r.status # "sent"
  BY <1>2 DEF CurrentRow, CurrentClaim, Row, Settled
<1>3. StaleRow(r, want).payload = r.payload /\ StaleRow(r, want).status # "none"
      /\ (r.status = "sent" => StaleRow(r, want) = r)
  BY DEF StaleRow, Row
<1>4. QED
  BY <1>1, <1>2, <1>3 DEF SettledRow

(* Settling moves neither the window nor the claim count of the row.        *)
LEMMA SettledRowWindow ==
  ASSUME NEW r \in Row, NEW t \in 1..MaxClaims, NEW want \in Settled
  PROVE  LET s == SettledRow(r, t, want) IN
         s.first = r.first /\ s.last = r.last /\ s.attempts = r.attempts
<1>1. AcceptedRow(r).first = r.first /\ AcceptedRow(r).last = r.last
      /\ AcceptedRow(r).attempts = r.attempts
  BY DEF AcceptedRow, Row
<1>2. CurrentRow(r, want).first = r.first /\ CurrentRow(r, want).last = r.last
      /\ CurrentRow(r, want).attempts = r.attempts
  BY DEF CurrentRow, Row
<1>3. StaleRow(r, want).first = r.first /\ StaleRow(r, want).last = r.last
      /\ StaleRow(r, want).attempts = r.attempts
  BY DEF StaleRow, Row
<1>4. QED
  BY <1>1, <1>2, <1>3 DEF SettledRow

(* Only an acceptance settles a row as sent, and only a refusal by the claim *)
(* that alone can speak for the row settles it as refused.                 *)
LEMMA SettledRowVerdict ==
  ASSUME NEW r \in Row, NEW t \in 1..MaxClaims, NEW want \in Settled
  PROVE  LET s == SettledRow(r, t, want) IN
         /\ s.status = "sent" => r.status = "sent" \/ want = "sent"
         /\ s.status \in Refused => \/ r.status \in Refused
                                   \/ /\ r.status = "reserved" /\ ~r.uncertain
                                      /\ want \in Refused
<1>1. AcceptedRow(r).status = "sent"
  BY DEF AcceptedRow, Row
<1>2. /\ CurrentRow(r, want).status = "sent" => want = "sent"
      /\ CurrentRow(r, want).status \in Refused => ~r.uncertain /\ want \in Refused
  BY DEF CurrentRow, Row, Refused, Settled
<1>3. /\ StaleRow(r, want).status = "sent" => r.status = "sent"
      /\ StaleRow(r, want).status \in Refused => r.status \in Refused
  BY DEF StaleRow, Row, Refused
<1>4. QED
  BY <1>1, <1>2, <1>3 DEF SettledRow, CurrentClaim, Refused

(* A step that is not an insertion neither adds a row nor rebinds one, and  *)
(* leaves the sent rows alone.                                             *)
LEMMA RowsKept ==
  ASSUME LedgerTypeOK, [LedgerNext]_ledgerVars,
         ~ \E k \in Key, p \in Payloads : Insert(k, p), NEW j \in Key
  PROVE  /\ HasRow(j)' <=> HasRow(j)
         /\ ledger'[j].payload = ledger[j].payload
         /\ ledger[j].status = "sent" => ledger'[j] = ledger[j]
<1> USE DEF LedgerTypeOK, HasRow
<1>1. ASSUME NEW k \in Key, NEW p \in Payloads, Reclaim(k, p)
      PROVE  /\ ledger'[j].status # "none" <=> ledger[j].status # "none"
             /\ ledger'[j].payload = ledger[j].payload
             /\ ledger[j].status = "sent" => ledger'[j] = ledger[j]
  <2>1. ledger[k].status # "none" /\ ledger[k].status # "sent"
    BY <1>1 DEF Reclaim, MayReclaim, MayClaim, Undecided, Decides, KnownKeyDecides, Answers
  <2>2. QED
    BY <1>1, <2>1 DEF Reclaim, ReclaimedRow, Row
<1>2. ASSUME NEW k \in Key, NEW t \in 1..MaxClaims, NEW want \in Settled, Settle(k, t, want)
      PROVE  /\ ledger'[j].status # "none" <=> ledger[j].status # "none"
             /\ ledger'[j].payload = ledger[j].payload
             /\ ledger[j].status = "sent" => ledger'[j] = ledger[j]
  BY <1>2, SettledRowBinding DEF Settle
<1>3. ASSUME NEW k \in Key, NEW v \in {"sent", "failed"}, Resolve(k, v)
      PROVE  /\ ledger'[j].status # "none" <=> ledger[j].status # "none"
             /\ ledger'[j].payload = ledger[j].payload
             /\ ledger[j].status = "sent" => ledger'[j] = ledger[j]
  BY <1>3 DEF Resolve, Row, Open
<1>4. CASE UNCHANGED ledger
  BY <1>4
<1>5. QED
  BY <1>1, <1>2, <1>3, <1>4 DEF LedgerNext, ledgerVars, SetOpen, Tick

LEMMA SentStays ==
  ASSUME LedgerTypeOK, [LedgerNext]_ledgerVars, NEW j \in Key, ledger[j].status = "sent"
  PROVE  ledger'[j] = ledger[j]
<1>1. ASSUME NEW k \in Key, NEW p \in Payloads, Insert(k, p)
      PROVE  ledger'[j] = ledger[j]
  BY <1>1 DEF Insert, MayInsert, HasRow, LedgerTypeOK
<1>2. QED
  BY <1>1, RowsKept

(* Once the ledger says sent, no answer, claim or operator call changes it. *)
THEOREM SentIsFinalHolds == LedgerSpec => SentIsFinal
<1>1. LedgerTypeOK /\ [LedgerNext]_ledgerVars
        => [\A k \in Key : ledger[k].status = "sent" => ledger'[k] = ledger[k]]_ledger
  BY SentStays
<1>2. QED
  BY <1>1, LedgerTypeCorrect, PTL DEF LedgerSpec, SentIsFinal

LEMMA NewKeyStep ==
  ASSUME LedgerTypeOK, [LedgerNext]_ledgerVars, NEW i \in Key,
         ~HasRow(i), HasRow(i)', NEW j \in RowsOf(MailOf(i))
  PROVE  ledger[j].status = "failed" /\ ~ledger[j].uncertain
<1>1. PICK k \in Key, p \in Payloads : Insert(k, p)
  BY RowsKept DEF HasRow
<1>2. k = i
  BY <1>1 DEF Insert, HasRow, LedgerTypeOK
<1>3. MayInsert(i, p)
  BY <1>1, <1>2 DEF Insert
<1>4. /\ ~Sibling(MailOf(i), {"sent"}) /\ ~Sibling(MailOf(i), {"released"})
      /\ ~Unresolved(MailOf(i))
  BY <1>3, InsertGuard
<1>5. j \in Key /\ ledger[j].status \in Status \ {"none"}
  BY DEF RowsOf, HasRow, LedgerTypeOK, Row
<1>6. QED
  BY <1>4, <1>5 DEF Sibling, Unresolved, Status, Settled, Open

(* A new key of a mail is minted only while every earlier key of it is a    *)
(* refusal without doubt.                                                  *)
THEOREM NewKeyAfterRefusalsHolds == LedgerSpec => NewKeyAfterRefusals
<1>1. LedgerTypeOK /\ [LedgerNext]_ledgerVars =>
        [\A k \in Key : (~HasRow(k) /\ ledger'[k].status # "none")
           => \A j \in RowsOf(MailOf(k)) : ledger[j].status = "failed" /\ ~ledger[j].uncertain]_ledger
  BY NewKeyStep DEF HasRow
<1>2. QED
  BY <1>1, LedgerTypeCorrect, PTL DEF LedgerSpec, NewKeyAfterRefusals

(* All the keys of one mail are bound to one payload, so whichever of them  *)
(* the provider accepts, it accepts the same mail.                         *)
THEOREM OnePayloadHolds == LedgerSpec => []OnePayloadPerMail
<1>1. LedgerInit => OnePayloadPerMail
  BY DEF LedgerInit, OnePayloadPerMail, HasRow, NoRow
<1>2. LedgerTypeOK /\ OnePayloadPerMail /\ [LedgerNext]_ledgerVars => OnePayloadPerMail'
  <2> SUFFICES ASSUME LedgerTypeOK, OnePayloadPerMail, [LedgerNext]_ledgerVars,
                      NEW i \in Key, NEW j \in Key, MailOf(i) = MailOf(j),
                      HasRow(i)', HasRow(j)'
               PROVE  ledger'[i].payload = ledger'[j].payload
    BY DEF OnePayloadPerMail
  <2>1. ASSUME NEW k \in Key, NEW p \in Payloads, Insert(k, p)
        PROVE  ledger'[i].payload = ledger'[j].payload
    <3>1. ledger' = [ledger EXCEPT ![k] = InsertedRow(p)] /\ InsertedRow(p).payload = p
      BY <2>1 DEF Insert, InsertedRow, NoRow
    <3>2. \A q \in RowsOf(MailOf(k)) : ledger[q].payload = p
      BY <2>1, InsertGuard DEF Insert, Mismatched
    <3>3. \A q \in Key : (MailOf(q) = MailOf(k) /\ HasRow(q)') => ledger'[q].payload = p
      BY <3>1, <3>2 DEF RowsOf, HasRow, LedgerTypeOK
    <3>4. CASE MailOf(i) = MailOf(k)
      BY <3>3, <3>4
    <3>5. CASE MailOf(i) # MailOf(k)
      BY <3>1, <3>5 DEF OnePayloadPerMail, HasRow, LedgerTypeOK
    <3>6. QED
      BY <3>4, <3>5
  <2>2. CASE ~ \E k \in Key, p \in Payloads : Insert(k, p)
    BY <2>2, RowsKept DEF OnePayloadPerMail
  <2>3. QED
    BY <2>1, <2>2
<1>3. QED
  BY <1>1, <1>2, LedgerTypeCorrect, PTL DEF LedgerSpec

(* A row is never deleted, rebound or given a new window, and its claims    *)
(* are only ever added to.                                                 *)
LEMMA RowsGrow ==
  ASSUME LedgerTypeOK, [LedgerNext]_ledgerVars, NEW j \in Key, HasRow(j)
  PROVE  /\ HasRow(j)' /\ ledger'[j].payload = ledger[j].payload
         /\ ledger'[j].first = ledger[j].first /\ ledger'[j].attempts >= ledger[j].attempts
<1> USE DEF LedgerTypeOK
<1> DEFINE Grows == /\ HasRow(j)' /\ ledger'[j].payload = ledger[j].payload
                    /\ ledger'[j].first = ledger[j].first
                    /\ ledger'[j].attempts >= ledger[j].attempts
<1>1. ASSUME NEW k \in Key, NEW p \in Payloads, Reclaim(k, p)
      PROVE  Grows
  BY <1>1, LedgerAssumption DEF Reclaim, ReclaimedRow, Row, HasRow
<1>2. ASSUME NEW k \in Key, NEW p \in Payloads, Insert(k, p)
      PROVE  Grows
  <2>1. k # j
    BY <1>2 DEF Insert, MayInsert
  <2>2. QED
    BY <1>2, <2>1, LedgerAssumption DEF Insert, Row, HasRow
<1>3. ASSUME NEW k \in Key, NEW t \in 1..MaxClaims, NEW want \in Settled, Settle(k, t, want)
      PROVE  Grows
  BY <1>3, SettledRowBinding, SettledRowWindow, LedgerAssumption DEF Settle, Row, HasRow
<1>4. ASSUME NEW k \in Key, NEW v \in {"sent", "failed"}, Resolve(k, v)
      PROVE  Grows
  BY <1>4, LedgerAssumption DEF Resolve, Row, Open, HasRow
<1>5. CASE UNCHANGED ledger
  BY <1>5, LedgerAssumption DEF Row, HasRow
<1>6. QED
  BY <1>1, <1>2, <1>3, <1>4, <1>5 DEF LedgerNext, ledgerVars, SetOpen, Tick

(* A step writes at most one row.                                          *)
LEMMA OneRowPerStep ==
  ASSUME LedgerTypeOK, [LedgerNext]_ledgerVars
  PROVE  UNCHANGED ledger \/ \E k \in Key : \A j \in Key \ {k} : ledger'[j] = ledger[j]
<1> USE DEF LedgerTypeOK
<1>1. ASSUME NEW k \in Key, NEW p \in Payloads, Reclaim(k, p) \/ Insert(k, p)
      PROVE  \A j \in Key \ {k} : ledger'[j] = ledger[j]
  BY <1>1 DEF Reclaim, Insert
<1>2. ASSUME NEW k \in Key, NEW t \in 1..MaxClaims, NEW want \in Settled, Settle(k, t, want)
      PROVE  \A j \in Key \ {k} : ledger'[j] = ledger[j]
  BY <1>2 DEF Settle
<1>3. ASSUME NEW k \in Key, NEW v \in {"sent", "failed"}, Resolve(k, v)
      PROVE  \A j \in Key \ {k} : ledger'[j] = ledger[j]
  BY <1>3 DEF Resolve
<1>4. QED
  BY <1>1, <1>2, <1>3 DEF LedgerNext, ledgerVars, SetOpen, Tick

(* A reserved row without the mark is in the hands of the claim that        *)
(* inserted it: nobody claimed it again, so nobody else can speak for it.  *)
Certain(k) == ledger[k].status = "reserved" /\ ~ledger[k].uncertain
CertainIsFirst == \A k \in Key : Certain(k) => ledger[k].attempts = 1

LEMMA SettledRowCertain ==
  ASSUME NEW r \in Row, NEW t \in 1..MaxClaims, NEW want \in Settled,
         SettledRow(r, t, want).status = "reserved", ~SettledRow(r, t, want).uncertain
  PROVE  SettledRow(r, t, want) = r
<1>1. AcceptedRow(r).status # "reserved"
  BY DEF AcceptedRow, Row
<1>2. CurrentRow(r, want).status # "reserved"
  BY DEF CurrentRow, Row, Settled
<1>3. StaleRow(r, want) = r \/ StaleRow(r, want).uncertain
  BY DEF StaleRow, Row
<1>4. QED
  BY <1>1, <1>2, <1>3 DEF SettledRow

(* Such a row is just inserted or has not changed.                         *)
LEMMA CertainWas ==
  ASSUME LedgerTypeOK, StickyUncertainty, [LedgerNext]_ledgerVars,
         NEW j \in Key, HasRow(j), Certain(j)'
  PROVE  ledger'[j] = ledger[j]
<1> USE DEF LedgerTypeOK, Certain
<1>1. ASSUME NEW k \in Key, NEW p \in Payloads, Reclaim(k, p)
      PROVE  ledger'[j] = ledger[j]
  <2>1. ledger[k].status \in Open
    BY <1>1 DEF Reclaim, MayReclaim, MayClaim, Undecided, Decides, KnownKeyDecides, Answers,
                HasRow, Row, Status, Settled, Open, Refused
  <2>2. ledger'[k].uncertain
    BY <1>1, <2>1 DEF Reclaim, ReclaimedRow, Row, Open, StickyUncertainty
  <2>3. QED
    BY <1>1, <2>2 DEF Reclaim
<1>2. ASSUME NEW k \in Key, NEW p \in Payloads, Insert(k, p)
      PROVE  ledger'[j] = ledger[j]
  BY <1>2 DEF Insert, MayInsert
<1>3. ASSUME NEW k \in Key, NEW t \in 1..MaxClaims, NEW want \in Settled, Settle(k, t, want)
      PROVE  ledger'[j] = ledger[j]
  BY <1>3, SettledRowCertain DEF Settle
<1>4. ASSUME NEW k \in Key, NEW v \in {"sent", "failed"}, Resolve(k, v)
      PROVE  ledger'[j] = ledger[j]
  BY <1>4 DEF Resolve, Row
<1>5. CASE UNCHANGED ledger
  BY <1>5
<1>6. QED
  BY <1>1, <1>2, <1>3, <1>4, <1>5 DEF LedgerNext, ledgerVars, SetOpen, Tick

LEMMA CertainIsFirstHolds == LedgerSpec => []CertainIsFirst
<1>1. LedgerInit => CertainIsFirst
  BY DEF LedgerInit, CertainIsFirst, Certain, NoRow
<1>2. LedgerTypeOK /\ StickyUncertainty /\ CertainIsFirst /\ [LedgerNext]_ledgerVars
        => CertainIsFirst'
  <2> SUFFICES ASSUME LedgerTypeOK, StickyUncertainty, CertainIsFirst, [LedgerNext]_ledgerVars,
                      NEW j \in Key, Certain(j)'
               PROVE  ledger'[j].attempts = 1
    BY DEF CertainIsFirst
  <2>1. CASE HasRow(j)
    BY <2>1, CertainWas DEF CertainIsFirst, Certain
  <2>2. CASE ~HasRow(j)
    <3>1. PICK k \in Key, p \in Payloads : Insert(k, p)
      BY <2>2, RowsKept DEF HasRow, Certain
    <3>2. QED
      BY <2>2, <3>1 DEF Insert, InsertedRow, NoRow, Certain, HasRow, LedgerTypeOK
  <2>3. QED
    BY <2>1, <2>2
<1>3. QED
  BY <1>1, <1>2, LedgerTypeCorrect, StickyUncertaintyHolds, PTL DEF LedgerSpec

-----------------------------------------------------------------------------
LEMMA RowsOfFinite ==
  ASSUME NEW m \in Mails
  PROVE  IsFiniteSet(RowsOf(m)) /\ Cardinality(RowsOf(m)) \in Nat
<1> DEFINE mine == {k \in Key : MailOf(k) = m}
<1> DEFINE nth  == [i \in 1..MaxAttempts |-> <<m, i>>]
<1>1. IsFiniteSet(1..MaxAttempts)
  BY LedgerAssumption, FS_Interval
<1>2. nth \in Surjection(1..MaxAttempts, mine)
  BY DEF Surjection, Key, MailOf
<1>3. IsFiniteSet(mine)
  BY <1>1, <1>2, FS_Surjection
<1>4. RowsOf(m) \subseteq mine
  BY DEF RowsOf
<1>5. QED
  BY <1>3, <1>4, FS_Subset, FS_CardinalityType

(* A logical mail never holds more keys than the ledger's max_claims,       *)
(* however many keys its callers derive.                                   *)
THEOREM KeysBoundedHolds == LedgerSpec => []KeysBounded
<1>1. LedgerInit => KeysBounded
  <2> SUFFICES ASSUME LedgerInit, NEW m \in Mails
               PROVE  Cardinality(RowsOf(m)) <= MaxClaims
    BY DEF KeysBounded
  <2>1. RowsOf(m) = {}
    BY DEF LedgerInit, RowsOf, HasRow, NoRow
  <2>2. QED
    BY <2>1, FS_EmptySet, LedgerAssumption
<1>2. LedgerTypeOK /\ KeysBounded /\ [LedgerNext]_ledgerVars => KeysBounded'
  <2> SUFFICES ASSUME LedgerTypeOK, KeysBounded, [LedgerNext]_ledgerVars, NEW m \in Mails
               PROVE  Cardinality(RowsOf(m)') <= MaxClaims
    BY DEF KeysBounded
  <2>1. ASSUME NEW k \in Key, NEW p \in Payloads, Insert(k, p)
        PROVE  Cardinality(RowsOf(m)') <= MaxClaims
    <3>1. ledger' = [ledger EXCEPT ![k] = InsertedRow(p)] /\ ~HasRow(k)
          /\ InsertedRow(p).status = "reserved"
      BY <2>1, InsertGuard DEF Insert, InsertedRow, NoRow
    <3>2. CASE MailOf(k) # m
      <4>1. RowsOf(m)' = RowsOf(m)
        BY <3>1, <3>2 DEF RowsOf, HasRow, LedgerTypeOK
      <4>2. QED
        BY <4>1 DEF KeysBounded
    <3>3. CASE MailOf(k) = m
      <4>1. RowsOf(m)' = RowsOf(m) \cup {k} /\ k \notin RowsOf(m)
        BY <3>1, <3>3 DEF RowsOf, HasRow, LedgerTypeOK
      <4>2. ~(Cardinality(RowsOf(m)) >= MaxClaims)
        BY <2>1, <3>3, InsertGuard DEF Insert, KeysUsedUp
      <4>3. Cardinality(RowsOf(m)') = Cardinality(RowsOf(m)) + 1
        BY <4>1, RowsOfFinite, FS_AddElement
      <4>4. QED
        BY <4>2, <4>3, RowsOfFinite, LedgerAssumption
    <3>4. QED
      BY <3>2, <3>3
  <2>2. CASE ~ \E k \in Key, p \in Payloads : Insert(k, p)
    <3>1. RowsOf(m)' = RowsOf(m)
      BY <2>2, RowsKept DEF RowsOf
    <3>2. QED
      BY <3>1 DEF KeysBounded
  <2>3. QED
    BY <2>1, <2>2
<1>3. QED
  BY <1>1, <1>2, LedgerTypeCorrect, PTL DEF LedgerSpec

-----------------------------------------------------------------------------
(* The workers *)

(* A worker record holds a claim from the reserve call that wrote it until  *)
(* it settled.  Its doubt and its result are about this claim alone: they   *)
(* are blank when it starts, and in doubt the last result is unknown.      *)
Holds(c)  == c.pc \in {"answer", "call", "wait", "settle"}
Bound(c)  == /\ c.pc # "idle" => c.mail \in Mails /\ c.payload \in Payloads
             /\ Holds(c) => c.token # 0
             /\ c.pc \in {"idle", "reserve", "answer"} => ~c.doubt /\ c.result = "none"
             /\ c.pc \in {"call", "wait"} => c.result = (IF c.doubt THEN "unknown" ELSE "none")
Proper(c) == c \in Worker /\ Bound(c)

ProperWorkers == \A w \in Workers : Bound(worker[w])
TypeInv == TypeOK /\ ProperWorkers

(* The worker record c is what the step makes of worker w.                 *)
Becomes(w, c) == worker' = [worker EXCEPT ![w] = c]

LEMMA BecomesTyped ==
  ASSUME worker \in [Workers -> Worker], ProperWorkers,
         NEW w \in Workers, NEW c, Proper(c), Becomes(w, c)
  PROVE  /\ worker' \in [Workers -> Worker]
         /\ ProperWorkers'
         /\ worker'[w] = c
         /\ \A v \in Workers \ {w} : worker'[v] = worker[v]
BY DEF Becomes, Proper, ProperWorkers

LEMMA ProperIdle ==
  ASSUME NEW o \in Outcomes
  PROVE  Proper([Idle EXCEPT !.out = o]) /\ Proper(Idle)
<1>1. 1 \in 1..MaxAttempts /\ 0 \in 0..MaxClaims /\ 0 \in 0..SameKeyTries
  BY LedgerAssumption, SenderAssumption
<1>2. Idle \in Worker
  BY <1>1 DEF Idle, Worker, PC, Results, Outcomes
<1>3. QED
  BY <1>2 DEF Proper, Bound, Holds, Idle, Worker

LEMMA ProperFresh ==
  ASSUME NEW m \in Mails, NEW p \in Payloads, NEW a \in 1..MaxAttempts
  PROVE  Proper(Fresh(m, p)) /\ Proper([Fresh(m, p) EXCEPT !.att = a])
<1>1. Idle \in Worker
  BY ProperIdle DEF Proper, Outcomes
<1>2. QED
  BY <1>1 DEF Proper, Bound, Holds, Fresh, Idle, Worker, PC

LEMMA KeyOfType ==
  ASSUME TypeInv, NEW w \in Workers, worker[w].pc # "idle"
  PROVE  KeyOf(w) \in Key
BY DEF TypeInv, TypeOK, ProperWorkers, Bound, KeyOf, Key, Worker

LEMMA WantType ==
  ASSUME TypeInv, NEW w \in Workers
  PROVE  Want(w) \in Settled
<1>1. worker[w].result \in Results
  BY DEF TypeInv, TypeOK, Worker
<1>2. \A x \in Results : OutcomeOf(x) \in Settled
  BY DEF Results, OutcomeOf, Settled
<1>3. QED
  BY <1>1, <1>2 DEF Want, Settled

-----------------------------------------------------------------------------
(* The kinds of step.                                                      *)

\* The run gives its claim up, or has none and takes none.
Leaves(w) == \E c : Proper(c) /\ ~Holds(c) /\ Becomes(w, c)
Drops(w)  == Leaves(w) /\ UNCHANGED <<ledgerVars, wire, providerVars>>

\* The run goes on under its claim, and only its own record changes.
SameClaim(c, d) == /\ Holds(c) /\ Holds(d)
                   /\ c.mail = d.mail /\ c.att = d.att
                   /\ c.token = d.token /\ c.payload = d.payload
Advances(w) == /\ TakeAnswer(w) \/ StopCalling(w) \/ UnknownAnswer(w)
               /\ \E c : Proper(c) /\ SameClaim(c, worker[w]) /\ Becomes(w, c)

LEMMA FinishLeaves ==
  ASSUME NEW w \in Workers, NEW o \in Outcomes, Finish(w, o)
  PROVE  Leaves(w)
<1>1. Proper([Idle EXCEPT !.out = o]) /\ ~Holds([Idle EXCEPT !.out = o])
  BY ProperIdle DEF Holds, Idle
<1>2. QED
  BY <1>1 DEF Finish, Leaves, Becomes

LEMMA NextKeyLeaves ==
  ASSUME TypeInv, NEW w \in Workers, worker[w].pc # "idle", NextKey(w)
  PROVE  Leaves(w)
<1> DEFINE d == worker[w]
           c == [Fresh(d.mail, d.payload) EXCEPT !.att = d.att + 1]
<1>1. worker \in [Workers -> Worker] /\ d \in Worker /\ d.mail \in Mails /\ d.payload \in Payloads
  BY DEF TypeInv, TypeOK, ProperWorkers, Bound
<1>2. CASE d.att < MaxAttempts
  <2>1. d.att + 1 \in 1..MaxAttempts
    BY <1>1, <1>2, LedgerAssumption DEF Worker
  <2>2. Proper(c)
    BY <1>1, <2>1, ProperFresh
  <2>3. ~Holds(c)
    BY DEF Holds, Fresh, Idle
  <2>4. worker' = [worker EXCEPT ![w] = c]
    BY <1>1, <1>2 DEF NextKey
  <2>5. QED
    BY <2>2, <2>3, <2>4 DEF Leaves, Becomes
<1>3. CASE ~(d.att < MaxAttempts)
  BY <1>3, FinishLeaves DEF NextKey, Outcomes, Documented
<1>4. QED
  BY <1>2, <1>3

(* The steps that touch no claim and nothing outside the worker.           *)
LEMMA DropKinds ==
  ASSUME TypeInv, NEW w \in Workers,
         \/ \E m \in Mails, p \in Payloads : Start(w, m, p)
         \/ Defer(w) \/ ReserveDeclines(w) \/ RpcTimesOut(w) \/ Crash(w)
  PROVE  Drops(w)
<1>1. worker \in [Workers -> Worker] /\ "halted" \in Outcomes /\ "conflicted" \in Outcomes
      /\ {"sent", "in_flight", "unresolved", "released"} \subseteq Outcomes
  BY DEF TypeInv, TypeOK, Outcomes, Documented
<1>2. ASSUME NEW m \in Mails, NEW p \in Payloads, Start(w, m, p)
      PROVE  Drops(w)
  <2>0. 1 \in 1..MaxAttempts
    BY LedgerAssumption
  <2>1. Proper(Fresh(m, p)) /\ ~Holds(Fresh(m, p))
    BY <2>0, ProperFresh DEF Holds, Fresh, Idle
  <2>2. QED
    BY <1>2, <2>1 DEF Start, Drops, Leaves, Becomes
<1>3. CASE Defer(w)
  BY <1>1, <1>3, FinishLeaves DEF Defer, Drops
<1>4. CASE ReserveDeclines(w)
  <2>1. Leaves(w)
    BY <1>1, <1>4, FinishLeaves, NextKeyLeaves DEF ReserveDeclines
  <2>2. QED
    BY <1>4, <2>1 DEF ReserveDeclines, Drops
<1>5. CASE RpcTimesOut(w) \/ Crash(w)
  <2>1. Proper(Idle) /\ ~Holds(Idle)
    BY <1>1, ProperIdle DEF Holds, Idle
  <2>2. QED
    BY <1>5, <2>1 DEF RpcTimesOut, Crash, Drops, Leaves, Becomes
<1>6. QED
  BY <1>2, <1>3, <1>4, <1>5

LEMMA AdvanceKinds ==
  ASSUME TypeInv, NEW w \in Workers,
         TakeAnswer(w) \/ StopCalling(w) \/ UnknownAnswer(w)
  PROVE  Advances(w)
<1> DEFINE d == worker[w]
<1>1. worker \in [Workers -> Worker] /\ Proper(d) /\ now \in Nat /\ Margin \in Nat
  BY SenderAssumption DEF TypeInv, TypeOK, LedgerTypeOK, ProperWorkers, Proper
<1>2. CASE TakeAnswer(w)
  <2> DEFINE c == [d EXCEPT !.pc = "call", !.left = 0, !.since = 0,
                            !.deadline = now + d.left - Margin]
  <2>1. worker' = [worker EXCEPT ![w] = c] /\ d.pc = "answer"
    BY <1>1, <1>2 DEF TakeAnswer
  <2>2. c \in Worker
    <3>1. d \in Worker /\ d.left \in Nat /\ now + d.left - Margin \in Int
      BY <1>1 DEF Proper, Worker
    <3>2. QED
      BY <3>1 DEF Worker, PC
  <2>3. Proper(c) /\ SameClaim(c, d)
    BY <1>1, <2>1, <2>2 DEF Proper, Bound, Holds, SameClaim, Worker
  <2>4. QED
    BY <1>2, <2>1, <2>3 DEF Advances, Becomes
<1>3. CASE StopCalling(w)
  <2> DEFINE c == [d EXCEPT !.pc = "settle"]
  <2>1. worker' = [worker EXCEPT ![w] = c] /\ d.pc = "call"
    BY <1>1, <1>3 DEF StopCalling
  <2>2. Proper(c) /\ SameClaim(c, d)
    BY <1>1, <2>1 DEF Proper, Bound, Holds, SameClaim, Worker, PC
  <2>3. QED
    BY <1>3, <2>1, <2>2 DEF Advances, Becomes
<1>4. CASE UnknownAnswer(w)
  <2> DEFINE c == [d EXCEPT !.pc = "call", !.doubt = TRUE, !.result = "unknown"]
  <2>1. worker' = [worker EXCEPT ![w] = c] /\ d.pc = "wait"
    BY <1>1, <1>4 DEF UnknownAnswer
  <2>2. Proper(c) /\ SameClaim(c, d)
    BY <1>1, <2>1 DEF Proper, Bound, Holds, SameClaim, Worker, PC, Results
  <2>3. QED
    BY <1>4, <2>1, <2>2 DEF Advances, Becomes
<1>5. QED
  BY <1>2, <1>3, <1>4

(* A reserve call that claims row r of key k: the row is inserted, or it is  *)
(* open and bound to this payload, and is claimed once more under a new     *)
(* token within the window it had.                                         *)
ClaimedAs(k, p, r, s) ==
  /\ s \in Row /\ s.status = "reserved" /\ s.payload = p /\ s.last = now
  /\ s.token = s.attempts /\ s.attempts \in 1..MaxClaims
  /\ \/ /\ ~HasRow(k) /\ MayInsert(k, p)
        /\ s.attempts = 1 /\ ~s.uncertain /\ s.first = now
     \/ /\ r.status \in Open /\ r.payload = p /\ s.first = r.first
        /\ s.attempts = r.attempts + 1
        /\ s.uncertain <=> (r.uncertain \/ r.status = "reserved")

LEMMA ClaimEffect ==
  ASSUME LedgerTypeOK, NEW k \in Key, NEW p \in Payloads, Reclaim(k, p) \/ Insert(k, p)
  PROVE  /\ ledger' = [ledger EXCEPT ![k] = ledger'[k]] /\ UNCHANGED <<open, now>>
         /\ ClaimedAs(k, p, ledger[k], ledger'[k])
<1> DEFINE r == ledger[k]  s == ledger'[k]
<1>1. r \in Row /\ ledger \in [Key -> Row] /\ now \in Nat
  BY DEF LedgerTypeOK
<1>2. CASE Insert(k, p)
  <2>1. s = InsertedRow(p) /\ MayInsert(k, p) /\ ~HasRow(k) /\ ledger' = [ledger EXCEPT ![k] = s]
        /\ UNCHANGED <<open, now>>
    BY <1>1, <1>2 DEF Insert, MayInsert
  <2>2. s \in Row
    BY <1>1, <2>1, InsertedRowType
  <2>3. s.status = "reserved" /\ s.token = 1 /\ s.last = now /\ s.attempts = 1
        /\ s.payload = p /\ ~s.uncertain /\ s.first = now
    BY <2>1 DEF InsertedRow, NoRow
  <2>4. QED
    BY <2>1, <2>2, <2>3, LedgerAssumption DEF ClaimedAs
<1>3. CASE Reclaim(k, p)
  <2>1. s = ReclaimedRow(r) /\ MayReclaim(k, p) /\ ledger' = [ledger EXCEPT ![k] = s]
        /\ UNCHANGED <<open, now>>
    BY <1>1, <1>3 DEF Reclaim
  <2>2. r.attempts < MaxClaims /\ r.status \in Open /\ r.payload = p
    BY <1>1, <2>1, LedgerAssumption
       DEF MayReclaim, MayClaim, Undecided, Decides, KnownKeyDecides, Answers, PastBounds,
           HasRow, Row, Status, Settled, Open, Refused
  <2>3. s \in Row
    BY <1>1, <2>1, <2>2, ReclaimedRowType
  <2>4. s.status = "reserved" /\ s.token = r.attempts + 1 /\ s.last = now
        /\ s.attempts = r.attempts + 1 /\ s.payload = r.payload /\ s.first = r.first
        /\ (s.uncertain <=> (r.uncertain \/ r.status = "reserved"))
    BY <1>1, <2>1 DEF ReclaimedRow, Row
  <2>5. s.attempts \in 1..MaxClaims
    BY <1>1, <2>2, <2>4, LedgerAssumption DEF Row
  <2>6. QED
    BY <2>1, <2>2, <2>3, <2>4, <2>5 DEF ClaimedAs
<1>4. QED
  BY <1>2, <1>3

Claimed(d, t, rest, time) ==
  [d EXCEPT !.pc = "answer", !.token = t, !.left = rest, !.since = time]

LEMMA ClaimingWorker ==
  ASSUME NEW d, Proper(d), d.pc = "reserve",
         NEW t \in 1..MaxClaims, NEW rest \in Nat, NEW time \in Nat
  PROVE  LET c == Claimed(d, t, rest, time) IN
         /\ Proper(c) /\ c.mail = d.mail /\ c.att = d.att /\ c.payload = d.payload
         /\ c.pc = "answer" /\ c.token = t /\ c.left = rest /\ c.since = time
<1> DEFINE c == Claimed(d, t, rest, time)
<1>0. d \in Worker /\ t \in 0..MaxClaims /\ "answer" \in PC
  BY LedgerAssumption DEF Proper, PC
<1>1. c \in Worker
  BY <1>0 DEF Claimed, Worker
<1>2. c.mail = d.mail /\ c.att = d.att /\ c.payload = d.payload /\ c.result = d.result
      /\ c.pc = "answer" /\ c.token = t /\ c.left = rest /\ c.since = time /\ c.doubt = d.doubt
  BY DEF Claimed, Proper, Worker
<1> HIDE DEF c
<1>3. Bound(c)
  BY <1>2 DEF Proper, Bound, Holds
<1>4. QED
  BY <1>1, <1>2, <1>3 DEF Proper, c

(* What the worker keeps of the claim it got.                              *)
LEMMA ReserveEffect ==
  ASSUME TypeInv, NEW w \in Workers, ReserveClaims(w)
  PROVE  LET k == KeyOf(w)  s == ledger'[k]  c == worker'[w] IN
         /\ worker[w].pc = "reserve" /\ k \in Key /\ worker[w].payload \in Payloads
         /\ ledger' = [ledger EXCEPT ![k] = s] /\ UNCHANGED <<open, now, wire, providerVars>>
         /\ Reclaim(k, worker[w].payload) \/ Insert(k, worker[w].payload)
         /\ ClaimedAs(k, worker[w].payload, ledger[k], s)
         /\ Proper(c) /\ Becomes(w, c) /\ c.mail = worker[w].mail /\ c.att = worker[w].att
         /\ c.pc = "answer" /\ c.token = s.token /\ c.payload = s.payload
         /\ c.since = now /\ c.left = SecondsLeft(s)
<1> DEFINE k == KeyOf(w)  s == ledger'[k]  p == worker[w].payload
           c == Claimed(worker[w], s.token, SecondsLeft(s), now)
<1>1. worker[w].pc = "reserve" /\ (Reclaim(k, p) \/ Insert(k, p))
      /\ worker' = [worker EXCEPT ![w] = c] /\ UNCHANGED <<wire, providerVars>>
  BY DEF ReserveClaims, Claimed, TypeInv, TypeOK
<1>2. worker[w] \in Worker /\ Bound(worker[w]) /\ Proper(worker[w]) /\ now \in Nat /\ LedgerTypeOK
      /\ worker \in [Workers -> Worker]
  BY DEF TypeInv, TypeOK, LedgerTypeOK, ProperWorkers, Proper
<1>3. k \in Key /\ p \in Payloads
  BY <1>1, <1>2, KeyOfType DEF Bound
<1>4. /\ ledger' = [ledger EXCEPT ![k] = s] /\ UNCHANGED <<open, now>>
      /\ ClaimedAs(k, p, ledger[k], s)
  BY <1>1, <1>2, <1>3, ClaimEffect
<1>5. SecondsLeft(s) \in Nat /\ s.token \in 1..MaxClaims /\ s.payload = p
  BY <1>2, <1>4, LedgerAssumption DEF ClaimedAs, SecondsLeft, Row
<1>6. Proper(c) /\ c.mail = worker[w].mail /\ c.att = worker[w].att /\ c.pc = "answer"
      /\ c.token = s.token /\ c.payload = p /\ c.since = now /\ c.left = SecondsLeft(s)
  <2>1. worker[w].pc = "reserve" /\ Proper(worker[w]) /\ worker[w].payload = p
    BY <1>1, <1>2
  <2> HIDE DEF p, s, k
  <2>2. QED
    BY <2>1, <1>2, <1>5, ClaimingWorker
<1>7. worker'[w] = c
  BY <1>1, <1>2
<1>8. QED
  BY <1>1, <1>3, <1>4, <1>5, <1>6, <1>7 DEF Becomes

(* A call puts one request of the claim on its way.                        *)
LEMMA CallEffect ==
  ASSUME TypeInv, NEW w \in Workers, Call(w)
  PROVE  LET c == worker'[w] IN
         /\ worker[w].pc = "call" /\ MayCall(w) /\ UNCHANGED <<ledgerVars, providerVars>>
         /\ Proper(c) /\ SameClaim(c, worker[w]) /\ Becomes(w, c)
         /\ c.pc = "wait" /\ c.doubt = worker[w].doubt /\ c.result = worker[w].result
         /\ c.deadline = worker[w].deadline
         /\ \E ask \in Request : /\ ask.key = KeyOf(w) /\ ask.payload = worker[w].payload
                                 /\ ask.at = now /\ wire' = wire \cup {ask}
<1> DEFINE d == worker[w]
           c == [d EXCEPT !.pc = "wait", !.tries = d.tries + 1]
           ask == [key |-> KeyOf(w), payload |-> d.payload, token |-> d.token,
                   n |-> d.tries + 1, at |-> now]
<1>1. /\ d.pc = "call" /\ MayCall(w) /\ worker' = [worker EXCEPT ![w] = c]
      /\ wire' = wire \cup {ask} /\ UNCHANGED <<ledgerVars, providerVars>>
  BY DEF Call, TypeInv, TypeOK
<1>2. d \in Worker /\ Bound(d) /\ now \in Nat /\ worker \in [Workers -> Worker]
  BY DEF TypeInv, TypeOK, LedgerTypeOK, ProperWorkers
<1>3. d.tries + 1 \in 1..SameKeyTries /\ d.tries + 1 \in 0..SameKeyTries
  BY <1>1, <1>2, SenderAssumption DEF MayCall, Worker
<1>4. d.token \in 1..MaxClaims /\ d.payload \in Payloads /\ KeyOf(w) \in Key
  BY <1>1, <1>2, LedgerAssumption, KeyOfType DEF Bound, Holds, Worker
<1>5. ask \in Request
  BY <1>2, <1>3, <1>4 DEF Request
<1>6. c \in Worker
  BY <1>2, <1>3 DEF Worker, PC
<1>7. c.pc = "wait" /\ c.doubt = d.doubt /\ c.result = d.result /\ c.deadline = d.deadline
      /\ c.mail = d.mail /\ c.att = d.att /\ c.token = d.token /\ c.payload = d.payload
  BY <1>2 DEF Worker
<1> HIDE DEF c
<1>8. Proper(c) /\ SameClaim(c, d)
  BY <1>1, <1>2, <1>6, <1>7 DEF Proper, Bound, Holds, SameClaim
<1>9. worker'[w] = c /\ Becomes(w, c)
  BY <1>1, <1>2 DEF Becomes
<1>10. QED
  BY <1>1, <1>5, <1>7, <1>8, <1>9

(* A worker settles its own claim and leaves it.                           *)
LEMMA SettleEffect ==
  ASSUME TypeInv, NEW w \in Workers, SettleClaim(w)
  PROVE  /\ worker[w].pc = "settle" /\ Leaves(w) /\ UNCHANGED <<wire, providerVars>>
         /\ KeyOf(w) \in Key /\ worker[w].token \in 1..MaxClaims /\ Want(w) \in Settled
         /\ Settle(KeyOf(w), worker[w].token, Want(w))
<1>1. worker[w].pc = "settle" /\ Settle(KeyOf(w), worker[w].token, Want(w))
      /\ UNCHANGED <<wire, providerVars>>
  BY DEF SettleClaim
<1>2. KeyOf(w) \in Key /\ Want(w) \in Settled
  BY <1>1, KeyOfType, WantType
<1>3. worker[w].token \in 1..MaxClaims
  BY <1>1, LedgerAssumption DEF TypeInv, TypeOK, ProperWorkers, Bound, Holds, Worker
<1> DEFINE st == SettledRow(ledger[KeyOf(w)], worker[w].token, Want(w)).status
<1>4. st \in Outcomes
  <2>1. HasRow(KeyOf(w)) /\ ledger[KeyOf(w)] \in Row /\ now \in Nat
    BY <1>1, <1>2 DEF Settle, TypeInv, TypeOK, LedgerTypeOK
  <2>2. st \in Status /\ st # "none"
    BY <1>2, <1>3, <2>1, SettledRowType, SettledRowBinding DEF HasRow, Row
  <2>3. QED
    BY <2>2 DEF Status, Settled, Outcomes, Documented
<1>5. (\E o \in Outcomes : Finish(w, o)) \/ NextKey(w)
  BY <1>4 DEF SettleClaim, Outcomes, Documented
<1>6. Leaves(w)
  BY <1>1, <1>5, FinishLeaves, NextKeyLeaves
<1>7. QED
  BY <1>1, <1>2, <1>3, <1>6

(* A reply reaches the worker that waits for it, or nobody.                *)
Replied(r, result) ==
  \/ UNCHANGED worker
  \/ \E w \in Workers, c \in Worker :
        /\ worker[w].pc = "wait" /\ r.key = KeyOf(w)
        /\ Proper(c) /\ SameClaim(c, worker[w]) /\ Becomes(w, c)
        /\ c.pc = "settle" /\ c.doubt = worker[w].doubt /\ c.result = result

LEMMA ReplyEffect ==
  ASSUME TypeInv, NEW r, NEW result \in Results, Reply(r, result)
  PROVE  Replied(r, result)
<1>1. SUFFICES ASSUME NEW w \in Workers, worker[w].pc = "wait", Sent(w, r),
                      worker' = [worker EXCEPT ![w].pc = "settle", ![w].result = result]
               PROVE  Replied(r, result)
  BY DEF Reply, Replied
<1> DEFINE d == worker[w]
           c == [d EXCEPT !.pc = "settle", !.result = result]
<1>2. d \in Worker /\ Bound(d) /\ worker' = [worker EXCEPT ![w] = c]
  BY <1>1 DEF TypeInv, TypeOK, ProperWorkers
<1>3. c \in Worker /\ c.pc = "settle" /\ c.doubt = d.doubt /\ c.result = result
      /\ c.mail = d.mail /\ c.att = d.att /\ c.token = d.token /\ c.payload = d.payload
  BY <1>2 DEF Worker, PC
<1> HIDE DEF c
<1>4. Proper(c) /\ SameClaim(c, d)
  BY <1>1, <1>2, <1>3 DEF Proper, Bound, Holds, SameClaim
<1>5. QED
  BY <1>1, <1>2, <1>3, <1>4 DEF Replied, Becomes, Sent

(* Every step is of one of these kinds.                                    *)
Passes == /\ Tick /\ wire' = Arriving /\ UNCHANGED providerVars
          /\ PassTime \/ Sleep

LEMMA NextCases ==
  ASSUME TypeInv, [Next]_vars
  PROVE  \/ \E w \in Workers : \/ Drops(w) \/ Advances(w)
                               \/ ReserveClaims(w) \/ Call(w) \/ SettleClaim(w)
         \/ \E r \in wire : Handle(r)
         \/ \E k \in Key : ResolveRow(k)
         \/ \E b \in BOOLEAN : Enrol(b)
         \/ Passes
         \/ UNCHANGED vars
<1>1. ASSUME NEW w \in Workers, Step(w)
      PROVE  Drops(w) \/ Advances(w) \/ ReserveClaims(w) \/ Call(w) \/ SettleClaim(w)
  BY <1>1, DropKinds, AdvanceKinds DEF Step
<1>2. PassTime \/ Sleep => Passes
  BY DEF PassTime, Sleep, Passes
<1>3. QED
  BY <1>1, <1>2, DropKinds DEF Next

(* Whatever the worker does to the ledger, it does by the ledger's own      *)
(* functions.                                                              *)
LEMMA LedgerStep ==
  ASSUME TypeInv, [Next]_vars
  PROVE  [LedgerNext]_ledgerVars
<1>1. ASSUME NEW w \in Workers, ReserveClaims(w)
      PROVE  LedgerNext
  BY <1>1, ReserveEffect DEF LedgerNext
<1>2. ASSUME NEW w \in Workers, SettleClaim(w)
      PROVE  LedgerNext
  BY <1>2, SettleEffect DEF LedgerNext
<1>3. ASSUME NEW k \in Key, ResolveRow(k)
      PROVE  LedgerNext
  BY <1>3 DEF ResolveRow, LedgerNext
<1>4. ASSUME NEW b \in BOOLEAN, Enrol(b)
      PROVE  LedgerNext
  BY <1>4 DEF Enrol, LedgerNext
<1>5. Passes => LedgerNext
  BY DEF Passes, LedgerNext
<1>6. ASSUME NEW w \in Workers, Drops(w) \/ Advances(w) \/ Call(w)
      PROVE  UNCHANGED ledgerVars
  BY <1>6 DEF Drops, Advances, TakeAnswer, StopCalling, UnknownAnswer, Call
<1>7. ASSUME NEW r \in wire, Handle(r)
      PROVE  UNCHANGED ledgerVars
  BY <1>7 DEF Handle
<1>8. UNCHANGED vars => UNCHANGED ledgerVars
  BY DEF vars
<1>9. QED
  BY <1>1, <1>2, <1>3, <1>4, <1>5, <1>6, <1>7, <1>8, NextCases

(* One request handled: at most one acceptance, of this request and only    *)
(* when the provider does not remember its key.                            *)
HandledAs(r) ==
  /\ wire' = wire \ {r} /\ UNCHANGED ledgerVars
  /\ \/ /\ ~Remembers(r.key) /\ Replied(r, "accepted")
        /\ accepted' = [accepted EXCEPT ![r.key] = @ + 1]
        /\ stored' = [stored EXCEPT ![r.key] = now]
        /\ body' = [body EXCEPT ![r.key] = r.payload]
     \/ /\ Remembers(r.key) /\ UNCHANGED providerVars
        /\ Replied(r, IF body[r.key] = r.payload THEN "accepted" ELSE "conflict")
     \/ /\ UNCHANGED providerVars
        /\ \E result \in {"quota", "refused", "released"} : Replied(r, result)

LEMMA HandleEffect ==
  ASSUME TypeInv, NEW r \in wire, Handle(r)
  PROVE  HandledAs(r)
<1>1. {"accepted", "conflict", "quota", "refused", "released"} \subseteq Results
  BY DEF Results
<1>2. wire' = wire \ {r} /\ UNCHANGED ledgerVars
  BY DEF Handle
<1>3. CASE Accept(r)
  BY <1>1, <1>2, <1>3, ReplyEffect DEF Accept, HandledAs
<1>4. CASE Replay(r)
  BY <1>1, <1>2, <1>4, ReplyEffect DEF Replay, HandledAs
<1>5. CASE Refuse(r)
  BY <1>1, <1>2, <1>5, ReplyEffect DEF Refuse, HandledAs
<1>6. QED
  BY <1>3, <1>4, <1>5 DEF Handle

LEMMA ReplyKeepsWorkers ==
  ASSUME TypeInv, NEW r, NEW result, Replied(r, result)
  PROVE  worker' \in [Workers -> Worker] /\ ProperWorkers'
<1>1. CASE UNCHANGED worker
  BY <1>1 DEF TypeInv, TypeOK, ProperWorkers
<1>2. QED
  BY <1>1, BecomesTyped DEF Replied, TypeInv, TypeOK

LEMMA SleepKeepsWorkers ==
  ASSUME TypeInv, Passes
  PROVE  /\ worker' \in [Workers -> Worker] /\ ProperWorkers'
         /\ \A w \in Workers : /\ worker'[w].pc = worker[w].pc /\ worker'[w].mail = worker[w].mail
                               /\ worker'[w].att = worker[w].att /\ worker'[w].token = worker[w].token
                               /\ worker'[w].payload = worker[w].payload
                               /\ worker'[w].doubt = worker[w].doubt
                               /\ worker'[w].result = worker[w].result
<1>1. CASE UNCHANGED worker
  BY <1>1 DEF TypeInv, TypeOK, ProperWorkers
<1>2. CASE Sleep
  <2>1. SUFFICES ASSUME NEW w \in Workers
                 PROVE  /\ worker'[w] \in Worker /\ worker'[w].pc = worker[w].pc
                        /\ worker'[w].mail = worker[w].mail /\ worker'[w].att = worker[w].att
                        /\ worker'[w].token = worker[w].token
                        /\ worker'[w].payload = worker[w].payload
                        /\ worker'[w].doubt = worker[w].doubt
                        /\ worker'[w].result = worker[w].result
    <3>1. worker' = [w \in Workers |-> worker'[w]]
      BY <1>2 DEF Sleep
    <3>2. QED
      BY <2>1, <3>1 DEF TypeInv, ProperWorkers, Bound, Holds
  <2>2. worker[w] \in Worker
    BY DEF TypeInv, TypeOK
  <2>3. CASE worker[w].pc \in {"answer", "call", "wait"}
    <3>1. worker'[w] = [worker[w] EXCEPT !.since = worker[w].since + 1,
                                         !.deadline = worker[w].deadline + 1]
      BY <1>2, <2>3 DEF Sleep
    <3>2. worker[w].since + 1 \in Nat /\ worker[w].deadline + 1 \in Int
      BY <2>2 DEF Worker
    <3>3. QED
      BY <2>2, <3>1, <3>2 DEF Worker
  <2>4. CASE worker[w].pc \notin {"answer", "call", "wait"}
    BY <1>2, <2>2, <2>4 DEF Sleep
  <2>5. QED
    BY <2>3, <2>4
<1>3. QED
  BY <1>1, <1>2 DEF Passes, PassTime

LEMMA TypeStep ==
  ASSUME TypeInv, [Next]_vars
  PROVE  TypeInv'
<1>1. LedgerTypeOK'
  BY LedgerStep, LedgerTypeStep DEF TypeInv, TypeOK
<1>2. now \in Nat /\ worker \in [Workers -> Worker] /\ ProperWorkers
      /\ wire \subseteq Request /\ accepted \in [Key -> Nat]
      /\ stored \in [Key -> Nat \cup {NoTime}] /\ body \in [Key -> Payloads \cup {NoPayload}]
  BY DEF TypeInv, TypeOK, LedgerTypeOK
<1> DEFINE Others == /\ wire' \subseteq Request /\ accepted' \in [Key -> Nat]
                     /\ stored' \in [Key -> Nat \cup {NoTime}]
                     /\ body' \in [Key -> Payloads \cup {NoPayload}]
           Good == worker' \in [Workers -> Worker] /\ ProperWorkers' /\ Others
<1>3. ASSUME NEW w \in Workers, Leaves(w), UNCHANGED <<wire, providerVars>>
      PROVE  Good
  BY <1>2, <1>3, BecomesTyped DEF Leaves, providerVars
<1>4. ASSUME NEW w \in Workers, Advances(w)
      PROVE  Good
  <2>1. UNCHANGED <<wire, providerVars>>
    BY <1>4 DEF Advances, TakeAnswer, StopCalling, UnknownAnswer
  <2>2. QED
    BY <1>2, <1>4, <2>1, BecomesTyped DEF Advances, providerVars
<1>5. ASSUME NEW w \in Workers, ReserveClaims(w)
      PROVE  Good
  BY <1>2, <1>5, ReserveEffect, BecomesTyped DEF providerVars
<1>6. ASSUME NEW w \in Workers, Call(w)
      PROVE  Good
  BY <1>2, <1>6, CallEffect, BecomesTyped DEF providerVars
<1>7. ASSUME NEW r \in wire, Handle(r)
      PROVE  Good
  <2>1. HandledAs(r) /\ r.key \in Key /\ r.payload \in Payloads
    BY <1>2, <1>7, HandleEffect DEF Request
  <2>2. worker' \in [Workers -> Worker] /\ ProperWorkers'
    BY <2>1, ReplyKeepsWorkers DEF HandledAs
  <2>3. wire' \subseteq Request
    BY <1>2, <2>1 DEF HandledAs
  <2>4. CASE UNCHANGED providerVars
    BY <1>2, <2>2, <2>3, <2>4 DEF providerVars
  <2>5. CASE ~UNCHANGED providerVars
    <3>1. /\ accepted' = [accepted EXCEPT ![r.key] = @ + 1]
          /\ stored' = [stored EXCEPT ![r.key] = now]
          /\ body' = [body EXCEPT ![r.key] = r.payload]
      BY <2>1, <2>5 DEF HandledAs
    <3>2. QED
      BY <1>2, <2>1, <2>2, <2>3, <3>1
  <2>6. QED
    BY <2>4, <2>5
<1>8. ASSUME UNCHANGED <<worker, wire, providerVars>>
      PROVE  Good
  BY <1>2, <1>8 DEF ProperWorkers, providerVars
<1>9. Passes => Good
  BY <1>2, SleepKeepsWorkers DEF Passes, Arriving, providerVars
<1>10. Good
  BY <1>3, <1>4, <1>5, <1>6, <1>7, <1>8, <1>9, NextCases, SettleEffect
     DEF Drops, ResolveRow, Enrol, vars
<1>11. QED
  BY <1>1, <1>10 DEF TypeInv, TypeOK

LEMMA TypeInit == Init => TypeInv
<1> SUFFICES ASSUME Init
             PROVE  TypeInv
  OBVIOUS
<1>1. LedgerTypeOK
  BY LedgerAssumption DEF Init, LedgerInit, LedgerTypeOK, NoRow, Row, Status, NoTime
<1>2. Proper(Idle)
  BY ProperIdle DEF Outcomes
<1>3. QED
  BY <1>1, <1>2 DEF Init, TypeInv, TypeOK, ProperWorkers, Proper

(* Every record stays well-formed; in particular a claim's token never      *)
(* exceeds max_claims and no run calls the provider more than SameKeyTries  *)
(* times under it.                                                         *)
LEMMA SenderTypeInv == Spec => []TypeInv
<1>1. TypeInv /\ [Next]_vars => TypeInv'
  BY TypeStep
<1>2. QED
  BY <1>1, TypeInit, PTL DEF Spec

(* Every sending process is at a step of the program, with an outcome the      *)
(* program knows, beside a well typed ledger.                                 *)
THEOREM SenderTypeCorrect == Spec => []TypeOK
<1>1. TypeInv => TypeOK
  BY DEF TypeInv
<1>2. QED
  BY <1>1, SenderTypeInv, PTL

(* However many runs overlap, die or come late, the ledger sees nothing but *)
(* calls of its own functions: all its theorems hold of the worker too.    *)
THEOREM SenderFollowsLedger == Spec => LedgerSpec
<1>1. Init => LedgerInit
  BY DEF Init
<1>2. TypeInv /\ [Next]_vars => [LedgerNext]_ledgerVars
  BY LedgerStep
<1>3. QED
  BY <1>1, <1>2, SenderTypeInv, PTL DEF Spec, LedgerSpec

-----------------------------------------------------------------------------
(* Claims, requests and rows.                                              *)

Own(w) == Holds(worker[w])

(* A worker that holds a claim after a step held it before, or reserved it. *)
LEMMA ClaimCases ==
  ASSUME TypeInv, [Next]_vars, NEW v \in Workers, Own(v)'
  PROVE  \/ SameClaim(worker'[v], worker[v]) /\ Own(v) /\ KeyOf(v)' = KeyOf(v)
         \/ ReserveClaims(v)
<1> USE DEF Own
<1>1. worker \in [Workers -> Worker]
  BY DEF TypeInv, TypeOK
<1>2. CASE worker'[v] = worker[v]
  BY <1>2 DEF SameClaim, KeyOf
<1>3. ASSUME NEW w \in Workers, Leaves(w)
      PROVE  worker'[v] = worker[v]
  BY <1>1, <1>3 DEF Leaves, Becomes
<1>4. ASSUME NEW w \in Workers, NEW c, Becomes(w, c), SameClaim(c, worker[w])
      PROVE  worker'[v] = worker[v] \/ SameClaim(worker'[v], worker[v])
  BY <1>1, <1>4 DEF Becomes
<1>5. ASSUME NEW w \in Workers, ReserveClaims(w)
      PROVE  worker'[v] = worker[v] \/ ReserveClaims(v)
  BY <1>1, <1>5 DEF ReserveClaims
<1>6. ASSUME NEW r \in wire, Handle(r)
      PROVE  worker'[v] = worker[v] \/ SameClaim(worker'[v], worker[v])
  BY <1>4, <1>6, HandleEffect DEF HandledAs, Replied
<1>7. Passes => SameClaim(worker'[v], worker[v])
  BY SleepKeepsWorkers DEF SameClaim, Holds
<1>8. SameClaim(worker'[v], worker[v]) => Holds(worker[v]) /\ KeyOf(v)' = KeyOf(v)
  BY DEF SameClaim, KeyOf
<1>9. worker'[v] = worker[v] \/ SameClaim(worker'[v], worker[v]) \/ ReserveClaims(v)
  BY <1>3, <1>4, <1>5, <1>6, <1>7, NextCases, SettleEffect, CallEffect
     DEF Drops, Advances, ResolveRow, Enrol, vars
<1>10. QED
  BY <1>2, <1>8, <1>9

(* A request on the wire after a step was there before, or a claim sent it. *)
LEMMA WireCases ==
  ASSUME TypeInv, [Next]_vars, NEW r \in wire'
  PROVE  \/ r \in wire
         \/ \E w \in Workers : /\ Call(w) /\ r.key = KeyOf(w) /\ r.at = now
                              /\ r.payload = worker[w].payload /\ wire' = wire \cup {r}
<1>1. ASSUME NEW w \in Workers, Call(w), r \notin wire
      PROVE  r.key = KeyOf(w) /\ r.at = now /\ r.payload = worker[w].payload
             /\ wire' = wire \cup {r}
  BY <1>1, CallEffect
<1>2. ASSUME NEW w \in Workers, Advances(w)
      PROVE  wire' = wire
  BY <1>2 DEF Advances, TakeAnswer, StopCalling, UnknownAnswer
<1>3. QED
  BY <1>1, <1>2, NextCases, ReserveEffect, SettleEffect
     DEF Drops, Handle, ResolveRow, Enrol, Passes, Arriving, vars

(* Every claim and every request is of a row bound to the payload it        *)
(* carries, and a token names one claim.                                   *)
ClaimsHaveRows == \A w \in Workers : Own(w) =>
  /\ HasRow(KeyOf(w)) /\ worker[w].payload = ledger[KeyOf(w)].payload
  /\ worker[w].token <= ledger[KeyOf(w)].attempts
RequestsHaveRows == \A r \in wire : HasRow(r.key) /\ r.payload = ledger[r.key].payload
TokensDiffer == \A v, w \in Workers :
  (Own(v) /\ Own(w) /\ KeyOf(v) = KeyOf(w) /\ worker[v].token = worker[w].token) => v = w
ClaimInv == ClaimsHaveRows /\ RequestsHaveRows /\ TokensDiffer

LEMMA OwnKeyType ==
  ASSUME TypeInv, NEW w \in Workers, Own(w)
  PROVE  KeyOf(w) \in Key /\ worker[w].token \in 1..MaxClaims /\ worker[w].payload \in Payloads
BY KeyOfType, LedgerAssumption DEF TypeInv, TypeOK, ProperWorkers, Bound, Own, Holds, Worker

LEMMA ClaimStep ==
  ASSUME TypeInv, ClaimInv, [Next]_vars
  PROVE  ClaimInv'
<1>1. LedgerTypeOK /\ [LedgerNext]_ledgerVars
  BY LedgerStep DEF TypeInv, TypeOK
<1>2. ClaimsHaveRows'
  <2> SUFFICES ASSUME NEW w \in Workers, Own(w)'
               PROVE  /\ HasRow(KeyOf(w))' /\ worker'[w].payload = ledger'[KeyOf(w)'].payload
                      /\ worker'[w].token <= ledger'[KeyOf(w)'].attempts
    BY DEF ClaimsHaveRows
  <2>1. CASE SameClaim(worker'[w], worker[w]) /\ Own(w) /\ KeyOf(w)' = KeyOf(w)
    <3>1. KeyOf(w) \in Key /\ HasRow(KeyOf(w)) /\ ledger[KeyOf(w)].attempts \in Nat
          /\ worker[w].token \in Nat /\ ledger'[KeyOf(w)].attempts \in Nat
      BY <2>1, OwnKeyType, TypeStep, LedgerAssumption
         DEF ClaimInv, ClaimsHaveRows, TypeInv, TypeOK, LedgerTypeOK, Row
    <3>2. QED
      BY <1>1, <2>1, <3>1, RowsGrow DEF ClaimInv, ClaimsHaveRows, SameClaim, HasRow
  <2>2. CASE ReserveClaims(w)
    <3>1. KeyOf(w)' = KeyOf(w)
      BY <2>2, ReserveEffect DEF KeyOf
    <3>2. QED
      BY <2>2, <3>1, ReserveEffect DEF ClaimedAs, HasRow
  <2>3. QED
    BY <2>1, <2>2, ClaimCases
<1>3. RequestsHaveRows'
  <2> SUFFICES ASSUME NEW r \in wire'
               PROVE  HasRow(r.key)' /\ r.payload = ledger'[r.key].payload
    BY DEF RequestsHaveRows
  <2>1. CASE r \in wire
    <3>1. r.key \in Key /\ HasRow(r.key)
      BY <2>1 DEF TypeInv, TypeOK, Request, ClaimInv, RequestsHaveRows
    <3>2. QED
      BY <1>1, <2>1, <3>1, RowsGrow DEF ClaimInv, RequestsHaveRows, HasRow
  <2>2. ASSUME NEW w \in Workers, Call(w), r.key = KeyOf(w), r.payload = worker[w].payload
        PROVE  HasRow(r.key)' /\ r.payload = ledger'[r.key].payload
    BY <2>2 DEF Call, ClaimInv, ClaimsHaveRows, Own, Holds, ledgerVars, HasRow
  <2>3. QED
    BY <2>1, <2>2, WireCases
<1>4. TokensDiffer'
  <2> SUFFICES ASSUME NEW v \in Workers, NEW w \in Workers, Own(v)', Own(w)',
                      KeyOf(v)' = KeyOf(w)', worker'[v].token = worker'[w].token
               PROVE  v = w
    BY DEF TokensDiffer
  <2>1. ASSUME NEW x \in Workers, NEW y \in Workers, ReserveClaims(x), Own(y),
               KeyOf(y) = KeyOf(x), worker'[x].token = worker[y].token
        PROVE  FALSE
    <3>1. HasRow(KeyOf(x)) /\ worker[y].token <= ledger[KeyOf(x)].attempts
      BY <2>1 DEF ClaimInv, ClaimsHaveRows
    <3>2. worker'[x].token = ledger[KeyOf(x)].attempts + 1
      BY <2>1, <3>1, ReserveEffect DEF ClaimedAs
    <3>3. ledger[KeyOf(x)].attempts \in Nat
      BY <2>1, ReserveEffect, LedgerAssumption DEF TypeInv, TypeOK, LedgerTypeOK, Row
    <3>4. QED
      BY <2>1, <3>1, <3>2, <3>3, OwnKeyType
  <2>2. ASSUME ReserveClaims(v), ReserveClaims(w)
        PROVE  v = w
    <3>1. worker[w].pc = "reserve" /\ worker'[w].pc = "answer" /\ Becomes(v, worker'[v])
      BY <2>2, ReserveEffect
    <3>2. QED
      BY <3>1 DEF Becomes, TypeInv, TypeOK
  <2>3. ASSUME NEW x \in Workers, ReserveClaims(x)
        PROVE  KeyOf(x)' = KeyOf(x)
    BY <2>3, ReserveEffect DEF KeyOf
  <2>4. QED
    BY <2>1, <2>2, <2>3, ClaimCases DEF SameClaim, ClaimInv, TokensDiffer
<1>5. QED
  BY <1>2, <1>3, <1>4 DEF ClaimInv

LEMMA ClaimInvHolds == Spec => []ClaimInv
<1>1. Init => ClaimInv
  BY DEF Init, ClaimInv, ClaimsHaveRows, RequestsHaveRows, TokensDiffer, Own, Holds, Idle
<1>2. TypeInv /\ ClaimInv /\ [Next]_vars => ClaimInv'
  BY ClaimStep
<1>3. QED
  BY <1>1, <1>2, SenderTypeInv, PTL DEF Spec

-----------------------------------------------------------------------------
(* The provider's acceptances and what the worker and the ledger know.     *)

(* What a worker asks the ledger to settle to, and from which results.     *)
LEMMA OutcomeMeans ==
  ASSUME NEW x \in Results
  PROVE  /\ OutcomeOf(x) = "sent" => x = "accepted"
         /\ OutcomeOf(x) \in Refused => x \in {"none", "quota", "refused", "released"}
BY DEF Results, OutcomeOf, Refused

LEMMA WantMeans ==
  ASSUME TypeInv, NEW w \in Workers
  PROVE  /\ Want(w) = "sent" => worker[w].result = "accepted"
         /\ Want(w) \in Refused => /\ ~worker[w].doubt
                                  /\ worker[w].result \in {"none", "quota", "refused", "released"}
<1>1. worker[w].result \in Results
  BY DEF TypeInv, TypeOK, Worker
<1> DEFINE o == OutcomeOf(worker[w].result)
<1>3. /\ o = "sent" => worker[w].result = "accepted"
      /\ o \in Refused => worker[w].result \in {"none", "quota", "refused", "released"}
  BY <1>1, OutcomeMeans, Zenon
<1>4. Want(w) = IF worker[w].doubt /\ o # "sent" THEN "unknown" ELSE o
  BY DEF Want
<1> HIDE DEF o
<1>5. QED
  BY <1>3, <1>4 DEF Refused

(* The provider changes only when it accepts a request it does not remember. *)
Accepts(r) ==
  /\ ~Remembers(r.key) /\ wire' = wire \ {r} /\ UNCHANGED ledgerVars
  /\ accepted' = [accepted EXCEPT ![r.key] = @ + 1]
  /\ stored' = [stored EXCEPT ![r.key] = now]
  /\ body' = [body EXCEPT ![r.key] = r.payload]

LEMMA ProviderCases ==
  ASSUME TypeInv, [Next]_vars
  PROVE  UNCHANGED providerVars \/ \E r \in wire : Accepts(r) /\ HandledAs(r)
<1>1. ASSUME NEW r \in wire, Handle(r)
      PROVE  UNCHANGED providerVars \/ (Accepts(r) /\ HandledAs(r))
  BY <1>1, HandleEffect DEF HandledAs, Accepts
<1>2. ASSUME NEW w \in Workers, Advances(w)
      PROVE  UNCHANGED providerVars
  BY <1>2 DEF Advances, TakeAnswer, StopCalling, UnknownAnswer
<1>3. QED
  BY <1>1, <1>2, NextCases, ReserveEffect, CallEffect, SettleEffect
     DEF Drops, ResolveRow, Enrol, Passes, vars

(* The result a claim carries after a step: none or unknown, the one it had, *)
(* or the reply to its own request.                                        *)
LEMMA ResultCases ==
  ASSUME TypeInv, [Next]_vars, NEW v \in Workers, Own(v)'
  PROVE  \/ worker'[v].result \in {"none", "unknown"}
         \/ Own(v) /\ KeyOf(v)' = KeyOf(v) /\ worker'[v].result = worker[v].result
         \/ /\ Own(v) /\ KeyOf(v)' = KeyOf(v)
            /\ \E r \in wire : /\ HandledAs(r) /\ r.key = KeyOf(v)
                              /\ \/ /\ worker'[v].result \in {"quota", "refused", "released"}
                                    /\ UNCHANGED providerVars
                                 \/ worker'[v].result = "accepted" /\ Accepts(r)
                                 \/ /\ Remembers(r.key) /\ UNCHANGED providerVars
                                    /\ worker'[v].result =
                                         IF body[r.key] = r.payload THEN "accepted" ELSE "conflict"
<1> USE DEF Own
<1>1. worker \in [Workers -> Worker] /\ Bound(worker[v])
  BY DEF TypeInv, TypeOK, ProperWorkers
<1>2. CASE ReserveClaims(v)
  <2>1. worker'[v].pc = "answer" /\ Proper(worker'[v])
    BY <1>2, ReserveEffect
  <2>2. QED
    BY <2>1 DEF Proper, Bound
<1>3. ASSUME NEW w \in Workers, Advances(w)
      PROVE  worker'[v].result = worker[v].result \/ worker'[v].result = "unknown"
  BY <1>1, <1>3 DEF Advances, TakeAnswer, StopCalling, UnknownAnswer, Worker
<1>4. ASSUME NEW w \in Workers, Call(w)
      PROVE  worker'[v].result = worker[v].result
  BY <1>1, <1>4, CallEffect DEF Becomes
<1>5. ASSUME NEW r \in wire, Handle(r)
      PROVE  \/ worker'[v].result = worker[v].result
             \/ /\ HandledAs(r) /\ r.key = KeyOf(v)
                /\ \/ /\ worker'[v].result \in {"quota", "refused", "released"}
                      /\ UNCHANGED providerVars
                   \/ worker'[v].result = "accepted" /\ Accepts(r)
                   \/ /\ Remembers(r.key) /\ UNCHANGED providerVars
                      /\ worker'[v].result =
                           IF body[r.key] = r.payload THEN "accepted" ELSE "conflict"
  <2>1. HandledAs(r)
    BY <1>5, HandleEffect
  <2>2. ASSUME NEW x, Replied(r, x), worker'[v].result # worker[v].result
        PROVE  worker'[v].result = x /\ r.key = KeyOf(v)
    BY <1>1, <2>2 DEF Replied, Becomes
  <2>3. QED
    BY <2>1, <2>2 DEF HandledAs, Accepts
<1>6. ASSUME NEW w \in Workers, Leaves(w) \/ (ReserveClaims(w) /\ w # v)
      PROVE  worker'[v] = worker[v]
  BY <1>1, <1>6 DEF Leaves, Becomes, ReserveClaims
<1>7. Passes => worker'[v].result = worker[v].result
  BY SleepKeepsWorkers
<1>8. CASE Own(v) /\ KeyOf(v)' = KeyOf(v) /\ ~ReserveClaims(v)
  BY <1>3, <1>4, <1>5, <1>6, <1>7, <1>8, NextCases, SettleEffect
     DEF Drops, ResolveRow, Enrol, vars
<1>9. QED
  BY <1>2, <1>8, ClaimCases

(* The provider accepts nothing without a row and under the row's payload;  *)
(* a worker that heard accepted, and a row that says sent, are right.      *)
AcceptedHasRow == \A k \in Key :
  /\ accepted[k] > 0 => HasRow(k) /\ body[k] = ledger[k].payload
  /\ accepted[k] > 0 <=> stored[k] # NoTime
HeardIsTrue == \A w \in Workers : Own(w) /\ worker[w].result = "accepted" => accepted[KeyOf(w)] > 0
SentIsTrue  == \A k \in Key : ledger[k].status = "sent" => accepted[k] > 0
NoClaimConflicts == \A w \in Workers : Own(w) => worker[w].result # "conflict"
ProviderInv == AcceptedHasRow /\ HeardIsTrue /\ SentIsTrue /\ NoClaimConflicts

LEMMA ProviderStep ==
  ASSUME TypeInv, ClaimInv, ProviderInv, [Next]_vars
  PROVE  ProviderInv'
<1>1. LedgerTypeOK /\ [LedgerNext]_ledgerVars /\ accepted \in [Key -> Nat]
      /\ stored \in [Key -> Nat \cup {NoTime}] /\ body \in [Key -> Payloads \cup {NoPayload}]
      /\ now \in Nat /\ wire \subseteq Request
  BY LedgerStep DEF TypeInv, TypeOK, LedgerTypeOK
<1>2. ASSUME NEW k \in Key
      PROVE  accepted'[k] >= accepted[k]
  BY <1>1, ProviderCases DEF Accepts, providerVars, Request
<1>3. AcceptedHasRow'
  <2> SUFFICES ASSUME NEW k \in Key
               PROVE  /\ accepted'[k] > 0 => HasRow(k)' /\ body'[k] = ledger'[k].payload
                      /\ accepted'[k] > 0 <=> stored'[k] # NoTime
    BY DEF AcceptedHasRow
  <2>1. HasRow(k) => HasRow(k)' /\ ledger'[k].payload = ledger[k].payload
    BY <1>1, RowsGrow
  <2>2. CASE UNCHANGED providerVars
    BY <2>1, <2>2 DEF ProviderInv, AcceptedHasRow, providerVars
  <2>3. ASSUME NEW r \in wire, Accepts(r)
        PROVE  /\ accepted'[k] > 0 => HasRow(k)' /\ body'[k] = ledger'[k].payload
               /\ accepted'[k] > 0 <=> stored'[k] # NoTime
    <3>1. CASE k = r.key
      <4>1. HasRow(k) /\ r.payload = ledger[k].payload
        BY <2>3, <3>1 DEF ClaimInv, RequestsHaveRows
      <4>2. accepted'[k] = accepted[k] + 1 /\ stored'[k] = now /\ body'[k] = r.payload
        BY <1>1, <2>3, <3>1 DEF Accepts
      <4>3. QED
        BY <1>1, <2>1, <4>1, <4>2 DEF NoTime
    <3>2. CASE k # r.key
      BY <1>1, <2>1, <2>3, <3>2 DEF Accepts, ProviderInv, AcceptedHasRow
    <3>3. QED
      BY <3>1, <3>2
  <2>4. QED
    BY <2>2, <2>3, ProviderCases
<1>4. HeardIsTrue'
  <2> SUFFICES ASSUME NEW v \in Workers, Own(v)', worker'[v].result = "accepted"
               PROVE  accepted'[KeyOf(v)'] > 0
    BY DEF HeardIsTrue
  <2>1. Own(v) /\ KeyOf(v)' = KeyOf(v) /\ KeyOf(v) \in Key
    BY ResultCases, OwnKeyType
  <2>2. accepted'[KeyOf(v)] \in Nat /\ accepted[KeyOf(v)] \in Nat
    BY <1>1, <2>1, TypeStep DEF TypeInv, TypeOK
  <2>3. CASE worker[v].result = "accepted"
    BY <1>2, <2>1, <2>2, <2>3 DEF ProviderInv, HeardIsTrue
  <2>4. ASSUME NEW r \in wire, Accepts(r), r.key = KeyOf(v)
        PROVE  accepted'[KeyOf(v)] > 0
    BY <1>1, <2>1, <2>4 DEF Accepts
  <2>5. ASSUME NEW r \in wire, Remembers(r.key), r.key = KeyOf(v)
        PROVE  accepted'[KeyOf(v)] > 0
    BY <1>2, <2>1, <2>2, <2>5 DEF Remembers, ProviderInv, AcceptedHasRow
  <2>6. QED
    BY <2>1, <2>3, <2>4, <2>5, ResultCases
<1>5. SentIsTrue'
  <2> SUFFICES ASSUME NEW k \in Key, ledger'[k].status = "sent"
               PROVE  accepted'[k] > 0
    BY DEF SentIsTrue
  <2>0. accepted'[k] \in Nat /\ accepted[k] \in Nat
    BY <1>1, TypeStep DEF TypeInv, TypeOK
  <2>1. SUFFICES accepted[k] > 0
    BY <1>2, <2>0
  <2>2. CASE ledger[k].status = "sent"
    BY <2>2 DEF ProviderInv, SentIsTrue
  <2>3. ASSUME NEW w \in Workers, ReserveClaims(w)
        PROVE  ledger[k].status = "sent"
    BY <1>1, <2>3, ReserveEffect DEF ClaimedAs, LedgerTypeOK
  <2>4. ASSUME NEW w \in Workers, SettleClaim(w)
        PROVE  accepted[k] > 0
    <3>1. CASE k # KeyOf(w)
      BY <1>1, <2>2, <2>4, <3>1, SettleEffect DEF Settle, LedgerTypeOK
    <3>2. CASE k = KeyOf(w)
      <4>1. ledger'[k] = SettledRow(ledger[k], worker[w].token, Want(w))
        BY <1>1, <2>4, <3>2, SettleEffect DEF Settle, LedgerTypeOK
      <4>2. ledger[k].status = "sent" \/ Want(w) = "sent"
        BY <1>1, <2>4, <4>1, SettleEffect, SettledRowVerdict DEF LedgerTypeOK
      <4>3. worker[w].pc = "settle"
        BY <2>4, SettleEffect
      <4>4. QED
        BY <2>2, <3>2, <4>2, <4>3, WantMeans DEF ProviderInv, HeardIsTrue, Own, Holds
    <3>3. QED
      BY <3>1, <3>2
  <2>5. ASSUME NEW j \in Key, ResolveRow(j)
        PROVE  accepted[k] > 0
    BY <1>1, <2>2, <2>5 DEF ResolveRow, Resolve, LedgerTypeOK, Row
  <2>6. CASE UNCHANGED ledger
    BY <2>2, <2>6
  <2>7. ASSUME NEW w \in Workers, Advances(w) \/ Call(w)
        PROVE  UNCHANGED ledger
    BY <2>7 DEF Advances, TakeAnswer, StopCalling, UnknownAnswer, Call, ledgerVars
  <2>8. QED
    BY <2>2, <2>3, <2>4, <2>5, <2>6, <2>7, NextCases
       DEF Drops, Handle, Enrol, SetOpen, Passes, Tick, vars, ledgerVars
<1>6. NoClaimConflicts'
  <2> SUFFICES ASSUME NEW v \in Workers, Own(v)', worker'[v].result = "conflict"
               PROVE  FALSE
    BY DEF NoClaimConflicts
  <2>1. ASSUME NEW r \in wire, Remembers(r.key)
        PROVE  body[r.key] = r.payload
    <3>1. r.key \in Key /\ r.payload = ledger[r.key].payload
      BY <1>1 DEF ClaimInv, RequestsHaveRows, Request
    <3>2. QED
      BY <2>1, <3>1 DEF Remembers, ProviderInv, AcceptedHasRow
  <2>2. QED
    BY <2>1, ResultCases DEF ProviderInv, NoClaimConflicts
<1>7. QED
  BY <1>3, <1>4, <1>5, <1>6 DEF ProviderInv

LEMMA ProviderInvHolds == Spec => []ProviderInv
<1>1. Init => ProviderInv
  BY DEF Init, LedgerInit, NoRow, ProviderInv, AcceptedHasRow, HeardIsTrue, SentIsTrue,
         NoClaimConflicts, Own, Holds, Idle
<1>2. TypeInv /\ ClaimInv /\ ProviderInv /\ [Next]_vars => ProviderInv'
  BY ProviderStep
<1>3. QED
  BY <1>1, <1>2, SenderTypeInv, ClaimInvHolds, PTL DEF Spec

(* The provider never finds a key bound to another body: a key of ours is   *)
(* only ever sent with the payload its row was inserted with.              *)
THEOREM NoIntentConflictHolds == Spec => []NoIntentConflict
<1>1. TypeInv /\ ProviderInv => NoIntentConflict
  BY DEF TypeInv, TypeOK, ProperWorkers, Bound, ProviderInv, NoClaimConflicts, NoIntentConflict,
         Own, Holds, Worker, PC
<1>2. QED
  BY <1>1, SenderTypeInv, ProviderInvHolds, PTL

-----------------------------------------------------------------------------
(* Refusals: when a row may be called refused.                             *)

(* No answer of this claim is in doubt and none is awaited.                *)
Harmless(c) == /\ ~c.doubt
               /\ \/ c.pc \in {"answer", "call"}
                  \/ c.pc = "settle" /\ c.result \in {"none", "quota", "refused", "released"}
Waiting(c)  == c.pc = "wait" /\ ~c.doubt

Unasked(k) == \A r \in wire : r.key # k

(* While nobody re-claimed the row of a harmless claim, the provider has    *)
(* accepted nothing of its key and has nothing to accept; of a claim that   *)
(* waits for its first answer it has at most that one request.             *)
HarmlessClaims == \A w \in Workers : Own(w) /\ Certain(KeyOf(w)) /\ Harmless(worker[w])
                    => accepted[KeyOf(w)] = 0 /\ Unasked(KeyOf(w))
WaitingClaims  == \A w \in Workers : Own(w) /\ Certain(KeyOf(w)) /\ Waiting(worker[w])
                    => \A r \in wire : r.key = KeyOf(w) =>
                         accepted[KeyOf(w)] = 0 /\ \A q \in wire : q.key = KeyOf(w) => q = r
(* A refused row is over: never accepted, no claim and no request left.     *)
RefusedIsOver  == \A k \in Key : ledger[k].status \in Refused => accepted[k] = 0 /\ Quiet(k)
RefusalInv == HarmlessClaims /\ WaitingClaims /\ RefusedIsOver

LEMMA OnlyClaim ==
  ASSUME TypeInv, ClaimInv, CertainIsFirst, NEW v \in Workers, NEW w \in Workers,
         Own(v), Own(w), KeyOf(v) = KeyOf(w), Certain(KeyOf(v))
  PROVE  v = w
<1>1. ledger[KeyOf(v)].attempts = 1 /\ KeyOf(v) \in Key
  BY OwnKeyType DEF CertainIsFirst
<1>2. worker[v].token = 1 /\ worker[w].token = 1
  BY <1>1, OwnKeyType DEF ClaimInv, ClaimsHaveRows
<1>3. QED
  BY <1>2 DEF ClaimInv, TokensDiffer

(* How a claim that goes on may become harmless or start to wait.          *)
LEMMA HarmlessCases ==
  ASSUME TypeInv, [Next]_vars, NEW v \in Workers, SameClaim(worker'[v], worker[v])
  PROVE  /\ Harmless(worker'[v]) =>
               \/ Harmless(worker[v]) /\ ~Call(v)
               \/ /\ Waiting(worker[v]) /\ UNCHANGED providerVars
                  /\ \E r \in wire : HandledAs(r) /\ r.key = KeyOf(v)
         /\ Waiting(worker'[v]) =>
               \/ Waiting(worker[v]) /\ ~Call(v)
               \/ Harmless(worker[v]) /\ Call(v)
<1> DEFINE d == worker[v]  c == worker'[v]
<1>1. worker \in [Workers -> Worker] /\ d \in Worker
  BY DEF TypeInv, TypeOK
<1>2. ASSUME c.pc = d.pc, c.doubt = d.doubt, c.result = d.result, ~Call(v)
      PROVE  /\ Harmless(c) => Harmless(d) /\ ~Call(v)
             /\ Waiting(c) => Waiting(d) /\ ~Call(v)
  BY <1>2 DEF Harmless, Waiting
<1>3. CASE Advances(v)
  BY <1>1, <1>3 DEF Advances, TakeAnswer, StopCalling, UnknownAnswer, Call, Harmless, Waiting,
                    Bound, TypeInv, ProperWorkers, Worker
<1>4. CASE Call(v)
  BY <1>4, CallEffect DEF Harmless, Waiting
<1>5. ASSUME NEW r \in wire, Handle(r)
      PROVE  /\ Harmless(c) =>
                   \/ Harmless(d) /\ ~Call(v)
                   \/ Waiting(d) /\ UNCHANGED providerVars /\ HandledAs(r) /\ r.key = KeyOf(v)
             /\ Waiting(c) => Waiting(d) /\ ~Call(v)
  <2>1. HandledAs(r) /\ UNCHANGED ledgerVars /\ wire' = wire \ {r}
    BY <1>5, HandleEffect DEF HandledAs
  <2>2. ~Call(v)
    BY <2>1 DEF Call
  <2>3. ASSUME NEW x, Replied(r, x), c # d
        PROVE  d.pc = "wait" /\ r.key = KeyOf(v) /\ c.pc = "settle" /\ c.doubt = d.doubt /\ c.result = x
    BY <1>1, <2>3 DEF Replied, Becomes
  <2>4. QED
    BY <2>1, <2>2, <2>3 DEF HandledAs, Harmless, Waiting
<1>6. ASSUME NEW w \in Workers, Leaves(w) \/ ReserveClaims(w)
      PROVE  c = d
  BY <1>1, <1>6, ReserveEffect DEF Leaves, Becomes, SameClaim, Holds
<1>7. ASSUME NEW w \in Workers, w # v, Advances(w) \/ Call(w)
      PROVE  c = d
  BY <1>1, <1>7, CallEffect DEF Advances, Becomes
<1>8. CASE ~Call(v) /\ c.pc = d.pc /\ c.doubt = d.doubt /\ c.result = d.result
  BY <1>2, <1>8
<1>9. \/ Call(v) \/ Advances(v) \/ \E r \in wire : Handle(r)
      \/ c.pc = d.pc /\ c.doubt = d.doubt /\ c.result = d.result
  BY <1>6, <1>7, NextCases, SettleEffect, SleepKeepsWorkers DEF Drops, ResolveRow, Enrol, vars
<1>10. QED
  BY <1>3, <1>4, <1>5, <1>8, <1>9

(* How a row comes to be called refused.                                   *)
LEMMA RefusalCases ==
  ASSUME TypeInv, [Next]_vars, NEW k \in Key, ledger'[k].status \in Refused
  PROVE  \/ ledger[k].status \in Refused
         \/ \E w \in Workers : /\ SettleClaim(w) /\ KeyOf(w) = k /\ Certain(k)
                              /\ Harmless(worker[w])
         \/ /\ accepted[k] = 0 /\ Quiet(k) /\ UNCHANGED <<worker, wire, providerVars>>
<1>1. ledger \in [Key -> Row]
  BY DEF TypeInv, TypeOK, LedgerTypeOK
<1>2. ASSUME NEW w \in Workers, ReserveClaims(w)
      PROVE  ledger[k].status \in Refused
  BY <1>1, <1>2, ReserveEffect DEF ClaimedAs, Refused
<1>3. ASSUME NEW w \in Workers, SettleClaim(w), ledger[k].status \notin Refused
      PROVE  KeyOf(w) = k /\ Certain(k) /\ Harmless(worker[w])
  <2>1. KeyOf(w) = k /\ ledger'[k] = SettledRow(ledger[k], worker[w].token, Want(w))
    BY <1>1, <1>3, SettleEffect DEF Settle
  <2>2. ledger[k].status = "reserved" /\ ~ledger[k].uncertain /\ Want(w) \in Refused
    BY <1>1, <1>3, <2>1, SettleEffect, SettledRowVerdict
  <2>3. QED
    BY <1>3, <2>1, <2>2, SettleEffect, WantMeans DEF Certain, Harmless
<1>4. ASSUME NEW j \in Key, ResolveRow(j), ledger[k].status \notin Refused
      PROVE  accepted[k] = 0 /\ Quiet(k) /\ UNCHANGED <<worker, wire, providerVars>>
  <2>1. j = k
    BY <1>1, <1>4 DEF ResolveRow, Resolve
  <2>2. ~Resolve(k, "sent")
    BY <1>1, <1>4 DEF Resolve, Refused, Row
  <2>3. QED
    BY <1>4, <2>1, <2>2 DEF ResolveRow
<1>5. CASE UNCHANGED ledger
  BY <1>5
<1>6. ASSUME NEW w \in Workers, Advances(w) \/ Call(w)
      PROVE  UNCHANGED ledger
  BY <1>6 DEF Advances, TakeAnswer, StopCalling, UnknownAnswer, Call, ledgerVars
<1>7. QED
  BY <1>2, <1>3, <1>4, <1>5, <1>6, NextCases
     DEF Drops, Handle, Enrol, SetOpen, Passes, Tick, vars, ledgerVars

LEMMA RefusalStep ==
  ASSUME TypeInv, ClaimInv, ProviderInv, RefusalInv, StickyUncertainty, CertainIsFirst,
         [Next]_vars
  PROVE  RefusalInv'
<1>1. LedgerTypeOK /\ [LedgerNext]_ledgerVars /\ accepted \in [Key -> Nat]
      /\ wire \subseteq Request
  BY LedgerStep DEF TypeInv, TypeOK
\* What changes at the key of a claim while its row stays certain.
<1>2. ASSUME NEW v \in Workers, Own(v), KeyOf(v)' = KeyOf(v), SameClaim(worker'[v], worker[v]),
             Certain(KeyOf(v))'
      PROVE  /\ Certain(KeyOf(v)) /\ KeyOf(v) \in Key
             /\ ~Call(v) => \A r \in wire' : r.key = KeyOf(v) => r \in wire
             /\ \/ accepted'[KeyOf(v)] = accepted[KeyOf(v)]
                \/ \E r \in wire : r.key = KeyOf(v) /\ wire' = wire \ {r}
  <2>1. KeyOf(v) \in Key /\ HasRow(KeyOf(v))
    BY <1>2, OwnKeyType DEF ClaimInv, ClaimsHaveRows
  <2>2. Certain(KeyOf(v))
    BY <1>1, <1>2, <2>1, CertainWas DEF Certain
  <2>3. ASSUME NEW w \in Workers, Call(w), KeyOf(w) = KeyOf(v)
        PROVE  w = v
    BY <1>2, <2>2, <2>3, OnlyClaim DEF Call, Own, Holds
  <2>4. ~Call(v) => \A r \in wire' : r.key = KeyOf(v) => r \in wire
    BY <2>3, WireCases
  <2>5. \/ accepted'[KeyOf(v)] = accepted[KeyOf(v)]
        \/ \E r \in wire : r.key = KeyOf(v) /\ wire' = wire \ {r}
    BY <1>1, <2>1, ProviderCases DEF Accepts, providerVars, Request
  <2>6. QED
    BY <2>1, <2>2, <2>4, <2>5
<1>3. ASSUME NEW v \in Workers, ReserveClaims(v), Certain(KeyOf(v))'
      PROVE  /\ accepted'[KeyOf(v)] = 0 /\ Unasked(KeyOf(v))' /\ worker'[v].pc = "answer"
             /\ KeyOf(v)' = KeyOf(v)
  <2>1. KeyOf(v) \in Key /\ ~HasRow(KeyOf(v)) /\ KeyOf(v)' = KeyOf(v)
    BY <1>1, <1>3, ReserveEffect
       DEF ClaimedAs, Certain, KeyOf, StickyUncertainty, Open
  <2>2. accepted[KeyOf(v)] = 0 /\ Unasked(KeyOf(v))
    BY <1>1, <2>1 DEF ProviderInv, AcceptedHasRow, ClaimInv, RequestsHaveRows, Unasked
  <2>3. QED
    BY <1>3, <2>1, <2>2, ReserveEffect DEF Unasked, providerVars
<1>4. HarmlessClaims'
  <2> SUFFICES ASSUME NEW v \in Workers, Own(v)', Certain(KeyOf(v))', Harmless(worker'[v])
               PROVE  accepted'[KeyOf(v)'] = 0 /\ Unasked(KeyOf(v))'
    BY DEF HarmlessClaims
  <2>1. CASE ReserveClaims(v)
    BY <1>3, <2>1
  <2>2. CASE SameClaim(worker'[v], worker[v]) /\ Own(v) /\ KeyOf(v)' = KeyOf(v)
    <3>1. /\ Certain(KeyOf(v)) /\ KeyOf(v) \in Key
          /\ ~Call(v) => \A r \in wire' : r.key = KeyOf(v) => r \in wire
          /\ \/ accepted'[KeyOf(v)] = accepted[KeyOf(v)]
             \/ \E r \in wire : r.key = KeyOf(v) /\ wire' = wire \ {r}
      BY <1>2, <2>2
    <3>2. CASE Harmless(worker[v]) /\ ~Call(v)
      <4>1. accepted[KeyOf(v)] = 0 /\ Unasked(KeyOf(v))
        BY <2>2, <3>1, <3>2 DEF RefusalInv, HarmlessClaims
      <4>2. QED
        BY <2>2, <3>1, <3>2, <4>1 DEF Unasked
    <3>3. ASSUME Waiting(worker[v]), UNCHANGED providerVars,
                 NEW r \in wire, HandledAs(r), r.key = KeyOf(v)
          PROVE  accepted'[KeyOf(v)] = 0 /\ \A q \in wire' : q.key # KeyOf(v)
      BY <2>2, <3>1, <3>3 DEF RefusalInv, WaitingClaims, HandledAs, providerVars
    <3>4. QED
      BY <2>2, <3>2, <3>3, HarmlessCases DEF Unasked
  <2>3. QED
    BY <2>1, <2>2, ClaimCases
<1>5. WaitingClaims'
  <2> SUFFICES ASSUME NEW v \in Workers, Own(v)', Certain(KeyOf(v))', Waiting(worker'[v]),
                      NEW r \in wire', r.key = KeyOf(v)'
               PROVE  /\ accepted'[KeyOf(v)'] = 0
                      /\ \A q \in wire' : q.key = KeyOf(v)' => q = r
    BY DEF WaitingClaims
  <2>1. CASE ReserveClaims(v)
    BY <1>3, <2>1 DEF Waiting
  <2>2. CASE SameClaim(worker'[v], worker[v]) /\ Own(v) /\ KeyOf(v)' = KeyOf(v)
    <3>1. /\ Certain(KeyOf(v)) /\ KeyOf(v) \in Key
          /\ ~Call(v) => \A q \in wire' : q.key = KeyOf(v) => q \in wire
          /\ \/ accepted'[KeyOf(v)] = accepted[KeyOf(v)]
             \/ \E q \in wire : q.key = KeyOf(v) /\ wire' = wire \ {q}
      BY <1>2, <2>2
    <3>2. CASE Waiting(worker[v]) /\ ~Call(v)
      <4>1. r \in wire /\ \A q \in wire : q.key = KeyOf(v) => accepted[KeyOf(v)] = 0 /\ q = r
        BY <2>2, <3>1, <3>2 DEF RefusalInv, WaitingClaims
      <4>2. QED
        BY <2>2, <3>1, <3>2, <4>1
    <3>3. CASE Harmless(worker[v]) /\ Call(v)
      <4>1. accepted[KeyOf(v)] = 0 /\ Unasked(KeyOf(v))
        BY <2>2, <3>1, <3>3 DEF RefusalInv, HarmlessClaims
      <4>2. accepted' = accepted /\ \E ask : wire' = wire \cup {ask}
        BY <3>3, CallEffect DEF providerVars
      <4>3. QED
        BY <2>2, <4>1, <4>2 DEF Unasked
    <3>4. QED
      BY <2>2, <3>2, <3>3, HarmlessCases
  <2>3. QED
    BY <2>1, <2>2, ClaimCases
<1>6. RefusedIsOver'
  <2> SUFFICES ASSUME NEW k \in Key, ledger'[k].status \in Refused
               PROVE  accepted'[k] = 0 /\ Quiet(k)'
    BY DEF RefusedIsOver
  <2>1. ASSUME NEW w \in Workers, Own(w)', KeyOf(w)' = k
        PROVE  Own(w) /\ KeyOf(w) = k
    <3>1. ReserveClaims(w) => ledger'[k].status = "reserved"
      BY <2>1, ReserveEffect DEF ClaimedAs, KeyOf
    <3>2. QED
      BY <2>1, <3>1, ClaimCases DEF Refused
  <2>2. Quiet(k) <=> (Unasked(k) /\ \A w \in Workers : ~(Own(w) /\ KeyOf(w) = k))
    BY DEF Quiet, Unasked, Claiming, Own, Holds
  <2>3. Quiet(k)' <=> (Unasked(k)' /\ \A w \in Workers : ~(Own(w)' /\ KeyOf(w)' = k))
    BY DEF Quiet, Unasked, Claiming, Own, Holds, KeyOf
  <2>4. CASE ledger[k].status \in Refused
    <3>1. accepted[k] = 0 /\ Quiet(k)
      BY <2>4 DEF RefusalInv, RefusedIsOver
    <3>2. accepted'[k] = 0
      BY <1>1, <2>2, <3>1, ProviderCases DEF Accepts, Unasked, providerVars, Request
    <3>3. Unasked(k)'
      BY <2>2, <3>1, WireCases DEF Unasked, Call, Own, Holds
    <3>4. QED
      BY <2>1, <2>2, <2>3, <3>1, <3>2, <3>3
  <2>5. ASSUME NEW v \in Workers, SettleClaim(v), KeyOf(v) = k, Certain(k), Harmless(worker[v])
        PROVE  accepted'[k] = 0 /\ Quiet(k)'
    <3>1. Own(v) /\ ~Own(v)' /\ UNCHANGED <<wire, providerVars>>
      BY <2>5, SettleEffect DEF Own, Holds, Leaves, Becomes, TypeInv, TypeOK
    <3>2. accepted[k] = 0 /\ Unasked(k)
      BY <2>5, <3>1 DEF RefusalInv, HarmlessClaims
    <3>3. \A w \in Workers : ~(Own(w)' /\ KeyOf(w)' = k)
      BY <2>1, <2>5, <3>1, OnlyClaim
    <3>4. QED
      BY <2>3, <3>1, <3>2, <3>3 DEF Unasked, providerVars
  <2>6. CASE accepted[k] = 0 /\ Quiet(k) /\ UNCHANGED <<worker, wire, providerVars>>
    BY <2>1, <2>2, <2>3, <2>6 DEF Unasked, providerVars
  <2>7. QED
    BY <2>4, <2>5, <2>6, RefusalCases
<1>7. QED
  BY <1>4, <1>5, <1>6 DEF RefusalInv

LEMMA RefusalInvHolds == Spec => []RefusalInv
<1>1. Init => RefusalInv
  BY DEF Init, LedgerInit, NoRow, RefusalInv, HarmlessClaims, WaitingClaims, RefusedIsOver,
         Own, Holds, Idle, Refused
<1>2. TypeInv /\ ClaimInv /\ ProviderInv /\ RefusalInv /\ StickyUncertainty /\ CertainIsFirst
        /\ [Next]_vars => RefusalInv'
  BY RefusalStep
<1>3. QED
  BY <1>1, <1>2, SenderTypeInv, ClaimInvHolds, ProviderInvHolds, SenderFollowsLedger,
     StickyUncertaintyHolds, CertainIsFirstHolds, PTL DEF Spec

(* What the ledger calls sent was accepted, and what it calls failed or     *)
(* released was not and never will be.                                     *)
THEOREM LedgerTellsTheTruthHolds == Spec => []LedgerTellsTheTruth
<1>1. ProviderInv /\ RefusalInv => LedgerTellsTheTruth
  BY DEF ProviderInv, SentIsTrue, RefusalInv, RefusedIsOver, LedgerTellsTheTruth
<1>2. QED
  BY <1>1, ProviderInvHolds, RefusalInvHolds, PTL

-----------------------------------------------------------------------------
(* Between the keys of one mail.                                           *)

(* A refused row never changes again: nobody is left to settle it.         *)
LEMMA RefusedStays ==
  ASSUME TypeInv, RefusalInv, [Next]_vars, NEW k \in Key, ledger[k].status \in Refused
  PROVE  ledger'[k] = ledger[k]
<1>1. ledger \in [Key -> Row] /\ Quiet(k)
  BY DEF TypeInv, TypeOK, LedgerTypeOK, RefusalInv, RefusedIsOver
<1>2. ASSUME NEW w \in Workers, ReserveClaims(w)
      PROVE  ledger'[k] = ledger[k]
  BY <1>1, <1>2, ReserveEffect DEF ClaimedAs, HasRow, Open, Refused
<1>3. ASSUME NEW w \in Workers, SettleClaim(w)
      PROVE  ledger'[k] = ledger[k]
  BY <1>1, <1>3, SettleEffect DEF Settle, Quiet, Claiming
<1>4. ASSUME NEW j \in Key, ResolveRow(j)
      PROVE  ledger'[k] = ledger[k]
  BY <1>1, <1>4 DEF ResolveRow, Resolve, Open, Refused
<1>5. CASE UNCHANGED ledger
  BY <1>5
<1>6. ASSUME NEW w \in Workers, Advances(w) \/ Call(w)
      PROVE  UNCHANGED ledger
  BY <1>6 DEF Advances, TakeAnswer, StopCalling, UnknownAnswer, Call, ledgerVars
<1>7. QED
  BY <1>2, <1>3, <1>4, <1>5, <1>6, NextCases
     DEF Drops, Handle, Enrol, SetOpen, Passes, Tick, vars, ledgerVars

LEMMA OneLiveKeyStep ==
  ASSUME TypeInv, ClaimInv, ProviderInv, RefusalInv, RefusalInv', OneLiveKey, [Next]_vars
  PROVE  OneLiveKey'
<1> SUFFICES ASSUME NEW j \in Key, NEW k \in Key, MailOf(j) = MailOf(k), j # k,
                    HasRow(j)', HasRow(k)', ledger'[j].status \notin Refused
             PROVE  ledger'[k].status = "failed" /\ Quiet(k)'
  BY DEF OneLiveKey
<1>1. LedgerTypeOK /\ [LedgerNext]_ledgerVars
  BY LedgerStep DEF TypeInv, TypeOK
<1>2. ASSUME ledger[k].status = "failed"
      PROVE  ledger'[k].status = "failed" /\ Quiet(k)'
  <2>1. ledger'[k].status = "failed"
    BY <1>2, RefusedStays DEF Refused
  <2>2. QED
    BY <2>1 DEF RefusalInv, RefusedIsOver, Refused
<1>3. CASE HasRow(j) /\ HasRow(k)
  <2>1. ledger[j].status \notin Refused
    BY RefusedStays
  <2>2. QED
    BY <1>2, <1>3, <2>1 DEF OneLiveKey
<1>4. CASE ~HasRow(j)
  <2>1. HasRow(k)
    <3>1. PICK i \in Key, p \in Payloads : Insert(i, p)
      BY <1>1, <1>4, RowsKept
    <3>2. i = j
      BY <1>1, <1>4, <3>1 DEF Insert, HasRow, LedgerTypeOK
    <3>3. QED
      BY <1>1, <3>1, <3>2 DEF Insert, HasRow, LedgerTypeOK
  <2>2. ledger[k].status = "failed"
    BY <1>1, <1>4, <2>1, NewKeyStep DEF RowsOf
  <2>3. QED
    BY <1>2, <2>2
<1>5. CASE HasRow(j) /\ ~HasRow(k)
  <2>1. ledger[j].status = "failed"
    BY <1>1, <1>5, NewKeyStep DEF RowsOf
  <2>2. ledger'[j].status = "failed"
    BY <2>1, RefusedStays DEF Refused
  <2>3. QED
    BY <2>2 DEF Refused
<1>6. QED
  BY <1>3, <1>4, <1>5

(* At any time at most one key of a logical mail can still be accepted: its *)
(* other keys are refused, with no claim and no request left.              *)
THEOREM OneLiveKeyHolds == Spec => []OneLiveKey
<1>1. Init => OneLiveKey
  BY DEF Init, LedgerInit, NoRow, OneLiveKey, HasRow
<1>2. TypeInv /\ ClaimInv /\ ProviderInv /\ RefusalInv /\ RefusalInv' /\ OneLiveKey /\ [Next]_vars
        => OneLiveKey'
  BY OneLiveKeyStep
<1>3. QED
  BY <1>1, <1>2, SenderTypeInv, ClaimInvHolds, ProviderInvHolds, RefusalInvHolds, PTL DEF Spec

(* So two keys of one mail are never both accepted, whatever the clocks do. *)
OneKeyAccepted == \A j, k \in Key :
  (MailOf(j) = MailOf(k) /\ accepted[j] > 0 /\ accepted[k] > 0) => j = k

LEMMA OneKeyAcceptedHolds ==
  ASSUME TypeInv, ProviderInv, RefusalInv, OneLiveKey
  PROVE  OneKeyAccepted
<1> SUFFICES ASSUME NEW j \in Key, NEW k \in Key, MailOf(j) = MailOf(k),
                    accepted[j] > 0, accepted[k] > 0, j # k
             PROVE  FALSE
  BY DEF OneKeyAccepted
<1>1. HasRow(j) /\ HasRow(k)
  BY DEF ProviderInv, AcceptedHasRow
<1>2. ledger[j].status \notin Refused /\ ledger[k].status \notin Refused
  BY DEF RefusalInv, RefusedIsOver
<1>3. QED
  BY <1>1, <1>2 DEF OneLiveKey, Refused

-----------------------------------------------------------------------------
(* The window.  A worker whose clock runs never calls so late that the      *)
(* provider could have forgotten the key.                                  *)

RowClock    == \A k \in Key : HasRow(k) =>
  /\ ledger[k].first <= now
  /\ stored[k] # NoTime => ledger[k].first <= stored[k] /\ stored[k] <= now
RequestClock == \A r \in wire : /\ r.at <= now /\ now <= r.at + CallTime
                               /\ r.at + CallTime < ledger[r.key].first + Window
\* What is left of the window was read at the reserve call, or there is nothing left.
AnswerClock == \A w \in Workers : worker[w].pc = "answer" =>
  /\ worker[w].since <= now
  /\ \/ worker[w].left = 0
     \/ worker[w].since + worker[w].left = ledger[KeyOf(w)].first + Window
\* The deadline leaves a request the time to arrive, or no request is made.
CallClock   == \A w \in Workers : worker[w].pc \in {"call", "wait"} =>
  \/ worker[w].deadline <= now
  \/ worker[w].deadline + CallTime <= ledger[KeyOf(w)].first + Window
ClockInv == RowClock /\ RequestClock /\ AnswerClock /\ CallClock

LEMMA ClockCases ==
  ASSUME TypeInv, [Next]_vars
  PROVE  /\ now \in Nat /\ now' \in Nat /\ now <= now'
         /\ now' # now => Passes
<1>1. now \in Nat /\ now' \in Nat
  BY TypeStep DEF TypeInv, TypeOK, LedgerTypeOK
<1>2. now' # now => Passes
  BY NextCases, ReserveEffect, SettleEffect, CallEffect
     DEF Drops, Advances, TakeAnswer, StopCalling, UnknownAnswer, Handle, ResolveRow, Resolve,
         Settle, Enrol, SetOpen, vars, ledgerVars
<1>3. Passes => now' = now + 1
  BY DEF Passes, Tick
<1>4. QED
  BY <1>1, <1>2, <1>3

\* What a worker whose machine does not sleep keeps of its times.
LEMMA DeadlineCases ==
  ASSUME ~Sleeps, TypeInv, [Next]_vars, NEW v \in Workers
  PROVE  /\ worker'[v].pc = "answer" => worker'[v] = worker[v] \/ ReserveClaims(v)
         /\ worker'[v].pc \in {"call", "wait"} =>
              \/ TakeAnswer(v)
              \/ /\ worker[v].pc \in {"call", "wait"} /\ KeyOf(v)' = KeyOf(v)
                 /\ worker'[v].deadline = worker[v].deadline
<1> DEFINE Kept == \/ worker'[v] = worker[v]
                   \/ worker'[v].pc \notin {"answer", "call", "wait"}
                   \/ ReserveClaims(v) /\ worker'[v].pc = "answer"
                   \/ TakeAnswer(v) /\ worker'[v].pc = "call"
                   \/ /\ worker'[v].pc \in {"call", "wait"}
                      /\ worker[v].pc \in {"call", "wait"} /\ KeyOf(v)' = KeyOf(v)
                      /\ worker'[v].deadline = worker[v].deadline
<1>1. worker \in [Workers -> Worker]
  BY DEF TypeInv, TypeOK
<1>2. ASSUME NEW w \in Workers, Leaves(w)
      PROVE  Kept
  BY <1>1, <1>2 DEF Leaves, Becomes, Holds
<1>3. ASSUME NEW w \in Workers, Advances(w)
      PROVE  Kept
  <2>1. CASE w # v
    BY <1>1, <1>3, <2>1 DEF Advances, Becomes
  <2>2. CASE w = v
    BY <1>1, <1>3, <2>2 DEF Advances, TakeAnswer, StopCalling, UnknownAnswer, Worker, KeyOf
  <2>3. QED
    BY <2>1, <2>2
<1>4. ASSUME NEW w \in Workers, ReserveClaims(w)
      PROVE  Kept
  BY <1>1, <1>4, ReserveEffect DEF Becomes
<1>5. ASSUME NEW w \in Workers, Call(w)
      PROVE  Kept
  BY <1>1, <1>5, CallEffect DEF Becomes, SameClaim, KeyOf
<1>6. ASSUME NEW r \in wire, Handle(r)
      PROVE  Kept
  BY <1>1, <1>6, HandleEffect DEF HandledAs, Replied, Becomes
<1>7. Passes => Kept
  BY DEF Passes, PassTime, Sleep
<1>8. Kept
  BY <1>2, <1>3, <1>4, <1>5, <1>6, <1>7, NextCases, SettleEffect DEF Drops, ResolveRow, Enrol, vars
<1>9. QED
  BY <1>8 DEF KeyOf

LEMMA ClockStep ==
  ASSUME ~Sleeps, TypeInv, ClaimInv, ClaimInv', ProviderInv, ClockInv, [Next]_vars
  PROVE  ClockInv'
<1>1. LedgerTypeOK /\ [LedgerNext]_ledgerVars /\ wire \subseteq Request
      /\ stored \in [Key -> Nat \cup {NoTime}] /\ now \in Nat /\ now' \in Nat /\ now <= now'
      /\ worker \in [Workers -> Worker]
  BY LedgerStep, ClockCases DEF TypeInv, TypeOK
<1>2. ledger' \in [Key -> Row] /\ stored' \in [Key -> Nat \cup {NoTime}] /\ wire' \subseteq Request
      /\ worker' \in [Workers -> Worker]
  BY TypeStep DEF TypeInv, TypeOK, LedgerTypeOK
<1>3. ASSUME NEW k \in Key, HasRow(k)
      PROVE  ledger'[k].first = ledger[k].first /\ ledger[k].first \in Nat
  BY <1>1, <1>3, RowsGrow DEF LedgerTypeOK, Row
<1>4. RowClock'
  <2> SUFFICES ASSUME NEW k \in Key, HasRow(k)'
               PROVE  /\ ledger'[k].first <= now'
                      /\ stored'[k] # NoTime => ledger'[k].first <= stored'[k] /\ stored'[k] <= now'
    BY DEF RowClock
  <2>1. CASE HasRow(k)
    <3>1. stored'[k] = stored[k] \/ stored'[k] = now
      BY <1>1, ProviderCases DEF Accepts, providerVars, Request
    <3>2. QED
      BY <1>1, <1>2, <1>3, <2>1, <3>1 DEF ClockInv, RowClock, NoTime
  <2>2. CASE ~HasRow(k)
    <3>1. stored[k] = NoTime
      BY <2>2 DEF ProviderInv, AcceptedHasRow
    <3>2. stored'[k] = stored[k]
      BY <1>1, <2>2, ProviderCases DEF Accepts, providerVars, Request, ClaimInv, RequestsHaveRows
    <3>3. PICK i \in Key, p \in Payloads : Insert(i, p)
      BY <1>1, <2>2, RowsKept
    <3>4. ledger'[k].first = now
      BY <1>1, <2>2, <3>3 DEF Insert, InsertedRow, NoRow, HasRow, LedgerTypeOK
    <3>5. QED
      BY <1>1, <3>1, <3>2, <3>4
  <2>3. QED
    BY <2>1, <2>2
<1>5. RequestClock'
  <2> SUFFICES ASSUME NEW r \in wire'
               PROVE  /\ r.at <= now' /\ now' <= r.at + CallTime
                      /\ r.at + CallTime < ledger'[r.key].first + Window
    BY DEF RequestClock
  <2>0. r.at \in Nat /\ r.key \in Key /\ CallTime \in Nat /\ Window \in Nat
    BY <1>2, SenderAssumption, LedgerAssumption DEF Request
  <2>1. CASE r \in wire
    <3>1. ledger'[r.key].first = ledger[r.key].first
      BY <1>3, <2>0, <2>1 DEF ClaimInv, RequestsHaveRows
    <3>2. r.at <= now /\ now <= r.at + CallTime /\ r.at + CallTime < ledger[r.key].first + Window
      BY <2>1 DEF ClockInv, RequestClock
    <3>3. now' # now => r.at + CallTime > now /\ now' = now + 1
      BY ClockCases DEF Passes, Arriving, Tick
    <3>4. QED
      BY <1>1, <2>0, <3>1, <3>2, <3>3
  <2>2. ASSUME NEW w \in Workers, Call(w), r.key = KeyOf(w), r.at = now
        PROVE  /\ r.at <= now' /\ now' <= r.at + CallTime
               /\ r.at + CallTime < ledger'[r.key].first + Window
    <3>1. now' = now /\ ledger' = ledger /\ worker[w].pc = "call" /\ now < worker[w].deadline
      BY <2>2, CallEffect DEF ledgerVars, MayCall
    <3>2. worker[w].deadline \in Int /\ ledger[r.key].first \in Nat
      BY <1>1, <2>0 DEF Worker, LedgerTypeOK, Row
    <3>3. worker[w].deadline + CallTime <= ledger[r.key].first + Window
      BY <1>1, <2>2, <3>1, <3>2 DEF ClockInv, CallClock
    <3>4. QED
      BY <1>1, <2>0, <2>2, <3>1, <3>2, <3>3
  <2>3. QED
    BY <2>1, <2>2, WireCases
<1>6. AnswerClock'
  <2> SUFFICES ASSUME NEW w \in Workers, worker'[w].pc = "answer"
               PROVE  /\ worker'[w].since <= now'
                      /\ \/ worker'[w].left = 0
                         \/ worker'[w].since + worker'[w].left = ledger'[KeyOf(w)'].first + Window
    BY DEF AnswerClock
  <2>1. CASE worker'[w] = worker[w]
    <3>1. KeyOf(w)' = KeyOf(w) /\ KeyOf(w) \in Key /\ HasRow(KeyOf(w))
      BY <2>1, OwnKeyType DEF KeyOf, Own, Holds, ClaimInv, ClaimsHaveRows
    <3>2. worker[w].since \in Nat
      BY <1>1 DEF Worker
    <3>3. QED
      BY <1>1, <1>3, <2>1, <3>1, <3>2 DEF ClockInv, AnswerClock
  <2>2. CASE ReserveClaims(w)
    <3> DEFINE s == ledger'[KeyOf(w)]
    <3>1. /\ KeyOf(w)' = KeyOf(w) /\ now' = now
          /\ worker'[w].since = now /\ worker'[w].left = SecondsLeft(s)
      BY <2>2, ReserveEffect DEF KeyOf
    <3>2. s.first \in Nat
      BY <1>2, <2>2, ReserveEffect DEF Row
    <3>3. SecondsLeft(s) = 0 \/ now + SecondsLeft(s) = s.first + Window
      BY <1>1, <3>2, LedgerAssumption DEF SecondsLeft
    <3>4. QED
      BY <1>1, <3>1, <3>3
  <2>3. QED
    BY <2>1, <2>2, DeadlineCases
<1>7. CallClock'
  <2> SUFFICES ASSUME NEW w \in Workers, worker'[w].pc \in {"call", "wait"}
               PROVE  \/ worker'[w].deadline <= now'
                      \/ worker'[w].deadline + CallTime <= ledger'[KeyOf(w)'].first + Window
    BY DEF CallClock
  <2>0. worker[w] \in Worker /\ worker[w].deadline \in Int /\ worker[w].since \in Nat
        /\ worker[w].left \in Nat
    BY <1>1 DEF Worker
  <2>1. CASE worker[w].pc \in {"call", "wait"} /\ KeyOf(w)' = KeyOf(w)
             /\ worker'[w].deadline = worker[w].deadline
    <3>1. KeyOf(w) \in Key /\ HasRow(KeyOf(w))
      BY <2>1, OwnKeyType DEF Own, Holds, ClaimInv, ClaimsHaveRows
    <3>2. QED
      BY <1>1, <1>3, <2>0, <2>1, <3>1 DEF ClockInv, CallClock
  <2>2. CASE TakeAnswer(w)
    <3>1. /\ worker[w].pc = "answer" /\ now - worker[w].since <= RpcTime
          /\ worker'[w].deadline = now + worker[w].left - Margin
          /\ KeyOf(w)' = KeyOf(w) /\ now' = now /\ ledger' = ledger
      BY <1>1, <2>0, <2>2 DEF TakeAnswer, KeyOf, Worker, ledgerVars
    <3>2. KeyOf(w) \in Key /\ ledger[KeyOf(w)].first \in Nat
      BY <1>3, <3>1, OwnKeyType DEF Own, Holds, ClaimInv, ClaimsHaveRows
    <3>3. /\ worker[w].since <= now
          /\ \/ worker[w].left = 0
             \/ worker[w].since + worker[w].left = ledger[KeyOf(w)].first + Window
      BY <3>1 DEF ClockInv, AnswerClock
    <3>4. QED
      BY <1>1, <2>0, <3>1, <3>2, <3>3, SenderAssumption, LedgerAssumption
  <2>3. QED
    BY <2>1, <2>2, DeadlineCases
<1>8. QED
  BY <1>4, <1>5, <1>6, <1>7 DEF ClockInv

LEMMA ClockInvHolds ==
  ASSUME ~Sleeps
  PROVE  Spec => []ClockInv
<1>1. Init => ClockInv
  BY DEF Init, LedgerInit, NoRow, HasRow, ClockInv, RowClock, RequestClock, AnswerClock, CallClock, Idle
<1>2. TypeInv /\ ClaimInv /\ ClaimInv' /\ ProviderInv /\ ClockInv /\ [Next]_vars => ClockInv'
  BY ClockStep
<1>3. QED
  BY <1>1, <1>2, SenderTypeInv, ClaimInvHolds, ProviderInvHolds, PTL DEF Spec

(* A worker whose machine does not sleep never has a request arrive after   *)
(* the same-key window of its row, for every margin that covers the two     *)
(* delays.                                                                 *)
THEOREM NoCallAfterWindowHolds ==
  ASSUME ~Sleeps
  PROVE  Spec => []NoCallAfterWindow
<1>1. ClockInv => NoCallAfterWindow
  BY DEF ClockInv, RequestClock, NoCallAfterWindow
<1>2. QED
  BY <1>1, ClockInvHolds, PTL

(* Within the window the provider still remembers what it accepted.        *)
AcceptedOnce == \A k \in Key : accepted[k] <= 1

LEMMA AcceptedOnceStep ==
  ASSUME TypeInv, ClaimInv, ProviderInv, ClockInv, AcceptedOnce, [Next]_vars
  PROVE  AcceptedOnce'
<1> SUFFICES ASSUME NEW k \in Key
             PROVE  accepted'[k] <= 1
  BY DEF AcceptedOnce
<1>1. /\ accepted \in [Key -> Nat] /\ stored \in [Key -> Nat \cup {NoTime}] /\ now \in Nat
      /\ wire \subseteq Request /\ ledger[k].first \in Nat
  BY DEF TypeInv, TypeOK, LedgerTypeOK, Row
<1>2. CASE UNCHANGED providerVars
  BY <1>2 DEF AcceptedOnce, providerVars
<1>3. ASSUME NEW r \in wire, Accepts(r), r.key = k
      PROVE  accepted'[k] <= 1
  <2>1. SUFFICES ASSUME accepted[k] > 0
                 PROVE  FALSE
    BY <1>1, <1>3 DEF Accepts
  <2>2. HasRow(k) /\ stored[k] # NoTime
    BY <2>1 DEF ProviderInv, AcceptedHasRow
  <2>3. ledger[k].first <= stored[k]
    BY <2>2 DEF ClockInv, RowClock
  <2>4. now <= r.at + CallTime /\ r.at + CallTime < ledger[k].first + Window /\ r.at \in Nat
    BY <1>1, <1>3 DEF ClockInv, RequestClock, Request
  <2>5. now - stored[k] <= Store
    BY <1>1, <2>2, <2>3, <2>4, SenderAssumption, LedgerAssumption DEF NoTime
  <2>6. QED
    BY <1>3, <2>2, <2>5 DEF Accepts, Remembers
<1>4. ASSUME NEW r \in wire, Accepts(r), r.key # k
      PROVE  accepted'[k] <= 1
  BY <1>1, <1>4 DEF Accepts, AcceptedOnce
<1>5. QED
  BY <1>2, <1>3, <1>4, ProviderCases

LEMMA AcceptedOnceHolds ==
  ASSUME ~Sleeps
  PROVE  Spec => []AcceptedOnce
<1>1. Init => AcceptedOnce
  BY DEF Init, AcceptedOnce
<1>2. TypeInv /\ ClaimInv /\ ProviderInv /\ ClockInv /\ AcceptedOnce /\ [Next]_vars => AcceptedOnce'
  BY AcceptedOnceStep
<1>3. QED
  BY <1>1, <1>2, SenderTypeInv, ClaimInvHolds, ProviderInvHolds, ClockInvHolds, PTL DEF Spec

(* One logical mail never earns two provider acceptances: not under two     *)
(* keys, and on a machine that does not sleep not twice under one, for any  *)
(* number of overlapping, crashing or late runs of the worker.             *)
THEOREM AtMostOneAcceptanceHolds ==
  ASSUME ~Sleeps
  PROVE  Spec => []AtMostOneAcceptance
<1>1. TypeInv /\ AcceptedOnce /\ OneKeyAccepted => AtMostOneAcceptance
  BY DEF TypeInv, TypeOK, AcceptedOnce, OneKeyAccepted, AtMostOneAcceptance
<1>2. TypeInv /\ ProviderInv /\ RefusalInv /\ OneLiveKey => OneKeyAccepted
  BY OneKeyAcceptedHolds
<1>3. QED
  BY <1>1, <1>2, SenderTypeInv, ProviderInvHolds, RefusalInvHolds, OneLiveKeyHolds,
     AcceptedOnceHolds, PTL

-----------------------------------------------------------------------------
(* The worker implements OnceMail.                                         *)

LEMMA DeliveredMeans ==
  ASSUME TypeInv, NEW m \in Mails
  PROVE  Once!Delivered(m) <=> \E k \in Key : MailOf(k) = m /\ accepted[k] > 0
<1>1. accepted \in [Key -> Nat]
  BY DEF TypeInv, TypeOK
<1>2. ASSUME NEW k \in Key, MailOf(k) = m, accepted[k] > 0
      PROVE  Once!Delivered(m)
  <2>1. 1 \in 1..accepted[k]
    BY <1>1, <1>2
  <2>2. <<MailOf(k), <<k, 1>>>> \in Acceptances
    BY <2>1 DEF Acceptances
  <2>3. QED
    BY <1>2, <2>2 DEF Once!Delivered
<1>3. ASSUME Once!Delivered(m)
      PROVE  \E k \in Key : MailOf(k) = m /\ accepted[k] > 0
  <2>1. PICK d \in Acceptances : d[1] = m
    BY <1>3 DEF Once!Delivered
  <2>2. PICK k \in Key : \E n \in 1..accepted[k] : d = <<MailOf(k), <<k, n>>>>
    BY DEF Acceptances
  <2>3. QED
    BY <1>1, <2>1, <2>2
<1>4. QED
  BY <1>2, <1>3

LEMMA AcceptancesAre ==
  \A x : x \in Acceptances <=>
         \E k \in Key : \E n \in 1..accepted[k] : x = <<MailOf(k), <<k, n>>>>
BY DEF Acceptances

(* An acceptance of a mail that had none is the abstract delivery.         *)
LEMMA AcceptDelivers ==
  ASSUME TypeInv, AtMostOneAcceptance', NEW r \in wire, Accepts(r)
  PROVE  \E m \in Mails : Once!Deliver(m)
<1> DEFINE k == r.key  m == MailOf(k)  d == <<m, <<k, 1>>>>
<1>1. /\ k \in Key /\ m \in Mails /\ accepted \in [Key -> Nat]
      /\ accepted' = [accepted EXCEPT ![k] = accepted[k] + 1] /\ UNCHANGED ledgerVars
  BY DEF TypeInv, TypeOK, Request, Accepts, Key, MailOf
<1>2. accepted[k] = 0 /\ accepted'[k] = 1
  BY <1>1 DEF AtMostOneAcceptance
<1>3. ~Once!Delivered(m)
  BY <1>1, <1>2, DeliveredMeans DEF AtMostOneAcceptance
<1>4. \A x : x \in Acceptances' <=>
          \E j \in Key : \E n \in 1..accepted'[j] : x = <<MailOf(j), <<j, n>>>>
  BY DEF Acceptances
<1>5. \A j \in Key \ {k} : accepted'[j] = accepted[j]
  BY <1>1
<1>6. Acceptances' = Acceptances \cup {d}
  <2>1. ASSUME NEW x \in Acceptances'
        PROVE  x \in Acceptances \cup {d}
    BY <1>2, <1>4, <1>5, AcceptancesAre
  <2>2. ASSUME NEW x \in Acceptances
        PROVE  x \in Acceptances'
    <3>1. PICK j \in Key : \E n \in 1..accepted[j] : x = <<MailOf(j), <<j, n>>>>
      BY AcceptancesAre
    <3>2. j # k
      BY <1>2, <3>1
    <3>3. QED
      BY <1>4, <1>5, <3>1, <3>2
  <2>3. d \in Acceptances'
    <3>1. 1 \in 1..accepted'[k]
      BY <1>2
    <3>2. QED
      BY <1>1, <1>4, <3>1
  <2>4. QED
    BY <2>1, <2>2, <2>3
<1>7. ReportedSent' = ReportedSent
  BY <1>1 DEF ReportedSent, Sibling, RowsOf, HasRow, ledgerVars
<1>8. \E e \in Acceptances' : e[1] = m /\ Acceptances' = Acceptances \cup {e}
  BY <1>6
<1>9. QED
  BY <1>1, <1>3, <1>7, <1>8 DEF Once!Deliver

(* A row that newly says sent is the abstract report.                      *)
LEMMA SentReports ==
  ASSUME TypeInv, LedgerTellsTheTruth', [Next]_vars, UNCHANGED providerVars
  PROVE  UNCHANGED <<Acceptances, ReportedSent>> \/ \E m \in Mails : Once!Report(m)
<1>1. LedgerTypeOK /\ [LedgerNext]_ledgerVars /\ accepted \in [Key -> Nat]
  BY LedgerStep DEF TypeInv, TypeOK
<1>2. Acceptances' = Acceptances /\ accepted' = accepted
  BY DEF Acceptances, providerVars
<1> DEFINE Says(m) == \E k \in Key : MailOf(k) = m /\ ledger[k].status = "sent"
<1>3. /\ \A m \in Mails : m \in ReportedSent <=> Says(m)
      /\ \A m \in Mails : m \in ReportedSent' <=> Says(m)'
      /\ ReportedSent \subseteq Mails /\ ReportedSent' \subseteq Mails
  BY DEF ReportedSent, Sibling, RowsOf, HasRow
<1>4. \A m \in Mails : Says(m) => Says(m)'
  BY <1>1, SentStays
<1>5. CASE ReportedSent' = ReportedSent
  BY <1>2, <1>5
<1>6. CASE ReportedSent' # ReportedSent
  <2>1. PICK m \in Mails : Says(m)' /\ ~Says(m)
    BY <1>3, <1>4, <1>6
  <2>2. PICK k \in Key : MailOf(k) = m /\ ledger'[k].status = "sent" /\ ledger[k].status # "sent"
    BY <2>1
  <2>3. \A j \in Key \ {k} : ledger'[j] = ledger[j]
    BY <1>1, <2>2, OneRowPerStep
  <2>4. \A x \in Mails : Says(x)' => Says(x) \/ x = m
    BY <2>2, <2>3
  <2>5. ReportedSent' = ReportedSent \cup {m}
    BY <1>3, <1>4, <2>1, <2>4
  <2>6. accepted[k] > 0
    BY <1>2, <2>2 DEF LedgerTellsTheTruth
  <2>7. Once!Delivered(m)
    BY <2>2, <2>6, DeliveredMeans
  <2>8. QED
    BY <1>2, <2>5, <2>7 DEF Once!Report
<1>7. QED
  BY <1>5, <1>6

(* Seen from outside the worker keeps OnceMail's promise: one acceptance    *)
(* per mail, and a report only after it and for good.                      *)
THEOREM SenderImplementsOnceMail ==
  ASSUME ~Sleeps
  PROVE  Spec => ImplementsOnceMail
<1>1. Init => Once!OnceInit
  <2> SUFFICES ASSUME Init
               PROVE  Acceptances = {} /\ ReportedSent = {}
    BY DEF Once!OnceInit
  <2>1. Acceptances = {}
    BY DEF Init, Acceptances
  <2>2. ReportedSent = {}
    BY DEF Init, LedgerInit, NoRow, ReportedSent, Sibling, RowsOf, HasRow
  <2>3. QED
    BY <2>1, <2>2
<1>2. TypeInv /\ LedgerTellsTheTruth' /\ AtMostOneAcceptance' /\ [Next]_vars
        => [Once!OnceNext]_<<Acceptances, ReportedSent>>
  BY ProviderCases, AcceptDelivers, SentReports DEF Once!OnceNext
<1>3. QED
  BY <1>1, <1>2, SenderTypeInv, LedgerTellsTheTruthHolds, AtMostOneAcceptanceHolds, PTL
     DEF Spec, ImplementsOnceMail, Once!OnceSpec

-----------------------------------------------------------------------------
(* The share of the provider's account.                                    *)

Counted(span) == {k \in Key : Counts(ledger[k], span)}
CountedOK(span, cap) == IsFiniteSet(Counted(span)) /\ Cardinality(Counted(span)) <= cap
BudgetInv == CountedOK(Day, DayCap) /\ CountedOK(Month, MonthCap)

LEMMA CountsLater ==
  ASSUME NEW r \in Row, NEW span \in Nat, now \in Nat, now' \in Nat, now <= now',
         Counts(r, span)'
  PROVE  Counts(r, span)
<1>1. LatestActivity(r) \in Int
  BY DEF LatestActivity, Row, NoTime
<1>2. QED
  BY <1>1 DEF Counts, LatestActivity

\* A row that starts to count is a row just inserted.
LEMMA CountedNew ==
  ASSUME TypeInv, RefusalInv, [Next]_vars, NEW span \in Nat,
         NEW k \in Key, k \in Counted(span)', k \notin Counted(span)
  PROVE  ~HasRow(k) /\ HasRow(k)'
<1>1. /\ LedgerTypeOK /\ [LedgerNext]_ledgerVars /\ ledger[k] \in Row
      /\ now \in Nat /\ now' \in Nat /\ now <= now'
  BY LedgerStep, ClockCases DEF TypeInv, TypeOK, LedgerTypeOK
<1>2. Counts(ledger[k], span)' /\ ~Counts(ledger[k], span)
  BY DEF Counted
<1>3. ledger'[k] # ledger[k]
  <2>1. SUFFICES ASSUME ledger'[k] = ledger[k]
                 PROVE  FALSE
    OBVIOUS
  <2>2. \A r \in Row : Counts(r, span)' => Counts(r, span)
    BY <1>1, CountsLater
  <2>3. QED
    BY <1>1, <1>2, <2>1, <2>2 DEF Counts, LatestActivity
<1>4. ledger[k].status \notin Refused \cup {"sent"} \cup Open
  BY <1>1, <1>2, <1>3, RefusedStays, SentStays DEF Counts
<1>5. ~HasRow(k)
  BY <1>1, <1>4 DEF HasRow, Row, Status, Settled, Refused, Open
<1>6. HasRow(k)'
  BY <1>2 DEF Counts, Open, HasRow
<1>7. QED
  BY <1>5, <1>6

LEMMA CountedStep ==
  ASSUME TypeInv, RefusalInv, [Next]_vars, NEW span \in Nat, NEW cap \in Nat, CountedOK(span, cap),
         \A k \in Key, p \in Payloads : MayInsert(k, p) => Cardinality(Counted(span)) < cap
  PROVE  CountedOK(span, cap)'
<1>1. LedgerTypeOK /\ [LedgerNext]_ledgerVars
  BY LedgerStep DEF TypeInv, TypeOK
<1>2. IsFiniteSet(Counted(span)) /\ Cardinality(Counted(span)) \in Nat
  BY FS_CardinalityType DEF CountedOK
<1>3. CASE Counted(span)' \subseteq Counted(span)
  <2>1. IsFiniteSet(Counted(span)') /\ Cardinality(Counted(span)') <= Cardinality(Counted(span))
    BY <1>2, <1>3, FS_Subset
  <2>2. Cardinality(Counted(span)') \in Nat
    BY <2>1, FS_CardinalityType
  <2>3. QED
    BY <1>2, <2>1, <2>2 DEF CountedOK
<1>4. CASE ~(Counted(span)' \subseteq Counted(span))
  <2>1. PICK k \in Key : k \in Counted(span)' /\ k \notin Counted(span)
    BY <1>4 DEF Counted
  <2>2. ~HasRow(k) /\ HasRow(k)'
    BY <2>1, CountedNew
  <2>3. PICK i \in Key, p \in Payloads : Insert(i, p)
    BY <1>1, <2>2, RowsKept
  <2>4. \A j \in Key \ {i} : ledger'[j] = ledger[j]
    BY <1>1, <2>3 DEF Insert, LedgerTypeOK
  <2>5. Counted(span)' \subseteq Counted(span) \cup {i} /\ i \notin Counted(span)
    <3>1. ASSUME NEW j \in Counted(span)', j \notin Counted(span)
          PROVE  j = i
      BY <2>4, <3>1, CountedNew DEF Counted, HasRow
    <3>2. i \notin Counted(span)
      BY <2>3 DEF Insert, MayInsert, HasRow, Counted, Counts, Open
    <3>3. QED
      BY <3>1, <3>2
  <2>6. /\ IsFiniteSet(Counted(span) \cup {i})
        /\ Cardinality(Counted(span) \cup {i}) = Cardinality(Counted(span)) + 1
    BY <1>2, <2>5, FS_AddElement
  <2>7. /\ IsFiniteSet(Counted(span)')
        /\ Cardinality(Counted(span)') <= Cardinality(Counted(span)) + 1
    BY <2>5, <2>6, FS_Subset
  <2>8. Cardinality(Counted(span)') \in Nat /\ Cardinality(Counted(span)) < cap
    BY <2>3, <2>7, FS_CardinalityType DEF Insert
  <2>9. QED
    BY <1>2, <2>7, <2>8 DEF CountedOK
<1>5. QED
  BY <1>3, <1>4

LEMMA BudgetInvHolds == Spec => []BudgetInv
<1>1. Init => BudgetInv
  <2> SUFFICES ASSUME Init, NEW span
               PROVE  Counted(span) = {}
    BY FS_EmptySet, LedgerAssumption DEF BudgetInv, CountedOK
  <2> QED
    BY DEF Init, LedgerInit, NoRow, Counted, Counts, Open
<1>2. TypeInv /\ RefusalInv /\ BudgetInv /\ [Next]_vars => BudgetInv'
  <2> SUFFICES ASSUME TypeInv, RefusalInv, BudgetInv, [Next]_vars
               PROVE  BudgetInv'
    OBVIOUS
  <2>1. /\ Day \in Nat /\ Month \in Nat /\ DayCap \in Nat /\ MonthCap \in Nat
        /\ Cardinality(Counted(Day)) \in Nat /\ Cardinality(Counted(Month)) \in Nat
    BY LedgerAssumption, FS_CardinalityType DEF BudgetInv, CountedOK
  <2>2. ASSUME NEW k \in Key, NEW p \in Payloads, MayInsert(k, p)
        PROVE  Cardinality(Counted(Day)) < DayCap /\ Cardinality(Counted(Month)) < MonthCap
    BY <2>1, <2>2 DEF MayInsert, MayClaim, GatesOpen, SelfCounted, Used, Counted
  <2>3. CountedOK(Day, DayCap)' /\ CountedOK(Month, MonthCap)'
    BY <2>1, <2>2, CountedStep DEF BudgetInv
  <2>4. QED
    BY <2>3 DEF BudgetInv
<1>3. QED
  BY <1>1, <1>2, SenderTypeInv, RefusalInvHolds, PTL DEF Spec

\* Once a row says sent, its activity is no older than the acceptance.
SentCovers == \A k \in Key : (ledger[k].status = "sent" /\ stored[k] # NoTime)
                => stored[k] <= LatestActivity(ledger[k])

LEMMA SettledNow ==
  ASSUME NEW r \in Row, NEW t \in 1..MaxClaims, NEW want \in Settled, r.status # "sent",
         SettledRow(r, t, want).status = "sent"
  PROVE  SettledRow(r, t, want).settled = now
<1>1. want = "sent"
  BY SettledRowVerdict
<1>2. QED
  BY <1>1 DEF SettledRow, AcceptedRow, Row

\* A row comes to say sent in a step that stamps it, and the provider stays out of it.
LEMMA NewlySent ==
  ASSUME TypeInv, [Next]_vars, NEW k \in Key,
         ledger[k].status # "sent", ledger'[k].status = "sent"
  PROVE  ledger'[k].settled = now /\ UNCHANGED providerVars
<1>1. LedgerTypeOK /\ ledger \in [Key -> Row]
  BY DEF TypeInv, TypeOK, LedgerTypeOK
<1>2. ledger' # ledger
  OBVIOUS
<1>3. UNCHANGED providerVars
  BY <1>2, ProviderCases DEF Accepts, ledgerVars
<1>4. ASSUME NEW w \in Workers, ReserveClaims(w)
      PROVE  FALSE
  BY <1>1, <1>4, ReserveEffect DEF ClaimedAs
<1>5. ASSUME NEW w \in Workers, SettleClaim(w)
      PROVE  ledger'[k].settled = now
  <2>1. /\ KeyOf(w) \in Key /\ worker[w].token \in 1..MaxClaims /\ Want(w) \in Settled
        /\ Settle(KeyOf(w), worker[w].token, Want(w))
    BY <1>5, SettleEffect
  <2>2. k = KeyOf(w) /\ ledger'[k] = SettledRow(ledger[k], worker[w].token, Want(w))
    BY <1>1, <2>1 DEF Settle
  <2>3. QED
    BY <1>1, <2>1, <2>2, SettledNow
<1>6. ASSUME NEW j \in Key, ResolveRow(j)
      PROVE  ledger'[k].settled = now
  BY <1>1, <1>6 DEF ResolveRow, Resolve, Row
<1>7. ASSUME NEW w \in Workers, Advances(w) \/ Call(w) \/ Drops(w)
      PROVE  FALSE
  BY <1>2, <1>7 DEF Advances, TakeAnswer, StopCalling, UnknownAnswer, Call, Drops, ledgerVars
<1>8. QED
  BY <1>2, <1>3, <1>4, <1>5, <1>6, <1>7, NextCases
     DEF Handle, Enrol, SetOpen, Passes, Tick, vars, ledgerVars

LEMMA SentCoversStep ==
  ASSUME TypeInv, ProviderInv, ClockInv, AcceptedOnce', SentCovers, [Next]_vars
  PROVE  SentCovers'
<1> SUFFICES ASSUME NEW k \in Key, ledger'[k].status = "sent", stored'[k] # NoTime
             PROVE  stored'[k] <= LatestActivity(ledger'[k])
  BY DEF SentCovers, LatestActivity
<1>1. /\ LedgerTypeOK /\ [LedgerNext]_ledgerVars /\ accepted \in [Key -> Nat]
      /\ stored \in [Key -> Nat \cup {NoTime}] /\ now \in Nat /\ ledger'[k] \in Row
  BY LedgerStep, TypeStep DEF TypeInv, TypeOK, LedgerTypeOK
<1>2. CASE ledger[k].status = "sent"
  <2>1. ledger'[k] = ledger[k] /\ accepted[k] > 0
    BY <1>1, <1>2, SentStays DEF ProviderInv, SentIsTrue
  <2>2. ASSUME NEW r \in wire, Accepts(r)
        PROVE  r.key # k
    BY <1>1, <2>1, <2>2 DEF Accepts, AcceptedOnce
  <2>3. stored'[k] = stored[k]
    BY <1>1, <2>2, ProviderCases DEF Accepts, providerVars
  <2>4. QED
    BY <1>2, <2>1, <2>3 DEF SentCovers
<1>3. CASE ledger[k].status # "sent"
  <2>1. ledger'[k].settled = now /\ stored'[k] = stored[k]
    BY <1>3, NewlySent DEF providerVars
  <2>2. HasRow(k) /\ stored[k] <= now
    BY <1>1, <2>1 DEF ProviderInv, AcceptedHasRow, ClockInv, RowClock
  <2>3. QED
    BY <1>1, <2>1, <2>2 DEF LatestActivity, Row, NoTime
<1>4. QED
  BY <1>2, <1>3

(* dewfpga never uses more than its share of a day or a month, and on a     *)
(* machine that does not sleep no acceptance of the last day or month is   *)
(* missing from what it counts.                                            *)
THEOREM ShareKeptHolds ==
  ASSUME ~Sleeps
  PROVE  Spec => []ShareKept
<1>1. Init => SentCovers
  BY DEF Init, SentCovers
<1>2. TypeInv /\ ProviderInv /\ ClockInv /\ AcceptedOnce' /\ SentCovers /\ [Next]_vars => SentCovers'
  BY SentCoversStep
<1>3. TypeInv /\ ProviderInv /\ RefusalInv /\ SentCovers => AcceptancesCounted
  <2> SUFFICES ASSUME TypeInv, ProviderInv, RefusalInv, SentCovers,
                      NEW k \in Key, NEW span \in {Day, Month},
                      stored[k] # NoTime, stored[k] > now - span
               PROVE  Counts(ledger[k], span)
    BY DEF AcceptancesCounted
  <2>1. /\ ledger[k] \in Row /\ now \in Nat /\ span \in Nat /\ stored[k] \in Nat
    BY LedgerAssumption DEF TypeInv, TypeOK, LedgerTypeOK
  <2>2. accepted[k] > 0 /\ HasRow(k)
    BY DEF ProviderInv, AcceptedHasRow
  <2>3. ledger[k].status \notin Refused
    BY <2>2 DEF RefusalInv, RefusedIsOver
  <2>4. ledger[k].status \in Open \cup {"sent"}
    BY <2>1, <2>2, <2>3 DEF HasRow, Row, Status, Settled, Refused, Open
  <2>5. CASE ledger[k].status = "sent"
    <3>1. LatestActivity(ledger[k]) \in Int
      BY <2>1 DEF LatestActivity, Row, NoTime
    <3>2. LatestActivity(ledger[k]) > now - span
      BY <2>1, <2>5, <3>1 DEF SentCovers
    <3>3. QED
      BY <2>5, <3>2 DEF Counts
  <2>6. QED
    BY <2>4, <2>5 DEF Counts
<1>4. BudgetInv => Used(Day) <= DayCap /\ Used(Month) <= MonthCap
  BY DEF BudgetInv, CountedOK, Counted, Used
<1>5. QED
  BY <1>1, <1>2, <1>3, <1>4, SenderTypeInv, ProviderInvHolds, RefusalInvHolds, ClockInvHolds,
     AcceptedOnceHolds, BudgetInvHolds, PTL DEF Spec, ShareKept

=============================================================================
