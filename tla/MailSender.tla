------------------------------ MODULE MailSender ------------------------------
(***************************************************************************)
(* The mail worker (mail/dewfpga_mail.py, Mailer._send) against the ledger  *)
(* and the mail provider.                                                   *)
(*                                                                         *)
(* A worker is one process sending one logical mail: per derived key it     *)
(* observes the account usage, reserves, calls the provider with that one   *)
(* key, settles and reports.  Several runs may overlap (two operators, a    *)
(* rerun after a crash); any of them may die between two steps, and its     *)
(* last request may still reach the provider.                               *)
(*                                                                         *)
(* The provider is external and is what the worker's docstring and the      *)
(* tests' FakeResend say of it: a key it accepted is replayed for Store     *)
(* time, with another body it is a conflict, and any request may instead be *)
(* refused; a reply may be lost.                                            *)
(***************************************************************************)
EXTENDS MailLedger

CONSTANTS Workers,
          NoMail,        \* the mail of a worker that has none
          SameKeyTries,  \* provider calls per claim while the answer is unknown
          Margin,        \* DEADLINE_MARGIN
          RpcTime,       \* bound: a ledger answer older than this never arrives
          CallTime,      \* bound: how long a request may travel to the provider
          Store,         \* the provider's idempotency store
          Sleeps         \* the worker's machine may sleep (its clock stops)

ASSUME SenderAssumption ==
  /\ NoMail \notin Mails
  /\ SameKeyTries \in Nat \ {0}
  /\ Margin \in Nat /\ RpcTime \in Nat /\ CallTime \in Nat /\ Store \in Nat
  /\ RpcTime + CallTime <= Margin
  /\ Window <= Store
  /\ Sleeps \in BOOLEAN

VARIABLES worker,    \* Workers -> the local state of one run of _send
          wire,      \* requests on their way to the provider
          accepted,  \* Key -> how many mails the provider sent for it
          stored,    \* Key -> when it last accepted it, or NoTime
          body       \* Key -> the payload it accepted

providerVars == <<accepted, stored, body>>
vars == <<ledgerVars, worker, wire, providerVars>>

Results  == {"none", "unknown", "accepted", "conflict", "quota", "refused", "released"}
PC       == {"idle", "reserve", "answer", "call", "wait", "settle"}
Documented == {"sent", "unknown", "unresolved", "in_flight", "failed", "released"}
Outcomes == Documented \cup {"none", "reserved", "halted", "conflicted"}

Worker == [pc : PC, mail : Mails \cup {NoMail}, payload : Payloads \cup {NoPayload},
           att : 1..MaxAttempts, token : 0..MaxClaims, left : Nat, since : Nat,
           deadline : Int, tries : 0..SameKeyTries, doubt : BOOLEAN,
           result : Results, out : Outcomes]

Idle == [pc |-> "idle", mail |-> NoMail, payload |-> NoPayload, att |-> 1,
         token |-> 0, left |-> 0, since |-> 0, deadline |-> 0, tries |-> 0,
         doubt |-> FALSE, result |-> "none", out |-> "none"]

Request == [key : Key, payload : Payloads, token : 1..MaxClaims,
            n : 1..SameKeyTries, at : Nat]

KeyOf(w) == <<worker[w].mail, worker[w].att>>
Claiming(w, k) == worker[w].pc \in {"answer", "call", "wait", "settle"} /\ KeyOf(w) = k

-----------------------------------------------------------------------------
(* One run of _send.                                                       *)

Fresh(m, p) == [Idle EXCEPT !.pc = "reserve", !.mail = m, !.payload = p]

Finish(w, outcome) == worker' = [worker EXCEPT ![w] = [Idle EXCEPT !.out = outcome]]

\* A definite refusal under this key: the next derived key, or give up.
NextKeySame(w) == worker' = [worker EXCEPT ![w] = Fresh(@.mail, @.payload)]  \* mutant

NextKey(w) ==
  IF worker[w].att < MaxAttempts
  THEN worker' = [worker EXCEPT ![w] = [Fresh(@.mail, @.payload) EXCEPT !.att = worker[w].att + 1]]
  ELSE Finish(w, "failed")

Start(w, m, p) ==
  /\ worker[w].pc = "idle"
  /\ worker' = [worker EXCEPT ![w] = Fresh(m, p)]
  /\ UNCHANGED <<ledgerVars, wire, providerVars>>

\* The account usage is unreadable or too low: no claim, the run halts.
Defer(w) ==
  /\ worker[w].pc = "reserve"
  /\ Finish(w, "halted")
  /\ UNCHANGED <<ledgerVars, wire, providerVars>>

ReserveClaims(w) ==
  LET k == KeyOf(w)  p == worker[w].payload IN
  /\ worker[w].pc = "reserve"
  /\ Reclaim(k, p) \/ Insert(k, p)
  /\ worker' = [worker EXCEPT ![w].pc = "answer", ![w].token = ledger'[k].token,
                              ![w].left = SecondsLeft(ledger'[k]), ![w].since = now]
  /\ UNCHANGED <<wire, providerVars>>

\* The status of the row a spent answer is about.
SpentAsReleased(k) ==
  IF HasRow(k) THEN ledger[k].status = "released" ELSE Sibling(MailOf(k), {"released"})

ReserveDeclines(w) ==
  LET k == KeyOf(w)  p == worker[w].payload IN
  /\ worker[w].pc = "reserve"
  /\ \/ \E a \in {"sent", "in_flight", "unresolved"} : NoClaim(k, p, a) /\ Finish(w, a)
     \/ NoClaim(k, p, "budget") /\ Finish(w, "halted")
     \/ NoClaim(k, p, "mismatch") /\ Finish(w, "conflicted")
     \/ NoClaim(k, p, "spent") /\ SpentAsReleased(k) /\ Finish(w, "released")
     \/ NoClaim(k, p, "spent") /\ ~SpentAsReleased(k) /\ NextKey(w)
  /\ UNCHANGED <<ledgerVars, wire, providerVars>>

\* The deadline is taken from the worker's clock when the answer arrives.
\* Mutant: no margin before the end of the window.
TakeAnswerNoMargin(w) ==
  /\ worker[w].pc = "answer" /\ now - worker[w].since <= RpcTime
  /\ worker' = [worker EXCEPT ![w].pc = "call", ![w].left = 0, ![w].since = 0,
                              ![w].deadline = now + worker[w].left]
  /\ UNCHANGED <<ledgerVars, wire, providerVars>>

TakeAnswer(w) ==
  /\ worker[w].pc = "answer" /\ now - worker[w].since <= RpcTime
  /\ worker' = [worker EXCEPT ![w].pc = "call", ![w].left = 0, ![w].since = 0,
                              ![w].deadline = now + worker[w].left - Margin]
  /\ UNCHANGED <<ledgerVars, wire, providerVars>>

\* The ledger's answer timed out: the exception ends the run.
RpcTimesOut(w) ==
  /\ worker[w].pc = "answer" /\ now - worker[w].since > RpcTime
  /\ worker' = [worker EXCEPT ![w] = Idle]
  /\ UNCHANGED <<ledgerVars, wire, providerVars>>

\* Request r is the one worker w made last under its claim.
Sent(w, r) == r.key = KeyOf(w) /\ r.token = worker[w].token /\ r.n = worker[w].tries

MayCallOffByOne(w) == worker[w].tries <= SameKeyTries /\ now < worker[w].deadline  \* mutant
MayCall(w) == worker[w].tries < SameKeyTries /\ now < worker[w].deadline

Call(w) ==
  /\ worker[w].pc = "call" /\ MayCall(w)
  /\ wire' = wire \cup {[key |-> KeyOf(w), payload |-> worker[w].payload,
                         token |-> worker[w].token, n |-> worker[w].tries + 1, at |-> now]}
  /\ worker' = [worker EXCEPT ![w].pc = "wait", ![w].tries = @ + 1]
  /\ UNCHANGED <<ledgerVars, providerVars>>

StopCalling(w) ==
  /\ worker[w].pc = "call" /\ ~MayCall(w)
  /\ worker' = [worker EXCEPT ![w].pc = "settle"]
  /\ UNCHANGED <<ledgerVars, wire, providerVars>>

\* Timeout, lost reply, 5xx, 409 in flight: the provider may have accepted.
UnknownAnswer(w) ==
  /\ worker[w].pc = "wait"
  /\ worker' = [worker EXCEPT ![w].pc = "call", ![w].doubt = TRUE, ![w].result = "unknown"]
  /\ UNCHANGED <<ledgerVars, wire, providerVars>>

\* SendResult.outcome: the status a classified answer settles to.
OutcomeOf(result) ==
  CASE result = "accepted" -> "sent"
    [] result \in {"quota", "refused"} -> "failed"
    [] result \in {"released", "none"} -> "released"
    [] result \in {"conflict", "unknown"} -> "unknown"

\* After an unknown try of this key a later refusal proves nothing.
WantLast(w) == OutcomeOf(worker[w].result)  \* mutant: only the last try counts
Want(w) ==
  LET o == OutcomeOf(worker[w].result) IN
  IF worker[w].doubt /\ o # "sent" THEN "unknown" ELSE o

SettleClaim(w) ==
  LET k  == KeyOf(w)
      st == SettledRow(ledger[k], worker[w].token, Want(w)).status
      result == worker[w].result
      refusedKey == result = "refused" /\ ~worker[w].doubt /\ st = "failed"
  IN /\ worker[w].pc = "settle"
     /\ Settle(k, worker[w].token, Want(w))
     /\ \/ result = "none" /\ Finish(w, IF st = "released" THEN st ELSE "unresolved")
        \/ result = "quota" /\ Finish(w, "halted")
        \/ refusedKey /\ NextKey(w)
        \/ result \notin {"none", "quota"} /\ ~refusedKey /\ Finish(w, st)
     /\ UNCHANGED <<wire, providerVars>>

\* The process dies, or a ledger call raises, between two steps.
Crash(w) ==
  /\ worker[w].pc # "idle"
  /\ worker' = [worker EXCEPT ![w] = Idle]
  /\ UNCHANGED <<ledgerVars, wire, providerVars>>

-----------------------------------------------------------------------------
(* The provider (external): it handles one request and its reply reaches    *)
(* the worker that still waits for it, or nobody.                          *)

Remembers(k) == stored[k] # NoTime /\ now - stored[k] <= Store

Reply(r, result) ==
  \/ UNCHANGED worker
  \/ \E w \in Workers :
        /\ worker[w].pc = "wait" /\ Sent(w, r)
        /\ worker' = [worker EXCEPT ![w].pc = "settle", ![w].result = result]

Accept(r) ==
  /\ ~Remembers(r.key)
  /\ accepted' = [accepted EXCEPT ![r.key] = @ + 1]
  /\ stored' = [stored EXCEPT ![r.key] = now]
  /\ body' = [body EXCEPT ![r.key] = r.payload]
  /\ Reply(r, "accepted")

Replay(r) ==
  /\ Remembers(r.key)
  /\ Reply(r, IF body[r.key] = r.payload THEN "accepted" ELSE "conflict")
  /\ UNCHANGED providerVars

Refuse(r) ==
  /\ \E result \in {"quota", "refused", "released"} : Reply(r, result)
  /\ UNCHANGED providerVars

Handle(r) ==
  /\ Accept(r) \/ Replay(r) \/ Refuse(r)
  /\ wire' = wire \ {r}
  /\ UNCHANGED ledgerVars

-----------------------------------------------------------------------------
(* The operator resolves a row only from evidence (mail/README.md): sent    *)
(* when the provider's log shows it, failed only when the provider has no   *)
(* such request and none can still arrive.                                 *)

Quiet(k) == /\ \A w \in Workers : ~Claiming(w, k)
            /\ \A r \in wire : r.key # k

ResolveRow(k) ==
  /\ \/ accepted[k] > 0 /\ Resolve(k, "sent")
     \/ accepted[k] = 0 /\ Quiet(k) /\ Resolve(k, "failed")
  /\ UNCHANGED <<worker, wire, providerVars>>

Enrol(b) == SetOpen(b) /\ UNCHANGED <<worker, wire, providerVars>>

\* A request travels at most CallTime.
Arriving == {r \in wire : r.at + CallTime > now}

PassTime == /\ Tick
            /\ wire' = Arriving
            /\ UNCHANGED <<worker, providerVars>>

\* The machine sleeps: time.monotonic stops, so what it times moves along.
Sleep == /\ Sleeps
         /\ Tick
         /\ wire' = Arriving
         /\ worker' = [w \in Workers |->
              IF worker[w].pc \in {"answer", "call", "wait"}
              THEN [worker[w] EXCEPT !.since = @ + 1, !.deadline = @ + 1]
              ELSE worker[w]]
         /\ UNCHANGED providerVars

-----------------------------------------------------------------------------
Init == /\ LedgerInit
        /\ worker = [w \in Workers |-> Idle]
        /\ wire = {}
        /\ accepted = [k \in Key |-> 0]
        /\ stored = [k \in Key |-> NoTime]
        /\ body = [k \in Key |-> NoPayload]

Step(w) ==
  \/ ReserveClaims(w) \/ ReserveDeclines(w)
  \/ TakeAnswer(w) \/ RpcTimesOut(w)
  \/ Call(w) \/ StopCalling(w) \/ UnknownAnswer(w)
  \/ SettleClaim(w)

Next ==
  \/ \E w \in Workers : Step(w) \/ Defer(w) \/ Crash(w)
  \/ \E w \in Workers, m \in Mails, p \in Payloads : Start(w, m, p)
  \/ \E r \in wire : Handle(r)
  \/ \E k \in Key : ResolveRow(k)
  \/ \E b \in BOOLEAN : Enrol(b)
  \/ PassTime
  \/ Sleep

Spec == Init /\ [][Next]_vars

\* A run that is not killed keeps taking steps; nothing else is promised.
FairSpec == Spec /\ \A w \in Workers : WF_vars(Step(w))

-----------------------------------------------------------------------------
(* Properties *)

TypeOK ==
  /\ LedgerTypeOK
  /\ worker \in [Workers -> Worker]
  /\ wire \subseteq Request
  /\ accepted \in [Key -> Nat]
  /\ stored \in [Key -> Nat \cup {NoTime}]
  /\ body \in [Key -> Payloads \cup {NoPayload}]

(* One logical mail never earns two provider acceptances: not under two     *)
(* keys, not twice under one, whatever crashed, overlapped or got lost.    *)
AtMostOneAcceptance ==
  \A j, k \in Key : (MailOf(j) = MailOf(k) /\ accepted[j] > 0 /\ accepted[k] > 0)
                      => j = k /\ accepted[k] = 1

(* What the ledger calls sent was accepted, and what it calls failed or     *)
(* released was not: the campaign's report and the next key rest on it.    *)
LedgerTellsTheTruth ==
  \A k \in Key : /\ ledger[k].status = "sent" => accepted[k] > 0
                 /\ ledger[k].status \in Refused => accepted[k] = 0

(* At any time at most one key of a logical mail can still be accepted: all *)
(* its other keys are refused, with no claim and no request left.          *)
OneLiveKey ==
  \A j, k \in Key :
    (MailOf(j) = MailOf(k) /\ j # k /\ HasRow(j) /\ HasRow(k) /\ ledger[j].status \notin Refused)
      => ledger[k].status = "failed" /\ Quiet(k)

\* Every acceptance of the last day (month) is counted: nothing slides a row out early.
AcceptancesCounted ==
  \A k \in Key, span \in {Day, Month} :
    (stored[k] # NoTime /\ stored[k] > now - span) => Counts(ledger[k], span)

(* dewfpga never uses more than its share, re-claims and late answers included, *)
(* and every acceptance of the last day and month is counted in what it uses.  *)
ShareKept == AcceptancesCounted /\ Used(Day) <= DayCap /\ Used(Month) <= MonthCap

(* Every request reaches the provider before the same-key window of its row *)
(* ends: past it the provider may have forgotten the key.                  *)
NoCallAfterWindow == \A r \in wire : r.at + CallTime < ledger[r.key].first + Window

(* _send returns one of the outcomes its callers count (its docstring; a    *)
(* halt or an identity mismatch is raised instead).                        *)
OutcomeIsDocumented ==
  \A w \in Workers : worker[w].out \in Documented \cup {"none", "halted", "conflicted"}

(* Every run of _send comes to an end, also when each answer is lost.      *)
SendReturns ==
  \A w \in Workers : worker[w].pc # "idle" ~> worker[w].pc = "idle"

(* The provider never finds a key of ours bound to another body: no claim   *)
(* ends in the intent conflict that needs the operator.                    *)
NoIntentConflict == \A w \in Workers : worker[w].result # "conflict"

(* Seen from outside this is the promise of OnceMail, with the provider's   *)
(* acceptances as the deliveries and the ledger's sent rows as the report. *)
Acceptances == UNION {{<<MailOf(k), <<k, n>>>> : n \in 1..accepted[k]} : k \in Key}
ReportedSent == {m \in Mails : Sibling(m, {"sent"})}

Once == INSTANCE OnceMail WITH deliveries <- Acceptances, told <- ReportedSent

ImplementsOnceMail == Once!OnceSpec
=============================================================================
