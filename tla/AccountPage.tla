----------------------------- MODULE AccountPage -------------------------------
(***************************************************************************)
(* The newsletter and account pages of the site (site/mail.js): the session   *)
(* of the tab, the calls under it, the forms that wait for their answers, and *)
(* what the page shows and says.  The tables behind the calls are external     *)
(* here (Newsletter.tla models them): an account, one subscription, and a      *)
(* token that may or may not be accepted any longer.                          *)
(*                                                                         *)
(* Each function of the page is an operator from one record to the next; a     *)
(* handler takes no time.                                                   *)
(***************************************************************************)
EXTENDS Naturals, FiniteSets

CONSTANT MaxClicks
ASSUME ClicksAssumption == MaxClicks \in Nat

VARIABLE site

Pages  == {"newsletter", "confirm", "unsubscribe", "account"}
Areas  == {"subscribe", "confirm", "unsubscribe", "link", "signin", "enrol", "rights"}
Forms  == {"subscribe", "confirm", "unsubscribe", "link", "signin", "enrol", "export", "delete"}
Errors401 == {"expired", "401"}
Failed(c) == c.answer \in Errors401 \cup {"403", "busy", "net"}

-----------------------------------------------------------------------------
(* The session, the forms, the calls *)

SignedIn(s)      == s.stored = "live"
ReadSession(s) == [s EXCEPT !.stored = IF @ = "over" THEN "none" ELSE @]
ClearSession(s) == [s EXCEPT !.stored = "none"]
SayIn(s, area, text) == [s EXCEPT !.said[area] = text]
Off(s, forms) == [s EXCEPT !.off = @ \cup forms]
Enable(s, forms) == [s EXCEPT !.off = @ \ (forms \ s.gone)]
ShowView(s, v)  == [s EXCEPT !.view = v, !.retry = FALSE]

Send(s, what, n, as, note) ==
  [s EXCEPT !.calls = @ \cup {[what |-> what, n |-> n, as |-> as, note |-> note, answer |-> "none"]}]

\* A call that must be signed in fails here when the session is gone.
Authed(s, what, n) ==
  LET r == ReadSession(s) IN
  IF SignedIn(r) THEN Send(r, what, n, "user", "")
  ELSE [r EXCEPT !.calls = @ \cup {[what |-> what, n |-> n, as |-> "none", note |-> "", answer |-> "expired"]}]
\* A service that no longer takes the token ends the session.
AfterRefusal(s, c) == IF c.answer = "401" THEN ClearSession(s) ELSE s

-----------------------------------------------------------------------------
(* The account page *)

OnError(s, c) ==
  CASE c.answer \in Errors401 ->
         SayIn(ShowView(ClearSession(s), "out"), "signin", IF s.blocked THEN "blocked" ELSE "expired")
    [] c.answer = "403" -> SayIn(s, "signin", "refused")
    [] OTHER -> SayIn([ShowView(s, "out") EXCEPT !.retry = TRUE], "signin", "kept")

Render(s, n) ==
  LET r == ReadSession(s) IN
  IF SignedIn(r) THEN Send(r, "user", n, "user", "")
  ELSE LET q == ShowView(r, "out") IN
       IF s.blocked THEN SayIn(q, "signin", "blocked")
       ELSE IF s.stored = "over" THEN SayIn(q, "signin", "expired") ELSE q

\* This session only; the tab forgets it at once.
SignOut(s, n, note) ==
  LET r == ClearSession(ReadSession(s)) IN
  IF SignedIn(s) THEN Send(r, "logout", n, "user", note) ELSE SayIn(ShowView(r, "out"), "signin", note)

\* The error of a right is told beside its button, unless the session is over.
RightFailed(s, c, area) ==
  LET r == AfterRefusal(s, c) IN
  IF c.answer \in Errors401 THEN OnError(r, c) ELSE SayIn(r, area, "error")

AccountAnswer(s, c) ==
  CASE c.what = "user" -> IF Failed(c) THEN OnError(s, c) ELSE Authed(s, "load", c.n)
    [] c.what = "load" ->
         IF Failed(c) THEN OnError(AfterRefusal(s, c), c)
         ELSE ShowView(s, IF c.answer = "true" THEN "acct" ELSE "noacct")
    [] c.what = "enrol" ->
         Enable(IF Failed(c) THEN RightFailed(s, c, "enrol") ELSE Render(SayIn(s, "enrol", ""), c.n), {"enrol"})
    [] c.what = "export" ->
         Enable(IF Failed(c) THEN RightFailed(s, c, "rights") ELSE SayIn(s, "rights", "exported"), {"export"})
    [] c.what = "delete" ->
         IF Failed(c) THEN Enable(RightFailed(s, c, "rights"), {"delete"})
         ELSE SignOut(s, c.n, IF c.answer = "true" THEN "deleted" ELSE "nothing to delete")
    [] c.what = "logout" ->
         SayIn(ShowView(s, "out"), "signin", IF Failed(c) THEN "not revoked" ELSE c.note)
    [] c.what = "otp" -> Enable(SayIn(s, "signin", IF Failed(c) THEN "error" ELSE "sent"), {"signin"})

-----------------------------------------------------------------------------
(* The pages the mails lead to *)

ConfirmWith(s, n, as) == Send(Off(SayIn(s, "confirm", "confirming"), {"confirm", "anon"}), "confirm", n, as, "")

\* Once the page has said that it will link, it does not confirm without.
ConfirmClickSilent(s, n) ==  \* mutant: with the session gone, it confirms all the same
  LET r == ReadSession(s) IN ConfirmWith(r, n, IF SignedIn(r) THEN "user" ELSE "anon")
ConfirmClick(s, n) ==
  LET r == ReadSession(s) IN
  IF s.promised /\ ~SignedIn(r) THEN SayIn([r EXCEPT !.anon = TRUE], "confirm", "not sent")
  ELSE ConfirmWith(r, n, IF SignedIn(r) THEN "user" ELSE "anon")
AnonClick(s, n) == ConfirmWith([s EXCEPT !.promised = FALSE, !.chose = TRUE], n, "anon")

ConfirmAnswer(s, c) ==
  LET q == [s EXCEPT !.token = FALSE, !.anon = FALSE]
      e == Enable(s, {"confirm", "anon"}) IN
  IF ~Failed(c)
  THEN SayIn(q, "confirm", IF c.answer # "true" THEN "not valid"
                           ELSE IF c.as = "user" THEN "linked" ELSE "confirmed")
  ELSE IF c.as = "user" /\ c.answer = "401"
  THEN SayIn([ClearSession(e) EXCEPT !.promised = TRUE, !.anon = TRUE], "confirm", "not confirmed")
  ELSE SayIn(e, "confirm", "error")

LinkAnswer(s, c) ==
  LET r == AfterRefusal(s, c) IN
  IF c.answer \in Errors401  \* the form goes, for good
  THEN SayIn(Off([r EXCEPT !.gone = @ \cup {"link"}], {"link"}), "link", "expired")
  ELSE Enable(SayIn(r, "link", IF c.answer = "true" THEN "linked"
                               ELSE IF c.answer = "false" THEN "nothing" ELSE "error"), {"link"})

UnsubscribeAnswer(s, c) ==
  IF Failed(c) THEN Enable(SayIn(s, "unsubscribe", "error"), {"unsubscribe", "link"})
  ELSE SayIn([s EXCEPT !.token = FALSE], "unsubscribe", IF c.answer = "true" THEN "done" ELSE "not valid")

SubscribeAnswer(s, c) ==
  Enable(SayIn(s, "subscribe", IF Failed(c) THEN "error" ELSE "queued"), {"subscribe"})

-----------------------------------------------------------------------------
(* The service *)

Allowed(c) == c.as = "anon" \/ c.what = "otp" \/ site.accepts
Done(c, s, ok) == [s EXCEPT !.calls = (@ \ {c}) \cup {[c EXCEPT !.answer = IF ok THEN "true" ELSE "false"]}]
Effect(c) ==
  CASE c.what \in {"user", "export", "otp", "subscribe"} -> Done(c, site, TRUE)
    [] c.what = "load" -> Done(c, site, site.account)
    [] c.what = "enrol" -> Done(c, [site EXCEPT !.account = TRUE], TRUE)
    [] c.what = "delete" -> Done(c, [site EXCEPT !.account = FALSE], site.account)
    [] c.what = "logout" -> Done(c, [site EXCEPT !.accepts = FALSE], TRUE)
    [] c.what = "confirm" ->
         Done(c, [site EXCEPT !.sub = IF @ = "pending" THEN c.as ELSE @], site.sub = "pending")
    [] c.what = "link" ->
         Done(c, [site EXCEPT !.sub = IF @ \in {"anon", "user"} THEN "user" ELSE @], site.sub \in {"anon", "user"})
    [] c.what = "unsubscribe" -> Done(c, [site EXCEPT !.sub = "left"], site.sub # "left")

Unserved(c, s, answer) ==
  [s EXCEPT !.calls = {IF d.what = c.what /\ d.n = c.n THEN [d EXCEPT !.answer = answer] ELSE d : d \in @}]

\* It works; the answer is lost after or before it worked; it is refused.
Serve(c) ==
  /\ c.answer = "none"
  /\ site' \in {Effect(c), Unserved(c, Effect(c), "net"), Unserved(c, site, "net"), Unserved(c, site, "busy")}
                 \cup (IF Allowed(c) THEN {} ELSE {Unserved(c, site, "401")})
                 \cup (IF c.what = "user" THEN {Unserved(c, site, "403")} ELSE {})

\* An answer reaches the page.
Answered(c) ==
  LET s == [site EXCEPT !.calls = @ \ {c}] IN
  /\ c.answer # "none"
  /\ site' = (CASE c.what = "confirm" -> ConfirmAnswer(s, c)
                [] c.what = "link" -> LinkAnswer(s, c)
                [] c.what = "unsubscribe" -> UnsubscribeAnswer(s, c)
                [] c.what = "subscribe" -> SubscribeAnswer(s, c)
                [] OTHER -> AccountAnswer(s, c))

-----------------------------------------------------------------------------
(* The person, and time *)

\* What failed here is told before anything else happens.
NothingLocal == \A c \in site.calls : c.answer # "expired"
Click(form, s) ==
  /\ NothingLocal /\ site.n < MaxClicks /\ form \notin site.off
  /\ site' = [s EXCEPT !.n = site.n + 1]

OnPage(p) == site.page = p
ClickSubscribe == OnPage("newsletter") /\ Click("subscribe", Send(Off(site, {"subscribe"}), "subscribe", site.n, "anon", ""))
ClickConfirm == OnPage("confirm") /\ site.token /\ Click("confirm", ConfirmClick(site, site.n))
ClickAnon == OnPage("confirm") /\ site.token /\ site.anon /\ Click("anon", AnonClick(site, site.n))
ClickUnsubscribe ==
  /\ OnPage("unsubscribe") /\ site.token
  /\ Click("unsubscribe", Send(Off(site, {"unsubscribe", "link"}), "unsubscribe", site.n, "anon", ""))
ClickLink == OnPage("unsubscribe") /\ site.token /\ Click("link", Authed(Off(site, {"link"}), "link", site.n))
ClickSignin ==
  /\ OnPage("account") /\ site.view = "out"
  /\ Click("signin", IF site.blocked THEN SayIn(site, "signin", "blocked")
                     ELSE Send(Off(ReadSession(site), {"signin"}), "otp", site.n, "anon", ""))
ClickRetry == OnPage("account") /\ site.view = "out" /\ site.retry /\ Click("retry", Render(site, site.n))
ClickEnrol == OnPage("account") /\ site.view = "noacct" /\ Click("enrol", Authed(Off(site, {"enrol"}), "enrol", site.n))
ClickRight(what) == OnPage("account") /\ site.view = "acct" /\ Click(what, Authed(Off(site, {what}), what, site.n))
ClickSignOut ==
  OnPage("account") /\ site.view \in {"noacct", "acct"} /\ Click("sign out", SignOut(site, site.n, "signed out"))

\* The session runs out, or is revoked elsewhere.
SessionEnds ==
  /\ NothingLocal /\ site.accepts
  /\ site' \in {[site EXCEPT !.accepts = FALSE, !.stored = IF @ = "live" THEN "over" ELSE @],
                [site EXCEPT !.accepts = FALSE]}

-----------------------------------------------------------------------------
\* A page before its script has run.
SiteFresh(p, st, bl, ac, tk, sb) ==
  [page |-> p, stored |-> st, blocked |-> bl, accepts |-> st = "live", account |-> ac, sub |-> sb,
   token |-> tk, promised |-> p = "confirm" /\ st = "live", chose |-> FALSE, anon |-> FALSE,
   view |-> "out", retry |-> FALSE, said |-> [a \in Areas |-> ""], calls |-> {}, n |-> 0,
   off |-> {}, gone |-> {}]

SiteOpened(s) ==
  CASE s.page = "account" -> IF s.blocked THEN Off(SayIn(s, "signin", "blocked"), {"signin"}) ELSE Render(s, 0)
    [] s.page = "newsletter" -> s
    [] OTHER -> IF ~s.token THEN Off(s, Forms)
                ELSE IF s.page = "unsubscribe" /\ ~SignedIn(s) THEN Off([ReadSession(s) EXCEPT !.gone = {"link"}], {"link"})
                ELSE ReadSession(s)

\* The account page may take its session from the sign-in link.
SiteInit ==
  \E p \in Pages, st \in {"none", "live", "over"}, bl \in BOOLEAN, ac \in BOOLEAN, tk \in BOOLEAN, sb \in {"pending", "anon"} :
    /\ bl => st = "none"
    /\ (p \in {"newsletter", "account"}) => ~tk
    /\ (p # "account") => ~ac
    /\ (p = "unsubscribe") \/ sb = "pending"
    /\ site = SiteOpened(SiteFresh(p, st, bl, ac, tk, sb))

SiteStep ==
  \/ \E c \in site.calls : (NothingLocal /\ Serve(c)) \/ ((NothingLocal \/ c.answer = "expired") /\ Answered(c))
  \/ ClickSubscribe \/ ClickConfirm \/ ClickAnon \/ ClickUnsubscribe \/ ClickLink
  \/ ClickSignin \/ ClickRetry \/ ClickEnrol \/ ClickSignOut \/ \E what \in {"export", "delete"} : ClickRight(what)
  \/ SessionEnds

SiteSpec == SiteInit /\ [][SiteStep]_site

-----------------------------------------------------------------------------
(* Properties *)

(* The page is well typed.                                                  *)
SiteTypeOK ==
  /\ site.page \in Pages /\ site.stored \in {"none", "live", "over"} /\ site.view \in {"out", "noacct", "acct"}
  /\ site.sub \in {"pending", "anon", "user", "left"} /\ site.off \subseteq Forms \cup {"anon"}
  /\ \A c \in site.calls : c.as \in {"user", "anon", "none"}

(* A page that has promised to link the subscription never confirms without   *)
(* the session "behind the user's back" (mail.js, line 250): only the button    *)
(* that says so does, however the session ended and however often the user      *)
(* tried.  What the page says of a thing done was done, although answers are    *)
(* lost and late; and no form of the account, or of the page a mail's link       *)
(* opens, stays closed that can be used, once its answer is there (the forms    *)
(* to subscribe and to sign in are not asked about).                          *)
SiteKeepsFaith ==
  /\ (site.page = "confirm" /\ site.sub = "anon" /\ ~site.chose) => ~site.promised
  /\ site.said["confirm"] = "linked" => site.sub = "user"
  /\ site.said["confirm"] = "confirmed" => site.sub \in {"anon", "user"}
  /\ site.said["unsubscribe"] = "done" => site.sub = "left"
  /\ site.calls = {} =>
       /\ site.token => {"confirm", "anon", "unsubscribe"} \cap site.off = {}
       /\ site.token /\ SignedIn(site) /\ site.page = "unsubscribe" /\ "link" \notin site.gone => "link" \notin site.off
       /\ SignedIn(site) /\ site.view = "acct" => {"export", "delete"} \cap site.off = {}
       /\ site.view = "noacct" => "enrol" \notin site.off

(* "Session gone -> sign-in view with an honest line" (mail.js, line 365):     *)
(* when no call is under way and the tab holds no session, the account is not   *)
(* shown.                                                                   *)
GoneMeansSignedOut ==
  (site.page = "account" /\ site.calls = {} /\ site.stored = "none") => site.view = "out"
=============================================================================
