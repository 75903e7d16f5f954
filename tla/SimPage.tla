-------------------------------- MODULE SimPage --------------------------------
(***************************************************************************)
(* The simulator page (sim/src/sim/main.js) and its two compile workers:    *)
(* runs, live checks, the verdict that closes the run button, the circuit   *)
(* on the board, and the requests in between.                              *)
(*                                                                         *)
(* The page is one event loop: an event (an edit, a key, a timer, a reply)  *)
(* runs to its end and then the microtasks it left run in order, before     *)
(* the next event.  Each function of the page is an operator from one page  *)
(* record to the next, and an action is the composition of the functions    *)
(* one event calls.                                                        *)
(***************************************************************************)
EXTENDS Naturals, Sequences, FiniteSets

\* What the files hold, per view: sources that compile ("ok"), or do not
\* ("bad"), no file for the part ("norole"), pins that do not fit ("unbound").
CONSTANTS Contents,   \* the workspaces there are
          MaxEvents   \* bound on what the person does

Views   == {"board", "tb"}
Engines == {"yosys", "tb"}

ASSUME PageAssumption ==
  /\ Contents \subseteq [Views -> {"ok", "bad", "norole", "unbound"}]
  /\ Contents # {} /\ MaxEvents \in Nat

VARIABLES page, events

vars == <<page, events>>

\* "failed": yosys itself failed, which its worker reports as errors.
Verdicts == {"none", "clean", "errors", "failed", "unchecked"}
Results  == {"clean", "errors", "failed", "cancelled", "crash", "timeout"}

EngineOf(v) == IF v = "board" THEN "yosys" ELSE "tb"
NoRole(p)   == p.content[p.view] = "norole"
Compiles(p) == p.content[p.view] \in {"ok", "unbound"}
Busy(p)     == {v \in Views : p.checks[v].stage # "no"}
InFlight(p) == p.runs # {}

\* lint.hasErrors: the panel has an error, whatever it is about.
HasErrors(p) == p.verdict \in {"errors", "failed"}

-----------------------------------------------------------------------------
(* ask and settle.  A request waits for its worker; one whose worker was    *)
(* terminated is lost.                                                     *)

Ask(p, engine, job) ==
  [p EXCEPT !.asked[engine] = Append(@,
     [job |-> job, truth |-> IF job[1] = "warm" \/ Compiles(p) THEN "ok" ELSE "bad",
      version |-> p.version, lost |-> FALSE])]

Task(type, r, result) == [type |-> type, job |-> r.job, result |-> result, version |-> r.version]
AddTasks(p, s) == [p EXCEPT !.tasks = @ \o s]

\* Take request i out and resolve its promise.
Settle(p, engine, i, result) ==
  AddTasks([p EXCEPT !.asked[engine] = SubSeq(@, 1, i - 1) \o SubSeq(@, i + 1, Len(@))],
           <<Task("answer", p.asked[engine][i], result)>>)

\* Request i runs out of time: its worker goes, and with it every request.
\* Mutant: the other requests keep waiting, and their timers keep running.
ExpireOnlyOwn(p, engine, i) ==
  LET q == Settle(p, engine, i, "timeout") IN
  [q EXCEPT !.asked[engine] = [j \in DOMAIN @ |-> [@[j] EXCEPT !.lost = TRUE]]]
\* Mutant: the other requests are forgotten without an answer.
ExpireSilently(p, engine, i) == [Settle(p, engine, i, "timeout") EXCEPT !.asked[engine] = <<>>]
Expire(p, engine, i) ==
  LET others == SubSeq(p.asked[engine], 1, i - 1) \o SubSeq(p.asked[engine], i + 1, Len(p.asked[engine]))
      answers == [j \in DOMAIN others |-> Task("answer", others[j], "timeout")]
  IN AddTasks([p EXCEPT !.asked[engine] = <<>>],
              answers \o <<Task("answer", p.asked[engine][i], "timeout")>>)

-----------------------------------------------------------------------------
(* The verdict                                                             *)

GateRun(p) == [p EXCEPT !.disabled = InFlight(p) \/ HasErrors(p)]

\* Mutant: the answer to an older check counts for the new sources.
ScheduleLintSameGen(p) == GateRun([p EXCEPT !.verdict = "none", !.timer = TRUE])
ScheduleLint(p) == GateRun([p EXCEPT !.gen = @ + 1, !.verdict = "none", !.timer = TRUE])

ApplyLint(p, gen, v, verdict) ==
  IF gen = p.gen /\ v = p.view THEN GateRun([p EXCEPT !.verdict = verdict]) ELSE p

\* What a run found counts if the check has not said anything, or could not.
LintFromRun(p, gen, v, verdict) ==
  IF p.verdict \in {"none", "unchecked"} THEN ApplyLint(p, gen, v, verdict) ELSE p

\* yosysDiags, icarusDiags: a cancelled build has no diagnostics.
VerdictOfRaw(result) == result  \* mutant: how the engine ended is the verdict
VerdictOf(result) ==
  CASE result \in {"clean", "cancelled"} -> "clean"
    [] result \in {"errors", "failed"} -> result
    [] result \in {"crash", "timeout"} -> "unchecked"

StartLint(p) ==
  LET v == p.view
      q == [p EXCEPT !.timer = FALSE]
      c == [q EXCEPT !.checks[v] = [stage |-> IF v = "tb" THEN "asked" ELSE "waits", gen |-> p.gen]]
  IN CASE InFlight(p) -> q
       [] ~InFlight(p) /\ NoRole(p) -> ApplyLint(q, p.gen, v, "errors")
       [] ~InFlight(p) /\ ~NoRole(p) /\ v \in Busy(p) -> q
       [] OTHER -> IF v = "tb" THEN Ask(c, "tb", <<"lint", v>>)
                   ELSE IF p.warm THEN AddTasks(c, <<Task("warmed", [job |-> <<"lint", v>>, version |-> 0], "clean")>>)
                   ELSE c

\* The end of a check: a stale one makes room for the newest sources.
EndLint(p, v, verdict) ==
  LET gen == p.checks[v].gen
      q == [p EXCEPT !.checks[v] = [stage |-> "no", gen |-> 0]]
  IN CASE gen = p.gen /\ v = p.view -> IF verdict = "none" THEN q ELSE ApplyLint(q, gen, v, verdict)
       [] v = p.view /\ gen # p.gen /\ p.verdict = "none" /\ ~p.timer -> StartLint(q)
       [] OTHER -> q

\* yosys is warm (or its download gave up): ask, unless the page moved on.
LintWarmed(p, v) ==
  IF p.checks[v].gen = p.gen /\ v = p.view /\ ~InFlight(p)
  THEN Ask([p EXCEPT !.checks[v].stage = "asked"], "yosys", <<"lint", v>>)
  ELSE EndLint(p, v, "none")

-----------------------------------------------------------------------------
(* A run                                                                   *)

ResetBoard(p) == [p EXCEPT !.circuit = 0]

InvalidateRun(p) == [ResetBoard(p) EXCEPT !.runGen = @ + 1, !.disabled = FALSE]

RunRecord(p) == [n |-> p.runGen + 1, gen |-> p.gen, view |-> p.view]

\* The run's promise is there at once when a role is missing.
RunStarted(p) ==
  LET r == RunRecord(p)
      q == [p EXCEPT !.runGen = @ + 1, !.timer = FALSE, !.runs = @ \cup {r},
                     !.disabled = ~NoRole(p)]
      b == IF p.view = "board" THEN ResetBoard(q) ELSE q
  IN IF NoRole(p) THEN AddTasks(b, <<Task("finally", [job |-> <<"run", r.n>>, version |-> 0], "clean")>>)
     ELSE Ask(b, EngineOf(p.view), <<"run", r.n>>)

Run(p) == IF HasErrors(p) THEN GateRun(p) ELSE RunStarted(p)

TheRun(p, n) == CHOOSE r \in p.runs : r.n = n

\* runBoard and runTb after their compile: nothing, if the page moved on.
MovedOnNever(p, r) == FALSE  \* mutant: the generation is not looked at
MovedOn(p, r) == r.n # p.runGen \/ r.view # p.view

RunAnswered(p, r, task) ==
  LET found == LintFromRun([p EXCEPT !.disabled = FALSE], r.gen, r.view, VerdictOf(task.result))
      next  == IF MovedOn(p, r) THEN p
               ELSE IF r.view = "board"
               THEN IF task.result = "clean" /\ p.content["board"] = "ok"
                    THEN [found EXCEPT !.circuit = task.version] ELSE found
               ELSE IF task.result \in {"clean", "errors"} THEN found
               ELSE [p EXCEPT !.disabled = FALSE]
  IN AddTasks(next, <<Task("finally", task, task.result)>>)

\* The finally of run: check the sources unless something else will.
RunFinallyGateFirst(p, r) ==  \* mutant: the button is set while the run still counts
  LET q == [GateRun(p) EXCEPT !.runs = @ \ {r}] IN
  IF q.verdict = "none" /\ ~q.timer /\ Busy(q) = {} THEN StartLint(q) ELSE q
RunFinally(p, r) ==
  LET q == [p EXCEPT !.runs = @ \ {r}] IN
  GateRun(IF q.verdict = "none" /\ ~q.timer /\ Busy(q) = {} THEN StartLint(q) ELSE q)

-----------------------------------------------------------------------------
(* Microtasks                                                              *)

\* The reply to the first request, which downloads yosys: a page that began
\* with the board runs once by itself, and then the waiting check goes on.
Warmed(p, began) ==
  LET w == [p EXCEPT !.warm = TRUE]
      q == IF began = 1 THEN Run(w) ELSE w IN
  IF q.checks["board"].stage = "waits" THEN LintWarmed(q, "board") ELSE q

Perform(p, task) ==
  LET job == task.job IN
  CASE task.type = "finally" -> RunFinally(p, TheRun(p, job[2]))
    [] task.type = "warmed" -> LintWarmed(p, job[2])
    [] task.type = "answer" /\ job[1] = "warm" -> Warmed(p, job[2])
    [] task.type = "answer" /\ job[1] = "run" -> RunAnswered(p, TheRun(p, job[2]), task)
    [] task.type = "answer" /\ job[1] = "lint" -> EndLint(p, job[2], VerdictOf(task.result))

Microtask ==
  /\ page.tasks # <<>>
  /\ page' = Perform([page EXCEPT !.tasks = Tail(@)], Head(page.tasks))
  /\ UNCHANGED events

-----------------------------------------------------------------------------
(* Events: none begins before the microtasks of the last have run.          *)

AtRest == page.tasks = <<>>

Timer ==
  /\ AtRest /\ page.timer
  /\ page' = StartLint(page)
  /\ UNCHANGED events

\* yosys serves its queue in order; the testbench worker's replies may cross.
Served(engine) ==
  {i \in DOMAIN page.asked[engine] : /\ ~page.asked[engine][i].lost
                                     /\ engine = "yosys" => i = 1}

\* A newer compile was queued behind this one.
Overtaken(s) == s[1].job[1] = "run" /\ \E j \in 2..Len(s) : s[j].job[1] = "run"

\* What the sources deserve; or the tool stopped.  The testbench worker calls
\* that a crash.  The yosys worker makes an error of it (the tool does not
\* start, throws, or its answer cannot be used), but its warm-up never fails.
Answers(engine, i) ==
  LET s == page.asked[engine] IN
  {IF s[i].truth = "ok" THEN "clean" ELSE "errors"}
    \cup (IF engine = "tb" THEN {"crash"} ELSE {})
    \cup (IF engine = "yosys" /\ s[i].job[1] # "warm" THEN {"failed"} ELSE {})
    \cup (IF engine = "yosys" /\ Overtaken(s) THEN {"cancelled"} ELSE {})

Reply(engine) ==
  /\ AtRest
  /\ \E i \in Served(engine) : \E result \in Answers(engine, i) :
        page' = Settle(page, engine, i, result)
  /\ UNCHANGED events

TimeOut(engine) ==
  /\ AtRest
  /\ \E i \in DOMAIN page.asked[engine] : page' = Expire(page, engine, i)
  /\ UNCHANGED events

Does(p) == AtRest /\ events < MaxEvents /\ events' = events + 1 /\ page' = p

Edit(c) ==
  Does(ScheduleLint([InvalidateRun(page) EXCEPT !.content = c, !.version = @ + 1]))

\* An example or a project is opened in place of the workspace.
Open(c) ==
  Does(Run(ScheduleLint([InvalidateRun(page) EXCEPT !.content = c, !.version = @ + 1])))

SetView(v) ==
  Does(Run(ScheduleLint([page EXCEPT !.runGen = @ + 1, !.disabled = FALSE, !.view = v])))

PressRun == Does(Run(page))

-----------------------------------------------------------------------------
\* The last steps of boot: yosys is asked for after the board view was shown,
\* or after the testbench view has begun a run.
Init ==
  /\ events = 0
  /\ \E c \in Contents, v \in Views :
       LET shown == ScheduleLint(
             [view |-> v, content |-> c, version |-> 1, circuit |-> 0,
              timer |-> FALSE, gen |-> 0, verdict |-> "none", disabled |-> FALSE,
              checks |-> [w \in Views |-> [stage |-> "no", gen |-> 0]],
              runs |-> {}, runGen |-> 1, warm |-> FALSE,
              asked |-> [e \in Engines |-> <<>>], tasks |-> <<>>])
       IN page = IF v = "board" THEN Ask(shown, "yosys", <<"warm", 1>>)
                 ELSE Ask(Run(shown), "yosys", <<"warm", 0>>)

Loop == Microtask \/ Timer \/ \E e \in Engines : Reply(e) \/ TimeOut(e)

Next ==
  \/ Loop
  \/ \E c \in Contents : Edit(c) \/ Open(c)
  \/ \E v \in Views : SetView(v)
  \/ PressRun

Spec == Init /\ [][Next]_vars

\* The event loop goes on, and each request is answered or runs out of time.
FairSpec == /\ Spec
            /\ WF_vars(Microtask) /\ WF_vars(Timer)
            /\ \A e \in Engines : WF_vars(Reply(e) \/ TimeOut(e))

-----------------------------------------------------------------------------
(* Properties *)

Job     == ({"lint"} \X Views) \cup ({"run", "warm"} \X Nat)
Request == [job : Job, truth : {"ok", "bad"}, version : Nat, lost : BOOLEAN]
PageTask == [type : {"answer", "warmed", "finally"}, job : Job, result : Results, version : Nat]
Page == [view : Views, content : Contents, version : Nat, circuit : Nat, timer : BOOLEAN,
         gen : Nat, verdict : Verdicts, disabled : BOOLEAN,
         checks : [Views -> [stage : {"no", "waits", "asked"}, gen : Nat]],
         runs : SUBSET [n : Nat, gen : Nat, view : Views], runGen : Nat, warm : BOOLEAN,
         asked : [Engines -> Seq(Request)], tasks : Seq(PageTask)]

(* The page record is well typed.                                          *)
PageTypeOK == page \in Page

\* Nothing is under way.
Quiet == /\ page.tasks = <<>> /\ page.runs = {} /\ ~page.timer /\ Busy(page) = {}
         /\ \A e \in Engines : page.asked[e] = <<>>

\* The circuit that runs on the board was built from the present sources.
CircuitIsCurrent == page.circuit \in {0, page.version}

(* The panel and the board are about the sources and the view on the page,  *)
(* however late the answer each came with: an error of the design is one of  *)
(* these sources, "none" is said only of sources that compile, a failure of  *)
(* yosys itself shows (and closes run) only in the board view, which it      *)
(* compiles for, and a circuit that runs was built from these sources.      *)
VerdictIsTrue ==
  /\ page.verdict = "errors" => ~Compiles(page)
  /\ page.verdict = "clean" => Compiles(page)
  /\ page.verdict = "failed" => page.view = "board"
  /\ CircuitIsCurrent

(* "a check that did not finish says nothing about the design: ... never     *)
(* close run for it" (main.js, line 294).  No run checks this: the page      *)
(* keeps it of time-outs and of iverilog, but not when yosys itself fails,   *)
(* because its worker answers as if the design had an error.               *)
ClosedOnlyByTheSources == HasErrors(page) => ~Compiles(page)

(* When no run is in flight the run button is closed exactly by errors in    *)
(* the panel: it never stays closed behind an abandoned run.               *)
ButtonTellsTheTruth ==
  (page.tasks = <<>> /\ page.runs = {}) => (page.disabled <=> HasErrors(page))

(* Every request is with a worker that can answer it: none waits for a      *)
(* worker that was replaced, to kill the fresh one when its time is up.    *)
NobodyWaitsInVain ==
  \A e \in Engines : \A i \in DOMAIN page.asked[e] : ~page.asked[e][i].lost

(* The page comes to rest after the last event: every run, check and request *)
(* ends, though workers may hang and be replaced.                          *)
PageComesToRest == <>[]Quiet

(* A page at rest has a verdict on its sources: "the run answers for this    *)
(* generation (run() lints afterwards if it did not)" (main.js, line 358).  *)
RestingMeansChecked == Quiet => page.verdict # "none"
=============================================================================
