----------------------------- MODULE BuildPipeline ----------------------------
(***************************************************************************)
(* The two compile workers of the simulator (sim/yosys.worker.js with          *)
(* yosys-pipeline.js, tb/tb.worker.js): which reader reads a design, which     *)
(* messages of yosys stop the build, when the build is tried again with the    *)
(* second reader, and which answer a request gets while newer requests come.   *)
(* What the tools say of a design is part of the design.                     *)
(***************************************************************************)
EXTENDS Naturals, Sequences, FiniteSets

CONSTANTS Submitted,     \* designs: [scan, read, hw, synth, bench], see SourceOK
          MaxRequests

Readers == {"yosys", "slang"}
Kinds   == {"compile", "lint", "warm", "malformed"}
NoBuild == [stage |-> "idle"]

\* One run of a tool: [ok, log, cells, err].  A message of the log has a text and,
\* if it is about drivers, their number by sort; about a name, its form.
Said(t) == [text |-> t]

ASSUME PipelineAssumption ==
  /\ MaxRequests \in Nat
  /\ \A d \in Submitted :
       /\ DOMAIN d.read = Readers /\ DOMAIN d.hw = Readers /\ DOMAIN d.synth = Readers
       /\ d.bench \in {"ok", "compile", "crash", "sim-exit", "testbench-error"}
       /\ \A r \in Readers : {d.read[r].ok, d.hw[r].ok, d.synth[r].ok} \subseteq BOOLEAN

VARIABLES queue, latest, work,  \* the yosys worker: its promise chain, and the build that runs
          benches,              \* the testbench worker: what runs, in no order
          answers, requests     \* what was posted; what was asked: id -> [kind, design, lives]
buildVars == <<queue, latest, work, benches, answers, requests>>

-----------------------------------------------------------------------------
(* Messages *)

GuardCodes == {"empty-module", "always-and-assign", "two-always-drivers",
               "two-assign-drivers", "multiple-drivers"}
ErrorCodes == GuardCodes \cup
  {"scan", "syntax", "frontend", "exists", "wasm", "failed", "module-not-found", "async-reset-nonconst",
   "package-not-found", "interface-member", "hierarchical-name", "undeclared-name"}
ErrorsIn(codes) == codes \cap ErrorCodes

LibraryClash(codes) == "exists" \in codes
GuardCode(codes) == codes \cap GuardCodes # {}

\* Conflicting drivers of one signal, by what writes it.  Nothing of a pad cell.
DriversCode(w) ==
  CASE w.pad -> {}
    [] ~w.pad /\ ~w.placed /\ w.muxes -> {"conflict"}
    [] ~w.pad /\ (w.placed \/ ~w.muxes) ->
         IF w.assigns > 0 /\ w.always > 0 THEN {"always-and-assign"}
         ELSE IF w.always > 1 THEN {"two-always-drivers"}
         ELSE IF w.assigns > 1 \/ (w.assigns > 0 /\ w.zs > 0) THEN {"two-assign-drivers"}
         ELSE IF w.zs > 0 /\ w.always = 0 THEN IF w.inout THEN {"conflict"} ELSE {"tristate-to-logic"}
         ELSE {"multiple-drivers"}

\* A name yosys declared by itself is refused when nothing drives it.
NameCode(n) ==
  CASE n.driven -> {"implicit"}
    [] ~n.driven /\ n.form = "member" -> {"interface-member"}
    [] ~n.driven /\ n.form = "dotted" -> {"hierarchical-name"}
    [] ~n.driven /\ n.form = "package" -> {"package-not-found"}
    [] ~n.driven /\ n.form = "ours" -> {"implicit"}  \* pkg::name of a package that is there
    [] ~n.driven /\ n.form = "plain" -> {"undeclared-name"}

Coded(msg) ==
  CASE msg.text = "conflict" -> DriversCode(msg.writers)
    [] msg.text = "implicit" -> NameCode(msg.name)
    [] msg.text = "missing" -> {"module-not-found"}
    [] OTHER -> {msg.text}
CodesOf(log) == UNION {Coded(msg) : msg \in log}

PreflightCodes(cells) ==
  {IF c = "aldff" THEN "async-reset-nonconst" ELSE "latch" : c \in cells \cap {"aldff", "latch"}}

SlangMayHelp(log) ==
  LET errs == {msg \in log : ErrorsIn(Coded(msg)) # {} /\ msg.text \notin {"conflict", "implicit"}} IN
  /\ errs # {} /\ Said("missing") \notin errs
  /\ \E msg \in errs : msg.text = "syntax"

-----------------------------------------------------------------------------
(* One build *)

RefusedBuild(codes) == [ok |-> FALSE, reader |-> "yosys", codes |-> codes]
OrFailed(codes) == IF ErrorsIn(codes) = {} THEN codes \cup {"failed"} ELSE codes

\* What a reader's netlist must pass before the hardware check.
Accepted(reader, r) ==
  LET codes == CodesOf(r.log)
      all   == codes \cup PreflightCodes(r.cells) IN
  IF ~r.ok \/ ErrorsIn(codes) # {} THEN RefusedBuild(OrFailed(codes))
  ELSE [ok |-> ErrorsIn(all) = {}, reader |-> reader, codes |-> all]

\* Our own reader took the design, but left a name that nothing drives.
Unresolved(d) ==
  d.read["yosys"].ok /\ CodesOf(d.read["yosys"].log) \cap {"hierarchical-name", "interface-member"} # {}

\* Our own reader first, unless the second is asked for; the second when the first
\* refused in a way the second may not, or left a name without a driver.
Compile(d, force) ==
  LET r == d.read["yosys"]
      s == d.read["slang"]
      second == force \/ (~r.ok /\ SlangMayHelp(r.log)) \/ Unresolved(d) IN
  CASE d.scan -> RefusedBuild({"scan"})
    [] ~d.scan /\ ~force /\ ~r.ok /\ r.err = "wasm" -> RefusedBuild({"wasm"})
    [] OTHER -> IF ~second THEN Accepted("yosys", r)
                ELSE IF s.ok THEN Accepted("slang", s)
                ELSE RefusedBuild(OrFailed(ErrorsIn(CodesOf(r.log)) \cup CodesOf(s.log)))

\* The same reader again, as the command line reads, and then the synthesis.
CheckHardware(d, reader) ==
  LET a == d.hw[reader]
      b == d.synth[reader]
      codes == CodesOf(a.log) \cup PreflightCodes(a.cells) \cup CodesOf(b.log) IN
  IF ~a.ok THEN [ok |-> FALSE, codes |-> OrFailed(CodesOf(a.log))]
  ELSE [ok |-> b.ok /\ ErrorsIn(codes) = {}, codes |-> IF b.ok THEN codes ELSE OrFailed(codes)]

Merge(res, validation) ==
  [res EXCEPT !.ok = validation.ok, !.codes = @ \cup validation.codes]

-----------------------------------------------------------------------------
(* The yosys worker: one build after the other *)

Cancelled(w) == w.kind = "compile" /\ latest # w.id
Answer(id, ok, cancelled, reader) ==
  [id |-> id, ok |-> ok, cancelled |-> cancelled, reader |-> reader, newest |-> latest = id]

Ask(kind, d) ==
  LET id == Len(requests) + 1 IN
  /\ Len(requests) < MaxRequests
  /\ requests' = Append(requests, [kind |-> kind, design |-> d, lives |-> TRUE])
  /\ IF kind = "malformed"
     THEN answers' = answers \cup {Answer(id, FALSE, FALSE, "yosys")} /\ UNCHANGED <<queue, latest>>
     ELSE /\ queue' = Append(queue, id) /\ latest' = (IF kind = "compile" THEN id ELSE latest)
          /\ UNCHANGED answers
  /\ UNCHANGED <<work, benches>>

Begin ==
  /\ work = NoBuild /\ queue # <<>>
  /\ queue' = Tail(queue)
  /\ LET r == requests[Head(queue)] IN
     IF r.kind = "warm" THEN answers' = answers \cup {Answer(Head(queue), TRUE, FALSE, "yosys")} /\ UNCHANGED work
     ELSE /\ work' = [stage |-> "read", id |-> Head(queue), kind |-> r.kind, design |-> r.design,
                      res |-> RefusedBuild({}), validation |-> [ok |-> FALSE, codes |-> {}]]
          /\ UNCHANGED answers
  /\ UNCHANGED <<latest, benches, requests>>

Moves(stage) == work.stage = stage /\ UNCHANGED <<queue, latest, answers, benches, requests>>

Read ==
  /\ Moves("read")
  /\ LET res == Compile(work.design, FALSE) IN
     work' = [work EXCEPT !.stage = IF ~res.ok \/ Cancelled(work) THEN "post" ELSE "check", !.res = res]

\* The cell library of the synthesis clashes with a name of the user: once more.
Check ==
  /\ Moves("check")
  /\ LET v == CheckHardware(work.design, work.res.reader)
         retry == /\ ~v.ok /\ work.res.reader = "yosys" /\ LibraryClash(v.codes) /\ ~GuardCode(v.codes)
                  /\ ~Cancelled(work) IN
     work' = [work EXCEPT !.validation = v, !.stage = IF retry THEN "again" ELSE "post",
                          !.res = IF retry THEN @ ELSE Merge(@, v)]

\* The second try replaces the build and its check together, or neither.
RetriedHalf(res, validation, again, v2) == IF v2.ok THEN Merge(res, v2) ELSE Merge(res, validation)  \* mutant
Retried(res, validation, again, v2) == IF v2.ok THEN Merge(again, v2) ELSE Merge(res, validation)
ReadAgain ==
  /\ Moves("again")
  /\ LET again == Compile(work.design, TRUE) IN
     work' = IF again.ok /\ ~Cancelled(work) THEN [work EXCEPT !.stage = "check again"]
             ELSE [work EXCEPT !.stage = "post", !.res = Merge(@, work.validation)]
CheckAgain ==
  /\ Moves("check again")
  /\ LET again == Compile(work.design, TRUE) IN
     work' = [work EXCEPT !.stage = "post",
                          !.res = Retried(@, work.validation, again, CheckHardware(work.design, again.reader))]

Post ==
  /\ work.stage = "post" /\ work' = NoBuild
  /\ answers' = answers \cup {IF Cancelled(work) THEN Answer(work.id, FALSE, TRUE, work.res.reader)
                              ELSE Answer(work.id, work.res.ok, FALSE, work.res.reader)}
  /\ UNCHANGED <<queue, latest, benches, requests>>

\* The page terminates the worker: a fresh one knows of nothing.
Terminate ==
  /\ work # NoBuild \/ queue # <<>>
  /\ queue' = <<>> /\ latest' = 0 /\ work' = NoBuild
  /\ requests' = [i \in DOMAIN requests |->
                [requests[i] EXCEPT !.lives = @ /\ (requests[i].kind \in {"bench", "bench-lint"} \/ \E a \in answers : a.id = i)]]
  /\ UNCHANGED <<answers, benches>>

-----------------------------------------------------------------------------
(* The testbench worker: every message at once *)

AskBench(kind, d) ==
  /\ Len(requests) < MaxRequests
  /\ requests' = Append(requests, [kind |-> kind, design |-> d, lives |-> TRUE])
  /\ benches' = benches \cup {[id |-> Len(requests) + 1, stage |-> "compile"]}
  /\ UNCHANGED <<queue, latest, work, answers>>

BenchAnswers(j, ok) ==
  /\ benches' = benches \ {j} /\ answers' = answers \cup {Answer(j.id, ok, FALSE, "yosys")}
  /\ UNCHANGED <<queue, latest, work, requests>>

\* A check never starts the simulation.  Anything thrown is an answer, too.
BenchCompiled(j) ==
  /\ j.stage = "compile"
  /\ LET r == requests[j.id] IN
     IF r.design.bench \in {"compile", "crash"} \/ r.kind = "bench-lint"
     THEN BenchAnswers(j, r.design.bench \notin {"compile", "crash"})
     ELSE benches' = (benches \ {j}) \cup {[j EXCEPT !.stage = "run"]}
          /\ UNCHANGED <<queue, latest, work, answers, requests>>
\* An exit status or an ERROR or FATAL line of the testbench fails the run.
BenchRan(j) == j.stage = "run" /\ BenchAnswers(j, requests[j.id].design.bench \notin {"sim-exit", "testbench-error"})

-----------------------------------------------------------------------------
BuildInit == /\ queue = <<>> /\ latest = 0 /\ work = NoBuild
             /\ benches = {} /\ answers = {} /\ requests = <<>>

BuildWorks == Begin \/ Read \/ Check \/ ReadAgain \/ CheckAgain \/ Post
BuildStep ==
  \/ BuildWorks \/ Terminate
  \/ \E kind \in Kinds, d \in Submitted : Ask(kind, d)
  \/ \E kind \in {"bench", "bench-lint"}, d \in Submitted : AskBench(kind, d)
  \/ \E j \in benches : BenchCompiled(j) \/ BenchRan(j)

BuildSpec == BuildInit /\ [][BuildStep]_buildVars

-----------------------------------------------------------------------------
(* Properties *)

(* The workers' state is well typed.                                        *)
BuildTypeOK ==
  /\ queue \in Seq(Nat) /\ latest \in Nat
  /\ work.stage \in {"idle", "read", "check", "again", "check again", "post"}
  /\ \A j \in benches : j.stage \in {"compile", "run"}
  /\ \A i \in DOMAIN requests : requests[i].kind \in Kinds \cup {"bench", "bench-lint"} /\ requests[i].lives \in BOOLEAN
  /\ \A a \in answers : a.reader \in Readers

\* A reader's netlist is good: it read the design, and synthesis takes it.
Sound(d, reader) ==
  /\ ~d.scan
  /\ \A r \in {d.read[reader], d.hw[reader], d.synth[reader]} :
       r.ok /\ ErrorsIn(CodesOf(r.log)) = {}
  /\ "aldff" \notin d.read[reader].cells \cup d.hw[reader].cells
\* Our own reader did not read it all, or no guard of its hardware check refused it.
MayRebuild(d) ==
  ~d.read["yosys"].ok \/ Unresolved(d) \/ ~GuardCode(CheckHardware(d, "yosys").codes)

KindOfAnswer(a) == requests[a.id].kind

(* "Validate before publishing a runnable circuit: DONE cannot precede this    *)
(* result" (yosys.worker.js, line 77): a circuit is handed out only if the     *)
(* reader that made it read the design without an error and the hardware check *)
(* of that same reader passed, "the command line never retries a build its     *)
(* driver guards refused", and a run's circuit is that of the newest run.  A   *)
(* run is cancelled only by a newer run, never by a check; each request of a   *)
(* living worker gets exactly one answer; a testbench that reports an error     *)
(* is never a success.                                                       *)
RunnableMeansValidated ==
  /\ \A a \in answers :
       /\ (a.ok /\ KindOfAnswer(a) \in {"compile", "lint"}) =>
            /\ Sound(requests[a.id].design, a.reader)
            /\ a.reader = "slang" => MayRebuild(requests[a.id].design)
       /\ (a.ok /\ KindOfAnswer(a) = "compile") => a.newest
       /\ a.cancelled => \E i \in (a.id + 1)..Len(requests) : requests[i].kind = "compile"
       /\ (a.ok /\ KindOfAnswer(a) = "bench") => requests[a.id].design.bench = "ok"
       /\ \A b \in answers : a.id = b.id => a = b
  /\ (work = NoBuild /\ queue = <<>> /\ benches = {}) =>
       \A i \in DOMAIN requests : requests[i].lives => \E a \in answers : a.id = i
=============================================================================
