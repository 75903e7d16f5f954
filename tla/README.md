# dewfpga in TLA+

TLA+ models of the stateful parts of [dewfpga](../src/README.md), the TLC runs
that check them on small instances, and proofs for the parts that must hold for
every instance. The models are translated from the code under `src/`; each
definition's lines are listed in `PROJECT.json` (`map`).

## 1. The system

dewfpga is a command line and a set of templates for FPGA projects, a browser
simulator, a VS Code extension and a newsletter with its mailer. Most of the
files are text, examples and vendored tools. The parts that keep state and can
go wrong over several steps are these.

| component | state | operations | partners | hard because |
|---|---|---|---|---|
| mail ledger (`mail/sql/002`) | one row per derived key: status, claims, token, times, payload; enrolment and caps | reserve, settle, resolve, budget | mail sender, operator | lost answers, leases, late settles, rolling counts at their limit |
| mail sender (`mail/dewfpga_mail.py`, `_send`) | one run's claim, tries, doubt, deadline | observe usage, reserve, call, settle, next key | ledger, provider | overlapping runs, crashes between any two calls, time-outs, a store that forgets |
| newsletter and account (`mail/sql/001`, `003`) | one row per address (tokens, times, account), profiles | subscribe, confirm, unsubscribe, link, enrol, delete, mark, prune | people's browsers, confirmation run | two snapshots in one function, links of old consents, cleanup against late marks |
| confirmation run (`confirmations`) | the list it read, the item it is at | prune, list, send, mark | tables, sender | a list that ages while it is worked through; overlapping runs |
| owner test, approval, campaign | test rows, the approval, one campaign's list | test, approve, gate, eligibility, send | ledger, tables, sender | superseded tests, consent withdrawn during the loop |
| site account and newsletter pages (`site/mail.js`) | the tab's session, forms that wait, what the page says | sign in and out, confirm, link, enrol, export, delete | the tables' functions | sessions that end between load and click, lost and late answers |
| simulator page (`sim/src/sim/main.js`) | run and lint generations, pending requests | run, lint, reply, time-out | compile workers | stale replies, replaced workers |
| simulator files (`files.js`, `workspace.js`, `project.js`) | the tabs, what is saved, the picks of top, testbench and pins | edit, rename, save, share, import, archive, reload | browser storage, page | failing saves, picks that outlive their files |
| simulator board (`board.js`, `engine.js`, `xdc.js`, `board-links.js`) | held buttons, switches, the running circuit, what is hovered | press, run, clock, hover | page | a circuit replaced under held buttons, marks in edited text |
| compile workers (`yosys.worker.js`, `yosys-pipeline.js`, `tb.worker.js`) | a serial queue, the tools' logs | build, retry with the second reader, cancel, hints | page | cancelled builds, refusals that must not be retried |
| waveform window (`templates/wave/wave.js`) and pane (`sim/src/tb/vcd.js`, `wave.js`) | parsed changes; rows, zoom, markers, selection, stored layout | read a file, zoom, drag, expand, jump, save, reopen | browser storage | a new run under kept rows, the first and the last change |
| VS Code extension (`vscode/extension.js`) | problems, tops, the linter's path, offers | run, pick a top, lint, simulate, new design | editor, terminal | a shared collection, dialogs that answer late |
| home page (`docs/home/*.js`) | the drawn board, pulses, the stage of the scroll | click, press, scroll, lay out, frame | - | frames between relayouts, interrupted slides |
| JSON runner, MCP server (`templates/agent_json.py`, `mcp_server.py`) | a child process, its readers, a timer | run, cancel, kill, report | agent, process tree | time-out against exit, pipes kept open, escaped groups |
| MCP installer (`mcp_setup.py`) | lock file, staged and live folder, ownership marker | install, swap, remove | other installers | a lock that its holder deletes, crashes in the swap |
| single-file run, Makefile | cache folder, signatures, board lock | lock, clean, build, program | other runs | two runs of one file, stale outputs |
| toolchain installer (`install.sh`) | stamps | step, prune, resume | - | crash in and between steps |
| VS Code task writer | tasks and manifest | write, roll back | editor | pair of files written one after the other |
| design checker | none between calls | parse, report | command line | pure algorithms |

What makes each correct, in one line: the ledger never lets one mail be accepted
twice and never lies about a mail; a newsletter row obeys only the links of its
present consent; a campaign goes out only under the approval of the latest test and
to nobody who had left; the page shows a verdict only of the sources it shows; an edit
is stored or known not to be; an archive opens as what was on the page; the circuit
sees the board as it is; a build that was refused is not run; a waveform shows the
file, and its layout survives the next run; problems, tops and the linter's path are
those of the last command; a page says only what was done. Of the parts not modelled:
a runner gives exactly one result and leaves no process; two installers or runs never
work in the same folder and a crash leaves a state the next one understands.

## 2. Modules

| module | models | kind |
|---|---|---|
| `MailLedger` | the ledger's functions, and the guarantees they give any caller | component |
| `MailSender` | `EXTENDS MailLedger`: `_send`, the provider, the operator | composition |
| `OnceMail` | the promise of the two: one acceptance, reported only after it | abstract specification |
| `Newsletter` | the tables of 001 and 003 | component |
| `ConfirmationRun` | `EXTENDS Newsletter`: `confirmations` and people; sends through `OnceMail` | composition |
| `Campaign` | `EXTENDS Newsletter`: owner tests, approval, gate, the campaign's loop, readers | composition |
| `SimPage` | the simulator page and the requests to its two compile workers | component |
| `SimWorkspace` | the tabs, the saved workspace, links, replacement, reload | component |
| `SimProject` | `EXTENDS Filtered`: what the files mean: modules, choices, import, archive | component |
| `SimBoard` | inputs, pins, the circuit under them, frames | component |
| `BoardLinks` | `EXTENDS SimBoard`: hovering between code and board | component |
| `BuildPipeline` | the compile workers and what they make of the tools' answers | component |
| `TimingHints` | the hints about slow counters, beside the clocked netlist | algorithm and reference |
| `Filtered` | filtering a list | operators |
| `WaveSeries` | `EXTENDS Filtered`: series of changes: merging, search, blocks | operators |
| `WaveDump` | `EXTENDS WaveSeries`: reading a VCD file, both viewers beside the file | algorithm and reference |
| `WaveViewer` | `EXTENDS WaveSeries`: the waveform window and its stored layout | component |
| `WaveViewers` | `EXTENDS WaveDump, WaveViewer`: reading and using, side by side | composition |
| `EditorExtension` | runs and problems, tops, linter, waveforms, starter design | component |
| `AccountPage` | the site's newsletter and account pages | component |
| `HomeBoard`, `HomeStage` | the home page's board, and its stage | components |
| `HomePage` | `EXTENDS HomeBoard, HomeStage`: both on one page | composition |
| `Desk` | `EXTENDS` the extension, the simulator's parts, `AccountPage`, `HomePage`: all of them side by side | composition |
| `SequenceProofs` | induction from the least counterexample, recursive functions, filtered and cut sequences | proofs |
| `MailProofs` | theorems about `MailLedger`, and about `MailSender` with its refinement of `OnceMail` | proofs |
| `NewsProofs` | theorems about `Newsletter` with `ConfirmationRun` and `Campaign` | proofs |
| `PageProofs`, `SimulatorProofs` | theorems about `SimPage`, and about `SimWorkspace`, `SimBoard`, `BoardLinks` and `BuildPipeline` | proofs |
| `WaveProofs` | theorems about `WaveViewers`: series, both readers, the window | proofs |
| `SiteProofs` | theorems about `HomePage` and `AccountPage` | proofs |
| `DeskProofs` | theorems about `EditorExtension`, `SimProject`, and `Desk` | proofs |
| `MCLedger`, `MCMail`, `MCNews`, `MCPage`, `MCWaves`, `MCDesk` | instances, symmetry and constraints for TLC | model checking |

The chain is deliberate. `MailSender` is shown to implement `OnceMail`
(`ImplementsOnceMail`), and `ConfirmationRun` takes its sending steps from
`OnceMail`'s actions, so that the newsletter is checked against what the sender
was shown to do and not against a guess. `Campaign` uses the same promise in its
weaker form: a body that was claimed may be accepted once, at any later time.

`MCLedger`, `WaveViewers` and `Desk` put parts that do not touch each other side by
side: a variable `part`, chosen at the start, says which of them moves, and the others
stand still. Their state spaces add up and do not multiply. `DeskSpec` starts every part anywhere its
own specification may start; `MCDesk` fixes where the parts start that stand still, which
leaves out no behaviour of the part that moves.

### How the mail models correspond to the code

*Keys.* `key_variant` derives `key`, `key:r2`, ... from a logical key; here a key
is the pair `<<mail, attempt>>`. A row is a record with the columns the
functions read: `status`, `claims` (`attempts`), `token` (the claim's fencing
token, here its number), `first` and `last` attempt, `settled`, `doubt`
(`unknown_seen`) and the bound `payload`. `LedgerTypeOK` says which are possible.

*reserve* is one transaction under an advisory lock and so one action per
outcome: `Reclaim` and `Insert` change the ledger, `NoClaim` answers without a
change (`KnownKeyDecides` and `NewKeyDecides` are the checks in the order of the
function: the row of the key first, then the siblings, then the budget).
*settle* is `SettledRow`, a function of the row, the token and the status:
`AcceptedRow` for an acceptance whoever brings it, `CurrentRow` for the present
claim, `StaleRow` for a late one, which leaves at most its doubt.

*_send* is `Start`, then per key `ReserveClaims` or `ReserveDeclines`,
`TakeAnswer` (the deadline is computed when the answer arrives), `Call`,
`UnknownAnswer` or the provider's `Handle`, `StopCalling`, `SettleClaim` and
either `NextKey` or the outcome. `Crash` may come between any two of them: it is a
killed process as well as a ledger call that raises. `Defer` is the usage gate
that declines. A request that was sent is in `wire` and reaches the provider
whether or not its sender lives.

*The provider* is external. It is what `_send`'s docstring, the constant at
`dewfpga_mail.py:36` and the tests' fake say: an accepted key is replayed for
`Store` time, the same key with another body is a conflict, anything may be
refused, any reply may be lost.

*The operator* resolves a row as `mail/README.md` asks: sent on the provider's
evidence, failed only when no call of that key is running or on its way
(`Quiet`) - "do not mark an attempt definitely unsent merely because a recent
log search found no match". A careless operator can make the ledger lie; no
code prevents that, and the model does not contain one.

### How the newsletter models correspond to the code

Consents are numbered in the order they are recorded, and the tokens minted with
a consent carry its number; `confirm` and `unsub` stay separate fields, so a
token that outlives its consent shows. `id` survives a new consent, as in the
table. `dewfpga_subscribe` is `SubscribeNew` (insert), or `SubscribeAgain` (the
SELECT and its checks) followed by `Renew` (the UPDATE by id): under READ
COMMITTED the second statement sees whatever was committed in between, and only
another subscribe waits for the advisory lock. The remaining functions are one
action each. `confirm` and `delete_me` read a profile and write a row in separate
statements, but the foreign key from the row to the profile turns the harmful
order into an error or a cascade, so they are atomic here.

`ConfirmationRun` has the five calls of the loop: `StartRun` (prune), `List`
(the oldest `Limit`), `Accepted` and `SendReturnsSent`/`SendReturnsOther`, `Mark`.
`Halt` is a crash, an exception or a budget halt between any two.
Clicks use the tokens printed in an accepted mail; every later mail of a consent
(a campaign's) carries the same unsubscribe token, so confirmations suffice.
`clicks` records which clicks had an effect, in which mail and by whom: it is
history for the properties and no action reads it.

### How the campaign model corresponds to the code

One entry (one content hash). `tests` holds its owner-test rows in the order of their ids;
`ReadOwner` and `SendTest` are the two calls of `owner_test`, which the owner may leave
in between. `TestSettles` stands for every way a row of the ledger moves (`MailLedger`
has them in detail; a row that is in doubt is never released). `Approve` is
`dewfpga_mail_approve`, `GateOpen` the query of the gate. `camp[w]` is one run of
`campaign`: the list read once, the recipient it is at, and as history the approval
it began under and what consents had ended when it turned to the recipient.
`intent` is the body an address's mail is bound to by the first reserve: the key does
not contain the token, the body does, and so a recipient with a fresh consent raises an
identity mismatch and is skipped. `HaltCampaign` is a budget halt, another error, or a
killed process.

### How the page model corresponds to the code

`main.js` is one event loop. An event (an edit, a run, the timer, a reply) runs
to its end and then its microtasks run before the next event, so the page is one
record, each function is an operator on it, and an action composes what one event
calls. What stands after an `await` is a task in `page.tasks`: `answer` for a
settled request, `warmed` for the wait on `yosysWarm`, `finally` for the end of
`run()`. `gen` is `lint.generation`, `runGen` is `runGeneration`, `runs` the runs
that `runsInFlight` counts, `checks` the `busy` set with the generation each check began with,
`asked` the pending requests per worker in the order they were posted. A design
is what its compile will say; `truth` is what the sources said when they were
posted. yosys serves its queue in order and cancels an overtaken run; replies of the
testbench worker, which keeps no queue, may cross. `TimeOut` may come at any
time and replaces the worker. A reply that a terminated worker had already
posted finds no pending request and changes nothing, so it is left out. A tool that
stops is a `crash` of the testbench worker, which the page takes for unchecked. The yosys
worker makes an error of the design of it wherever it happens: the wasm does not start
(`yosys.worker.js:40`), a pass throws or ends without a message (`:20`, `:67`, `:96`, `:108`, `:121`).
That is the result `failed`, which any check or run of the board view may get, and a verdict
of this name: the page treats it as it treats `errors` (`HasErrors`), and only the properties tell the two
apart.
`circuit` is the version of the sources that runs on the board, 0 for none.

### How the simulator models correspond to the code

`SimWorkspace`: `Valid` is `validateImport` with the limit of a file (1 MiB, the text `Big`) but
without the 8 MiB of all files together, which an edit may exceed with the same result. `files` are the tabs, `raw` says that a tab's bytes are as they were
read, `dirty`, `saveTimer` and `failed` are the flags of `workspace.js`. Every handler that
saves takes its result (`ok`) as an input. `Reload` is the page going and the next boot:
link, saved workspace or example, in the order of `main.js`.

`SimProject`: a source is the sequence of modules it declares, each with the modules it
uses. A definition is a place, the file and its number in it, and places are in the order in which
`parseModules` reads: the first of each name is kept. `Resolve` is `resolve`, `OpenFolder` the
import with or without a Vivado project, and `Reopened` what the archive of a workspace means
when it is opened again, with its files in any order.

`SimBoard`: `lit` is what the controls show, `keyHeld` and `ptrHeld` the two sets of
`board.js`, `circuit` the bound design with its inputs, clock and flip-flops.
`PressBoardRun` and `RunEnds` are the two ends of a run, and everything else may happen
in between. `Frame` is one animation frame.

`BoardLinks`: `linked` is the design the links were set for, `marks` what is marked in the
code, `glow` what is lit on the board, `tip` what is printed. An edit drops both ways until
a run compiled, be it one whose pins do not bind. The other view and renames are left out (they reset as an edit does).

`BuildPipeline`: what yosys and slang say of a design is part of the design; the
pipeline's decisions (which messages stop it, when the second reader is tried, which check
follows, when a request is answered as cancelled) are the actions.

`TimingHints` reads a netlist as `timingHints` does, and beside it clocks the same netlist.
`Counter` of three bits; `LeastCycles` and `LeastBit` stand for 10000 cycles and bit 14.

### How the waveform models correspond to the code

`WaveDump` reads a file token by token, in the parser of the window and in that of the
pane, and remembers the changes as written; `ViewersShowTheFile` compares them at every
time, for a bus and its bits. `WaveViewer` has one action per handler of the window.
Times are whole ticks; the edges of the view, which are fractions in the code, are
rounded. `Open` is the page of a run of the testbench, `Close` its end: a change within the
150 ms before it is lost, as in the code. `mountVsCode` has no caller and is left out.

### How the extension and site models correspond to the code

`EditorExtension`: five parts with their own steps. What the extension awaits splits a
handler in two actions (`PickTop` and `Pick`, `SetupLinter` and `Recorded`), and other
commands may come in between. The linter's setting and the two records about it are written one
after the other, and the window may close after each.
Choosing a top and writing the starter design (`TopStep`, `DesignStep`) are modelled, but only the
type invariant speaks of them; the same holds of the scope paths in `WaveDump`.

`AccountPage`: each function of `mail.js` is an operator from one record of the page to the
next; `Serve` is the server's side of a call and `Answered` its answer, which may be lost or
late. A handler takes no time (it evaluates the session twice, `mail.js:90` and `:159`).
`HomeBoard` and `HomeStage` count frames and ten-thousandths of the scroll; geometry,
colours and the drawing itself are left out.

## 3. Runs

| run | cfg | asks | shows |
|---|---|---|---|
| `mail_ledger` | `MailLedger.cfg` | what holds for *any* caller: every key reserved with every payload, every claim settled with any status at any time; beside it a campaign to an owner and a reader | types and bounds, sticky doubt, one payload per mail, sent is final, a new key only after refusals; a campaign runs only under the approval of the latest test, turns to nobody who had left, and sends one body to each |
| `mail_race` | `MailRace.cfg` | two overlapping runs of one mail, crashes, lost answers, late requests, leases, the operator | at most one acceptance, a truthful ledger, one live key, no call past the window, refinement of `OnceMail` |
| `mail_budget` | `MailBudget.cfg` | two mails compete for a share of one, enrolment comes and goes | recent acceptances are all counted, the share is never exceeded |
| `mail_retry` | `MailRetry.cfg` | two tries per claim, a payload that differs between runs, a machine that may sleep | no key meets the provider with two bodies, every run not killed returns |
| `mail_outcome` | `MailOutcome.cfg` | the documented outcomes | **violated**, finding 1 |
| `news` | `News.cfg` | one address, two consents, two overlapping runs, an account, old and new links, the cleanup | rows obey only their own mail; marks and accounts are backed by mails and clicks; the 48 hours start once; who left stays out |
| `news_again` | `NewsAgain.cfg` | "a confirmed address is left as it is" | **violated**, finding 2 |
| `news_prune` | `NewsPrune.cfg` | "48 hours have passed since it was sent" | **violated**, finding 3 |
| `page` | `Page.cfg` | edits, opened projects, view changes and runs against workers that may be late or hang, from the boot of either view | verdict and circuit are of the present sources and view (`VerdictIsTrue`), the button is closed exactly while an error is shown, no request waits for a dead worker, the page comes to rest |
| `page_verdict` | `PageVerdict.cfg` | "the run answers for this generation" | **violated**, finding 4 |
| `waves` | `Waves.cfg` | every small VCD file in both viewers; the window under clicks, drags, saves, closed pages and new runs | both show what the file says; the layout is stored, and kept for what a new run still has; a jump goes to the nearest change |
| `desk` | `Desk.cfg` | the extension, the simulator's files, project, board, links and workers, the account page and the home page, each by itself | one property each, see below |

The properties of `desk`: `EditorKeepsItsWord` (problems of one run, no old
waveform, the user's own linter path restored), `EditsAreKept`, `ArchiveReopensTheSame`,
`CircuitSeesTheBoard`, `RunnableMeansValidated`, `SiteKeepsFaith`, `HomeTellsOneStory`,
`HintsCountRight`, `CodeAndBoardAgree`. Each is a conjunction of named parts, stated and
explained in its module.

Every property of a passing run has a mutant in `PROJECT.json`: a definition of
the model changed the way a plausible bug would (for example a re-claim that does
not remember the doubt, a mark that ignores the token, a new consent that keeps
the old footer link). TLC finds each property violated by its mutant.

### Bounds, and why they are enough

- Time is a counter. A unit is shorter than the shortest time compared; the
  constants keep the order the code has (lease < window <= provider store,
  window <= day <= month; throttle < link life <= keeping times). `MaxTime` is
  chosen one past the longest chain a run is about: in `mail_race` the
  window (3) ends before `MaxTime` (4), so both re-claims and rows that are too
  old to re-claim occur; in `news` a request, a late mail, its link's end and
  the cleanup fit in three days. With link life 2 and keeping time 2 a mail sent
  late outlives the keeping time, the case the cleanup's second condition is for.
- `MaxClaims` 2: first claim and one re-claim, which is what the fencing
  distinguishes; a third claim is a repetition of the second.
  `MaxAttempts` 2 or 3: one minted key and a bound to hit.
- Two workers: races are pairwise, one stale and one current.
- One or two mails. Rows of different mails meet only in the budget, which
  `mail_budget` asks about.
- One address in `news`: rows of different addresses meet only in the list of a run, which
  the proofs cover for any number of addresses.
- The campaign has two people and two consents (the owner's and the reader's, or two of the
  owner's), two owner tests, one run at a time and one day. The list has two entries, so that the second
  can leave while the first is served; a body that was claimed may be
  accepted after its run died, so that runs that overlap show as runs that follow each other.
- Three events at the page: each of the races is between two (an answer under
  way and a change) and the third can cancel what made up for the first. The
  four workspaces have, for each view, one that compiles and one that does not, pins that
  do not fit and a missing testbench.
- `waves`: four tokens make a file with a scope, a declaration and two changes, or several
  declarations; values are shorter, longer and unknown. Three acts of the user between two runs, the second of
  which lost a signal, is shorter, and has its codes given out anew.
- `desk`: two files and their tabs, three deeds; three changes of a project with a top, a
  sub-module, two testbenches and two constraints files; five inputs at a board with two buttons and a switch;
  two requests to the workers (one overtaking the other), three clicks on the account page
  (a third request, or a fourth click, exceeds what TLC finishes in the time we allow a run);
  four commands of the extension; on the home page two levers (one off, one on under a digit), walks of two
  cells and one, three touches and three scrolls among eight positions around the stage's
  edges. `BoardLinks` and `TimingHints` are finite and unbounded.
- `RpcTime + CallTime <= Margin` and `Window <= Store` are the assumptions
  the code's constants satisfy (`DEADLINE_MARGIN` against the time-outs, 20 against
  24 hours); `SenderAssumption` states them and TLC evaluates it.

### Fairness

Two runs need it. `mail_retry`: `WF_vars(Step(w))` for each worker. A run is one
synchronous process; if it is not killed, its next statement is executed, each
ledger call ends by an answer or a time-out and each provider call by a reply or
a time-out (`UnknownAnswer`). Nothing is assumed there of the provider, the operator,
time or new runs, and `Crash` and `Defer` are not fair. Confirmation runs are started by hand;
no fairness is justified for them and no liveness property is stated.

`page`: `WF` of `Microtask` and `Timer` (the browser's event loop), and for each
worker `WF` of `Reply \/ TimeOut`: `ask` sets a timer with every request, so it
is answered or runs out of time. A worker itself is never assumed to answer.
People do at most `MaxEvents` things, after which the page stops for good; the
page runs therefore do not check deadlock, and `PageComesToRest` says in what state it
stops.

### A caveat about sleep

`NoCallAfterWindow` is checked with `Sleeps = FALSE`. The worker's deadline is on
`time.monotonic`, which on Linux and macOS does not advance while the machine
sleeps; with `Sleeps = TRUE` the property fails: a laptop that sleeps between the
reserve and a call calls after the window, when the provider may have forgotten
the key. `mail_retry` keeps `Sleeps = TRUE` for the properties that do not rest
on the deadline.

## 4. Findings

1. `_send` returns the status the row has after its settle. If the lease ended
   and another run re-claimed the row, that status is `reserved`, which the
   docstring (`dewfpga_mail.py:305`) does not list and the callers'
   `counts[outcome] += 1` does not have: the run ends in a `KeyError`.
2. `dewfpga_subscribe` updates by id after checking an older snapshot. A
   confirmation that commits in between is undone although the click was
   answered with success, against `001:48`. (The same gap lets the cleanup delete the row
   first: the UPDATE then touches nothing and the request is lost.)
3. The cleanup goes by `confirm_sent_at`, written only by the mark. A mail
   accepted late in the seven days and not yet marked (an unknown outcome, a
   crash) is taken for never sent, and the next run prunes the request before it
   can mark it, against `001:201`.
4. `run()` cancels the pending check and its `finally` starts one only if no
   check is in flight. If that check is of the *other* view and the run ends without a
   verdict (no testbench, iverilog crashed or ran out of time), the sources
   of this view are never checked: type in the board view, wait for its check
   to begin, switch to a testbench view that has no testbench, and the panel says
   "checking…" until the next edit instead of naming the missing testbench,
   against `main.js:358`.

### Divergences without a run

These were met while modelling. Each is stated as a predicate in its module, kept out
of the runs, and violated when added to the `INVARIANT`s of `Desk.cfg` (the first one: of
`PageVerdict.cfg`).

- `ClosedOnlyByTheSources` (`SimPage`): when yosys does not start or throws, its worker answers
  with an error as of the design, and run is closed on sources that compile until the next edit or
  view switch; against `main.js:294`, "a check that did not finish says nothing about the design:
  say so, never "none", and never close run for it".
- `InertUntilSuccess` (`BoardLinks`): a run that compiled but whose pins fail to bind sets labels and
  links all the same (`main.js:475`), so tips, marks and glow are live although the status says "not
  running"; against `board-links.js:6`, "everything is inert between an edit and the next
  successful run", and `main.js:251`.
- `WrittenComesBack` (`SimWorkspace`): an edit may take a file past 1 MiB. The save does not check
  that, the next boot refuses what was saved, opens an example and writes it over the
  student's work; against `sim/test/own-project-browser.mjs:173`, quoted next.

- `ReloadKeepsEdits` (`SimWorkspace`): after Share the link stays in the address bar
  (`main.js:90`), so a reload shows the workspace as it was shared, and the boot's own save
  then overwrites the edits made since; against `sim/test/own-project-browser.mjs:173`,
  "reload keeps the student's files, the edit included".
- `AsksBeforeReplacing` (`SimWorkspace`): after a reload every restored tab counts as
  unedited (`main.js:166`), and an example replaces the student's work without the
  confirmation `sim/test/e2e.mjs:442` expects.
- `PushbuttonsAreMomentary` (`SimBoard`): focus on the board, Enter down, focus moves to
  a control, Enter up: the button stays held; against the comment at `board.js:4`.
- `GoneMeansSignedOut` (`AccountPage`): a load that answers after sign-out shows the
  account again; against `mail.js:365`, "Session gone -> sign-in view with an honest line".
- `CopyComesBack` (`HomeBoard`): a second click within 1400 ms takes "done" for the label to
  put back, and it stays.
- `KnobsLetGo` (`HomeBoard`): a key pressed on one button and released on another, or a
  relayout while it is held, leaves the button pressed until the next pointer event.

Smaller things a reader of the code should know, read off the code while modelling:

- *Files.* Opening a link replaces the saved workspace unasked.
- *Project.* With a project whose pinned top is not the root of its hierarchy, removing
  the imported files makes the archive reopen with another top; `ArchiveReopensTheSame`
  excludes that case by name (`NeedsProject`).
- *Board.* A clock pin bound to a bit of a vector toggles bit 0 (`main.js:474`,
  `engine.js:62`). Stop and start within one frame leave two frame loops. An input just
  before Pause is settled with the next event. After a run with the pointer on a
  control its name is printed, but the code is marked only once the pointer moves
  (`main.js:478`).
- *Waveform window.* An anchor that points past the rows after a removal makes the next
  shift-selection throw. Two tabs of one testbench share a key in the browser's storage, and the last one
  to write wins. A run that lacks a signal drops its row and its radix for good.
- *Extension.* Overlapping runs clear each other's problems; what is shown is of the run
  that ended last. When the linter is stopped while its setup still waits for its second write, the
  removal may restore "unset" where the user had the empty string (`extension.js:440`); `torn` marks these
  states.
- *Hints.* Hints about the same signal, threshold and file are one; a hint may name a
  compare that never flips (it is "a timing hint, not proof that an output toggles").
- *Account page.* When a confirmation succeeded but its answer was lost and the session
  then ended, the page says "NOT confirmed". "Nothing was changed" may replace the note about a
  deletion.
- *Home page.* A frame more than about 42 ms late can carry a pulse past a chip without lighting
  it (`pcb.js:7`).

## 5. Proofs

Every theorem is about the specification of its module (`LedgerSpec`, `Spec`, `EditorSpec`,
...), for all values of the constants that satisfy the assumptions the module names; a
hypothesis beyond them is said below. The larger results rest on an inductive invariant, whose
parts are named for what they say; most steps are then one case per action and one per part.

### The ledger

| theorem | property | argument |
|---|---|---|
| `LedgerTypeCorrect` | `LedgerTypeOK` | inductive as it stands, one case per operation |
| `StickyUncertaintyHolds` | `StickyUncertainty` | strengthened by the type invariant; the point is `SettledRow`: each of its three forms keeps or sets the doubt |
| `OnePayloadHolds` | `OnePayloadPerMail` | a claim is given only if no row of the mail has another payload, and no settle touches it |
| `KeysBoundedHolds` | `KeysBounded` | the rows of a mail are a finite set that grows only by `Insert`, whose guard is below the bound; uses the cardinality facts of `FiniteSetTheorems`. No run checks it: the proof says it all |
| `SentIsFinalHolds` | `SentIsFinal` | action property, by cases of the step |
| `NewKeyAfterRefusalsHolds` | `NewKeyAfterRefusals` | action property, from the guard of `Insert` and the invariant that refused rows carry no doubt |

They hold for the most liberal caller (`LedgerNext`: any claim, settled any way at any time),
and `SenderFollowsLedger` shows that the worker is such a caller. So they hold of the whole
system without being proved again.

### The sender and the provider

| theorem | property | needs a machine that does not sleep |
|---|---|---|
| `SenderTypeCorrect` | `TypeOK` | no |
| `SenderFollowsLedger` | `Spec => LedgerSpec` | no |
| `NoIntentConflictHolds` | `NoIntentConflict` | no |
| `LedgerTellsTheTruthHolds` | `LedgerTellsTheTruth` | no |
| `OneLiveKeyHolds` | `OneLiveKey` | no |
| `NoCallAfterWindowHolds` | `NoCallAfterWindow` | yes |
| `AtMostOneAcceptanceHolds` | `AtMostOneAcceptance` | yes |
| `SenderImplementsOnceMail` | `ImplementsOnceMail` | yes |
| `ShareKeptHolds` | `ShareKept` | yes |

The invariant is built in layers, each inductive relative to those before it:

1. `TypeInv` and `ClaimInv`: a worker's claim and a request on the wire have a row with their
   payload, and no two workers hold the same claim. This is what the fencing token buys.
2. `ProviderInv`: what was accepted has a row and that row's body; what a worker heard and what
   a row says of an acceptance is true. `NoIntentConflict` follows.
3. `RefusalInv`: while nobody re-claimed the row of a claim that carries no doubt, the provider
   has accepted nothing of its key, and has at most the one request the claim waits for; so a
   refused row is over, and no request of it is left. Here the sticky doubt is needed: without it a
   re-claim could settle "failed" while the earlier claim's request is still to arrive.
   `LedgerTellsTheTruth` follows, and with `NewKeyAfterRefusals` of the ledger also `OneLiveKey`
   and `OneKeyAccepted`.
4. `ClockInv`: every request arrives before its row's window ends, since the deadline read at the
   reserve call leaves a call the time to arrive. `NoCallAfterWindow` follows; and since the window
   is inside the time the provider remembers a key (`Window <= Store`), no key is accepted
   again after it was forgotten: `AcceptedOnce`, and with the third layer `AtMostOneAcceptance`.
5. `BudgetInv` and `SentCovers`: the rows that count are finite and below the cap, and every
   acceptance is covered by a row that still counts. `ShareKept` follows.

The last layer but one needs `~Sleeps`, and the hypothesis is real: the deadline is on the
monotonic clock, which stops while the machine sleeps (see the caveat in section 3). With
`Sleeps = TRUE` the four theorems marked above are false, not merely unproved; the others hold.
The refinement maps each step to a step of `OnceMail` or a stutter: a reservation that binds
a body, the first acceptance, and an outcome the ledger settles are its steps, the rest stutters.

### The newsletter and the campaign

For any number of addresses, users, consents, overlapping runs and list limits:

| theorem | property | argument |
|---|---|---|
| `NewsTypeCorrect` | `NewsTypeOK` | the types, with `TokenWhileWaiting`: a confirmation token is null exactly when it can no longer be used |
| `OwnLinksHold` | `OwnLinksOnly` | a row is confirmed, left or tied to an account only by a click in a mail of its present consent: a click carries a mail's tokens, a mail's tokens are its consent's (`TokensAreOwn`), and a new consent takes nothing over |
| `SentMeansMailedHolds` | `SentMeansMailed` | a run marks what it has been told was accepted, under the token it sent |
| `LinkNotStretchedHolds` | `LinkNotStretched` | action property: a mark needs `sent` to be null, and only a new consent makes it null again |
| `LeftStaysOutHolds` | `LeftStaysOut` | action property: leaving takes the confirmation token away, and only a new consent mints one |
| `CampaignIsClearedHolds` | `CampaignIsCleared` | for any number of readers, overlapping runs, owner tests and consents |

The common ground of the first five is `RowChanges`: a step of the whole system does one of five
things to one row (nothing, deletes it, mints it, a click changes it, a run marks it), whatever
else it does. The inductive invariant is `NewsInv == NewsTypeOK /\ TokensAreOwn`:
the tokens of a row, of a request in any run's list and of every mail are those of one
consent, and a request about to be marked was accepted. Without it `OwnLinksOnly` is not
inductive: a run could still hold a request whose two tokens are of different consents.

`CampaignInv` has two halves. What a run wrote down about a reader is still true when it sends
(`RunIsHonest`), because a confirmed consent stays proven and one that ended stays ended. What
the gate saw is still true while the run goes on (`RunIsCleared`), because a test that was
sent or released never changes (`TestsKept`). `MaxTests \in Nat` is its only further hypothesis, and
only a bound of the model.

### The simulator page, its files, its board, its workers

| theorem | property | argument |
|---|---|---|
| `PageTypeCorrect` | `PageTypeOK` | every request and task is one `main.js` can have made |
| `VerdictIsTrueHolds` | `VerdictIsTrue` | a request or answer that is still current tells the truth about the sources on the page (`AllTrue`) |
| `ButtonTellsTheTruthHolds` | `ButtonTellsTheTruth` | `Button`, beside the above |
| `NobodyWaitsInVainHolds` | `NobodyWaitsInVain` | whatever is pending has somebody who waits, and was not lost (`AllAlive`) |
| `WorkspaceTypeCorrect` | `WorkspaceTypeOK` | one to `MaxFiles` tabs with different names, the tab shown among them |
| `EditsAreKeptHolds` | `EditsAreKept` | what is not stored is dirty, and what is dirty has a write to come or a failure (`WriteIsDue`); what was written is refused at a boot for one reason only, a file past 1 MiB |
| `BoardTypeCorrect` | `BoardTypeOK` | types of controls, holds, frames and circuit |
| `CircuitSeesTheBoardHolds` | `CircuitSeesTheBoard` | the circuit has one entry per bit of its ports, and each sees its control (`CircuitFits`) |
| `CodeAndBoardAgreeHolds` | `CodeAndBoardAgree` | tip, marks and glow are functions of what is hovered, of the tab they were made for and of the present text and design (`LinksInv`) |
| `BuildTypeCorrect` | `BuildTypeOK` | types of queue, stage, benches and answers |
| `RunnableMeansValidatedHolds` | `RunnableMeansValidated` | what each stage of a build knows (`GoesRight`), and each request in one place (`OnePlace`, `AllServed`) |

`VerdictIsTrue` needs the most. `Core` says of the page: what is pending is pending once (`Apart`),
runs stand in their order (`InOrder`, so that a cancelled run is never the newest), somebody waits
for each (`AllAlive`), what yosys answered is asked for the board view (`FromYosys`), no generation is ahead of the page's (`Numbered`), what is current is true
(`AllTrue`), and what is shown is right (`Shown`). Each handler is then a chain of small changes of
one record, and the lemmas are about the small changes (a request is queued, a task taken, the page
moves on), each keeping `Core`. Finding 4 is no contradiction: there the page
shows *no* verdict for ever, which `VerdictIsTrue` allows.

For the files the point is that every snapshot, in the tabs, in storage or in a link, is a whole
workspace (`Stored`), so that a boot finds one whichever it takes, and refuses it only for its size; for the board, that nothing is
clocked while a run is under way (`BuildingIsBare`); for the workers, that a build that reached
`again` failed the hardware check with no guard code, so that only then the other reader may stand in.
`CircuitSeesTheBoard` leaves out, by name, the input that is the clock.

`CodeAndBoardAgree` rests on `LinksAssumption`: a pin is wired to a part of its own
(`basys3_pins.js`), the ports of a top have different names, and its header gives each without an
index behind it. So a header with an unpacked array port (`input a [2]`) is outside the theorem.
That one index lights one part is proved from the arithmetic of `SrcIndex`, ascending or
descending, for any width and offset (`IndexTellsBit`).

### The waveform viewers

For any file, any codes and widths, any runs, and any number of the user's acts:

| theorem | property | argument |
|---|---|---|
| `WavesTypes` | `WavesTypeOK` | `DumpTypes` and `ViewerTypes`; the times in the run are part of `ViewerInv` |
| `DumpCorrect` | `DumpInv` | inductive, one case per token |
| `ViewersShowFiles` | `ViewersShowTheFile` | of every state that `DumpInv` describes |
| `ViewerCorrect` | `ViewerInv` | inductive, one case per handler |
| `KeepsWaves` | `NewRunKeepsWaves` | action property, from what `ViewerInv` says of a kept configuration |
| `JumpsNearest` | `JumpsToNearestChange` | action property, from what the search finds in a growing series |
| `StoreCatchesUpHolds` | `StoreCatchesUp` | inductive as it stands: each handler that changes a part of the configuration asks for a save, and a save writes all of it |

Here the definitions compute: filtering, merging, halving, digits and blocks are recursive functions.
No induction theorem is used. A recursive definition is a `CHOOSE`, and that it has its defining
equation at all is shown once (`Recursion`, for a measure that goes down; `Folding` is its usual
case), and what it keeps from step to step is shown for a set of steps with a least one that fails
(`LeastOne`, `Climbing`). Each algorithm then needs what one of its steps does: `Picks` for `Only`,
`Narrowed` for the search, `Heeds` for `push`, `AddsOn` for digits, `ShowsRight` and `Covers`
for the blocks, where a run of dense pixels jumps ahead and the recursion goes down.

`DumpInv` says of each code what both viewers have: a growing series whose value at a time is the
last one the file gave (`Heeds` carries it over a `push` that merges, replaces or drops), and the
pane's list with every change of the file. `ViewersShowTheFile` is then a statement about one state.
It needs `DumpAssumption`: a value that is too long for its variable loses nothing but known bits,
and only of a bus. The pane does not cut, so the two viewers differ on anything else; a simulator
writes no such value.

`ViewerInv` is `ViewerTypeOK` with what the next step needs: the markers are in order before they are
filtered, what is kept has a zoom of some length, and every row is an entry or a bit of one. Adding
at a place and dropping a selection put sequences together that have no id in common (`Apart`), so ids stay
different. `RunsAssumption` says what a run is: scopes form a tree with the root at its top,
changes are in order, none is after the end, values are as wide as their variables. It is what
`parseVcd` makes of a simulator's file, and TLC evaluates it on the two runs of `MCWaves`. The
way down from the root ends, in at most as many steps as there are scopes, because the depth grows
(`DownIs`): that is why the window opens empty only where that way ends in nothing.

### The editor extension

| theorem | property | argument |
|---|---|---|
| `EditorTypeCorrect` | `EditorTypeOK` | types of runs, picks, problems, simulations and the linter's path |
| `EditorKeepsItsWordHolds` | `EditorKeepsItsWord` | `ProblemsOfOneRun` and `OpenedIsNew` with `ChangesAreWritten` (a waveform that differs from the start of a simulation was written since), and `LinterInv` |

`LinterInv` says what the setting is between the commands (`Settled`: the user's own, or what the
extension wrote over it and remembers) and between the two writes of one command (`HalfWay`). Both are
promised only while no two linter commands overlapped (`torn`, see section 4).

### The site

| theorem | property | argument |
|---|---|---|
| `StageTypeCorrect` | `StageTypeOK` | for any places to stop |
| `StageFollowsScrollHolds` | `StageFollowsScroll` | what is on the page is the frame of the scroll it was last drawn for (`DrawnFor`), and a frame that nothing followed left nothing to do (`UpToDate`); that no output is before its command is arithmetic over the tables of `flow.js` |
| `HomeTypeCorrect` | `HomeTypeOK` | for any levers, knobs, chips and lengths of walk |
| `BoardIsHonestHolds` | `BoardIsHonest` | `BoardShows`, `LeversMove`, `TraceLives`, `CopyWaits`, `SidePlays`: one for each thing that moves on the page |
| `HomeTellsOneStoryHolds` | `HomeTellsOneStory` | board and stage share no state: the conjunction of the two results, for the page that starts both |
| `SiteTypeCorrect` | `SiteTypeOK` | session, view, forms and calls |
| `SiteKeepsFaithHolds` | `SiteKeepsFaith` | one invariant for each of the four pages: a promise to link is kept by the calls under way, an answer "true" is of what the service did, and a closed form has a call under way, no token left or, for the link form, gone for good |

`Walking`, the pulses that stay on the trace, is a recursive function of a sequence. That it exists,
that it has its defining equations and what it preserves is proved from the least index at which it
would fail (`LeastOne` of `SequenceProofs`, by `WFMin` of `WellFoundedInduction`).

### The archive, and the desk as a whole

| theorem | property | argument |
|---|---|---|
| `ProjectTypes` | `ProjectTypeOK` | one record a path, a choice among modules there can be |
| `ArchiveReopens` | `ArchiveReopensTheSame` | of every state that `ProjectInv` describes |
| `ArchiveReopensInAnyOrder` | - | the same for every order of the files, where TLC tries the swaps and the reversal |
| `DeskRunsItsParts` | - | the parts of `Desk` share no variable, so a step of it is a step or a stutter of each |
| `DeskTypes` | `DeskTypeOK` | from the above and the types of the parts |
| `DeskKeepsItsPromises` | the eight of `desk` but `HintsCountRight` | the same, from the promises of the parts |

The files and modules are any that satisfy `ProjectAssumption`: paths have an extension and module
names are identifiers (so neither is the "nothing" of the model), the sets of a project lie in
folders, and a page opens with plain files, no two of one path.

`ProjectInv` is small: `Workable` (one record a path), `AllSimulate` (every source takes part in the
simulation) and the type of the choice. `AllSimulate` is what makes the property true: an import gives
every source it keeps the use "simulation", so the benches do not depend on what the import says of
the design. A workspace that could hold a source for the design alone would reopen with other benches.

That the archive means the same is then a statement about two lists of records. Both have the same
files with the same contents in another order, and agree on which of them are for the board
(`ForBoard`). A settled choice means that no module is defined twice, so what is read first does not
matter: the modules correspond (`KeptAgain`), so do designs and benches (`DesignAgain`,
`BenchesAgain`), and top, bench and pins are found again (`PartsMean`). What an import takes of a
folder is `ChosenTakes`, from what filtering a list does (`OnlyPicks`). There are two cases.
With a project file (`ProjectReopens`) its three sets list the files for the board, the picked
constraints and the rest; top and bench are pinned in it, and constraints that are alone in the new
workspace are picked without being named. Without one (`FolderReopens`) nothing was worth a project
file, so there is at most one root, one bench and one constraints file, and what is alone is chosen whatever
was preferred. The case that `ArchiveReopensTheSame` excludes by name, a pinned top with no project file, is
the one where the second argument breaks.

### Only model-checked

- `HintsCountRight`: the reference clocks the netlist to a fixed point, and the heuristic it is
  compared with is right only of netlists of the shape of a counter; the runs enumerate these. For
  arbitrary netlists the equality is false (a hint is "a timing hint, not proof that an output toggles").
- Liveness, under the fairness of section 3: `SendReturns`, `PageComesToRest`. The proof system does
  not treat fairness and ENABLED.
- The promises listed in section 4 as divergences are false and have no theorem.

## 6. Not modelled

Hashing, addresses, HTML and log texts; access rights and row-level security (who
may call what is a matter of grants, not of order); `lookup`, `export_me` and
`status`, which only read. The usage preflight (`quota_usage.py`) is the choice
of `Defer`: its arithmetic reads one HTTP answer. `dewfpga_mail_approve` is one action,
although its three statements have snapshots of their own: the gate reads everything again.

Of the modelled parts: the bytes of archives, the markup of tabs, consoles and tooltips, the
extension's activation and status bar, the drawing of the home page (`engine.js`, `models.js`,
`content.js`), DigitalJS, yosys, slang, iverilog and the sign-in library. The home page's
scripts exist twice, as `docs/home/*.js` and joined in the generated `site/home.js`;
the models are of the former.

The JSON runner, the MCP server and its installer, the single-file run, the Makefile and
the toolchain installer are about processes, signals, pipes, file locks and crashes
between system calls. They need a model of the operating system before the code's own
decisions show, and are planned. The task writer and the design checker run to their end in one
process. Site, documentation and generators keep no state.

## 7. Plan

In order of importance; each item is a module, its runs and its proofs.

1. `TimingHints`: the arithmetic of `Beyond` and `Threshold` as lemmas for every width.
2. `RunnerProcess`: time-out, exit, readers, signals, cancellation, process tree;
   abstract specification: exactly one result.
3. `SetupLock`: the deleted lock file, the staged swap, ownership, crashes;
   abstract specification: a mutual exclusion.
4. `FileRun`, `Freshness`: cache and board locks, signatures.
5. `InstallSteps`: stamps and pruning under crashes.
6. `EditorTasks`: tasks and manifest as a pair with rollback.
