# A TLA+ project for flue-qa-agents

flue-qa-agents has LLM agents explore a web application, write a test suite for
it, rank the cases and report defects (Phase 1), lets people review the result
in a local workspace, and then has further agents write the approved tests
(Phase 2). What the model writes is checked by deterministic host code. This
directory models that host code: what decides who runs, which files are
replaced, what a person's decision applies to and what survives a crash; and
the rules by which the host lets in, or refuses, what an agent writes.

The whole state of the program is files. Several processes share them: the
workspace server, runner processes, agent processes that are process groups of
their own, and command lines. There is no file locking other than `run.lock`,
and a process may die between any two file operations. That is where the
models look.

## 1. Inventory

| Component | State | Operations | Interacts with | What is hard |
|---|---|---|---|---|
| **Run lock** `scripts/lib/run-lock.mjs` | `artifacts/qa/run.lock` (pid, run id, command) | `acquireRunLock`, `release`, signal and exit handlers; removal by the workspace when its child died | every runner, the review agent's jobs, the workspace's refusal of changes during a run, the history's `ownerAlive` | check and write are two operations; stale locks; one server process claims it for several jobs |
| **Test-case review workflow** `src/review/*`, `src/tools/review-proposals.ts`, handlers of `src/ui-server/server.ts` | `reviews/requests`, `reviews/proposals`, `test-cases.json`; the server's jobs | create, process, propose a deletion, submit a proposal, apply, reject, request changes, recover at start | review agent (process), run lock, validation of artifacts | agents that outlive a server; a suite that changes under a proposal; three writes per decision; ids given to new cases |
| **Phase 1 dependencies and refresh** `src/lib/phase1-dependencies.ts`, `scripts/lib/refresh.mjs`, `scripts/lib/stage.mjs` | `phase1-dependencies.json`, the derived artifacts, `bugs/`, a snapshot under `archive/`, `phase1-refresh.json` | `dependencyState`, `stampDependency`, `refreshDependents` | stage runner, suite changes, bug decisions, approval | roll back after any failure; a death at any step; a suite change meanwhile |
| **Bug decisions** `src/lib/defect-review.ts`, `qa-defects.mjs` | `review` of every bug report, `reviews/bugs` | decide on a bug, edit it | workspace, command line, refresh (which regenerates the reports) | load, check and write are separate; ids of reports are given again by every analysis |
| **Approval gate** `src/lib/phase1-gate.ts`, `qa-approve.mjs` | `phase1-approval.json` | approve, check the gate | bug decisions, refresh, Phase 2 | an approval is of hashes read after the inspection |
| **Bug reconciliation** `src/lib/bug-reconciliation.ts` | none (pure) | which regenerated report inherits which review | refresh | similarity is not an identity |
| **Run lifecycle** `src/run-control/*`, `scripts/lib/cancellation.mjs` | the controller's `active` child, timers; the runner's exit code | start, cancel (message, TERM, KILL), after exit | run lock, history, event log | cancel racing completion; what is settled by whom |
| **Phase 1 runner and stages** `scripts/qa-manual.mjs`, `scripts/lib/*` | the run record, stage entries | run stages with attempts, archive, record the outcome | all of the above | order of last event, history row, copy and lock release |
| **Run history** `src/history/*` | SQLite rows of runs and stages | insert, finish, reconcile interrupted rows, import | run lock (owner alive?), runner, workspace | ownership of a row whose process is gone; pid reuse |
| **Event log** `src/run-control/events.ts`, `src/ui-server/runs-api.ts` | `events.jsonl` of a run | append, read a tail, stream to a client | runner, workspace | maximum of events, a half written last line, a stream that must end |
| **Artifacts and validation** `src/lib/qa-artifacts.ts`, `semantic-validate.ts`, `coverage-mode.ts` | the artifact files | `writeQaArtifact`, `replaceTestCases`, `writeBugReport`, `semanticErrorsFor` | agents' tools, review, refresh, approval | each artifact is judged against those on disk, which change afterwards; a fact invented once is evidence for what follows |
| **Defect analysis** `src/lib/defects.ts` | `defect-analysis.json`, `bugs/` | normalise, derive the basis of an expectation, thresholds, fan out to reports | discovery, requirements, suite, API results | a defect analysis is many files; what an expectation rests on is derived, and changes |
| **Browser evidence** `src/lib/browser-evidence.ts`, `scripts/lib/evidence.mjs` | `discovery-evidence.json` | open every location, classify, deduplicate, cap | discovery before it, prioritization after | one fact is reported by two logs; caps |
| **Discovery gate** `src/lib/discovery-*.ts`, `observation-ledger.ts` | the surface, ledger and state of a run's exploration | record observations and actions, judge completion | browser evidence, discovery agent | when exploration may be called finished |
| **API discovery and live validation** `src/lib/api-*.ts` | inventory, request budget, results | approve, call, classify | coverage mode | budget and approvals; non-idempotent calls |
| **Phase 2** `scripts/qa-automation.mjs`, `src/lib/automation-contract.ts`, ... | contract, tests, report | pipeline behind the gate | approval, trusted roots | running on something other than what was approved |
| **Workspace server** `src/ui-server/*`, `scripts/qa-ui.mjs` | jobs, read caches | HTTP handlers | everything | reads before an await used after it |
| Observability, providers, agents, browser connection, browser client | traces, metrics, prompts, views | - | - | I/O; nothing else depends on them for a decision |

What makes the components correct, in words (the properties follow these):
two runs never share the artifact root; a person's decision about a change is
what the suite shows; a closed request stays closed, an open one can always be
taken further; new cases get new ids; an artifact that reads CURRENT was made
from the current suite; a refresh replaces a whole set or nothing; a review of
a bug is not lost and not invented; what Phase 2 automates is what was
approved; every run ends in exactly one recorded outcome and the workspace
learns of it; what discovery writes was shown by the browser, and its rules can
be met; a probe of an API stays within what a person allowed; every requirement,
test case and confirmed bug of an approved result reaches something observed or
documented.

`PROJECT.json` lists all components with their status, and under `hazards`
every place in the code where those promises could break.

## 2. The modules

| Module | What it is |
|---|---|
| `RunLock` | the lock file, the processes that claim it, and the workspace's cleanup |
| `ReviewWorkflow` | requests, proposals, suite, server, jobs, agents |
| `ReviewWorkflow_proofs` | its inductive invariant and what follows from it, `NoDeadEnd` with what it needs besides |
| `AllOrNothing` | abstract: what a dependency refresh promises its readers |
| `Phase1Refresh` | stamps, the refresh, its stages and rollback; implements `AllOrNothing` |
| `Phase1Refresh_proofs` | its inductive invariant, the refinement, and what CURRENT means; in its last section the run lock's: exclusion and coverage, for any processes |
| `BugReview` | bug reports, their histories, the people who decide on them, and the refreshes and full runs that replace them |
| `BugReview_proofs` | its inductive invariant: decisions kept, histories, what was shown |
| `RunOutcome` | abstract: what the history promises about the outcome of a run |
| `RunLifecycle` | controller, runner, cancellation, history row, archive, event log, stream; implements `RunOutcome` |
| `RunLifecycle_proofs` | its inductive invariant, what it says of row, archive, log and stream, and the refinement |
| `Discovery` | the surface a browser shows, the agent's calls, the gate at the end |
| `Discovery_proofs` | its inductive invariant: the surface against what happened, for any product, limits and calls |
| `ApiValidation` | reading the documentation, the passes of probes, what their answers prove |
| `ApiValidation_proofs` | its inductive invariant: policy, stops, evidence, completeness, for any document and server |
| `TextRules` | what a text may name, deny and speak of (pure) |
| `EvidenceRules` | the rules of the Phase 1 artifacts (pure), over `TextRules` |
| `BrowserEvidence` | from a console and a network log to the rows of evidence (pure) |
| `Traceability` | the artifacts as runs, people and reruns write them; composes the three above |
| `Traceability_proofs` | what it means for each rule to find nothing, what follows from a result without findings, and that an answer in full is always accepted |
| `AutomationGate` | approval, the gate and Phase 2 |
| `AutomationGate_proofs` | its inductive invariant: approved bytes, accepted findings, contract and projection |
| `MC...` | the instances TLC checks |

`Traceability` extends the three rule modules: they are functions of artifacts,
it is the only one with variables. `RunLifecycle` and `Phase1Refresh` are shown
to implement their abstract specifications with `INSTANCE ... WITH`. The others
meet in files rather than in calls: `RunLifecycle` takes the lock as its owner
(`RunLock` has it in detail), `AutomationGate` takes any writer of a Phase 1
file as one action (`WriteFile`, `Phase1Stage`), and `BugReview` takes a refresh
as its steps on `bugs/` (`Phase1Refresh` has the rest of them). Each cut is
wider than the code: the neighbour may do more than it does.

Conventions. A variable, or a field, that no guard reads and that only records
what has happened is a history variable and is declared as such. An operator
named `Mutant...` stands just before the definition it is a wrong version of: it
states a plausible mistake in that piece of code, and shows that a property
notices it; no specification uses it. Bounds are CONSTANTS and marked "bound".
Every definition's source lines are in `PROJECT.json` under `map`.

### RunLock

`acquireRunLock` is `Check` (read the file, refuse if a live process other than
this one holds it) and `Write`; release is `Release` (read: is it mine?) and
`Remove`; the workspace's `afterExit` is `Reap` and `ReapRemove`. JavaScript
runs a synchronous section to completion, so `Busy` keeps two sections of
one process apart, but another process can act between any two file operations.
`Kill` is a process that dies outright and leaves the file; a pid may be used
again (`StartFromTerminal`, `StartFromWorkspace` of a dead pid), which then
looks like a live holder.

The code does lose exclusion, in two ways: an actor changes the file on the
strength of a read that is no longer up to date (`stale`), or the server
acquires the lock for a second review job while it holds it for a first
(`nested`). The docs say otherwise of the second (section 6); the first is two processes that both check before
either writes. The properties say that *those are the only two*:
`ExclusionUnlessStaleOrNested` and `LockCoversWork`. The names of its
specification (`LockSpec`, `LockInit`, ...) are its own, so that one proof
module can extend it beside `Phase1Refresh`, whose refreshes take it.

### ReviewWorkflow

A request (`review/requests`), a proposal (`review/proposals`), the suite, the
server (up, its current handler's remaining writes, its jobs) and agents.
Handlers do not interleave with each other (between the arrival of a body and
the end of the handler the store's operations are synchronous underneath), but
each of their writes is a step the server may die before: `ProposeDeletion`
follows `CreateRequest` of a deletion, `MarkApplied` and `CloseHandler` follow
`Apply`, `CloseHandler` follows `TurnDown`. An agent reads
(`ReadChangeRequest`), submits (`SubmitDraft`), has the earlier proposals
superseded and takes a number (`SupersedeAndNumber`), saves (`SaveProposal`),
each a step of another process. Its end (`AgentExit`) lets the job try once
more (`TryAgain`) or finish (`FinishProcessing`): with the latest proposal, or as
FAILED, which a runner that throws makes of it also when a proposal was saved. `Crash` leaves agents behind;
`StartServer` is `createUiServer`, recovery included, also by a second
`npm run qa:ui` beside a running one.

Contents of cases are the number of the proposal that wrote them, and the suite
stands for its own hash. What the semantic validation refuses is a proposal
that is never applied, which any proposal may be.

### Phase1Refresh and AllOrNothing

An artifact is known by the suite its agent had read and the run that wrote it.
`DependencyState` is the code's: by stamp, or for a workspace from before the
stamps by ids and file times. One `refreshDependents` is the chain of the
values of `refresh.pc`: two stages (attempts with `StartAttempt`, the agent's
writes, `StagePasses` or `StageFails`), the two stamps, `Finish`; or, after a
failure (`StageFails`) or an exception (`Throws`), the files put back one by
one. `ApplyChange` (a suite change) is possible at any time, because the
workspace blocks changes only while a `qa:manual` run holds the lock. `Crash`
leaves everything as it is, the agent included, which then is `agent["orphan"]`
and may write at any later time.

`AllOrNothing` is the promise of `docs/RUNBOOK.md:303-308` in five actions; the
refinement mapping takes the accepted set to be the snapshot while a refresh is
at work and the files on disk otherwise (`SetOf`, torn when the files are of
several runs).

### BugReview

A report is a claim (what the report says, and the evidence `KeyOf` it rests
on) with a review; a history is the sequence of what each round left. A
decision is three steps of a process, because it is three file operations with
others between them: `Load` (`load` and `checkBase`; the workspace's request
has passed `Arrive`, where the block during a full run is asked, before it read
its body), `Write` (`writeBugReport`, the whole report) and `Record`
(`addBugReviewEvent`), which may be lost (`LoseEvent`). `page` is what the
workspace shows with the bytes it hashed; the command line has none. The
analyzer writes file by file (`WriteBugReports`). A refresh is `StartRefresh`
(the snapshot), `StagePasses`, `Reconcile` (what is read), one `Carry` per new
report, `ReplaceHistories`, `Finish`; or, after `StageFails` or `Throws`,
`RestoreBugs` and `RestoreHistories`. A full run archives the reports and
restores nothing. `Pairing` is `planReconciliation`, in the order of the ids.

One history variable carries the properties: `standing`, what was last decided
about each claim that is on the table; it is `Doubtful` for a claim if
something else was at work between the first and the last step of a decision
about it, or a death or an agent left behind may have touched it. A clean
decision settles a doubtful claim. Doubt spreads to the claims that rest on the
same evidence (`Mates`): a person who has loaded a report and writes it only
after two refreshes puts a reviewed report among the regenerated ones, and
`planReconciliation`, which goes by evidence, gives it the pairing of another
finding. That takes more refreshes than the instance has; the attempt to prove
`DecisionKept` found it. The snapshot of the reports and of the
histories is one step, and so are the reads that follow one another in a
handler; what happens between them happens to a decision that is doubtful
already, except for what a page shows (listed as a hazard).

### RunLifecycle and RunOutcome

A run is six records that nobody writes together: the process (`proc`, `run`),
its agent, its row in the history, its archive, its event log, and what the
workspace's `RunController` remembers of it (`ctl`). The runner goes through
`Boot` (lock, history, first event), `PreflightDone`, the stages with their
attempts, and its last block, whose steps are apart because a process can die
between them: `Preserve` (the archive), `EmitFinal`, `Finish` (the row),
`ExitNormally`, and the exit handlers `ReleaseOnExit` and `CloseOnExit`. The
second closes the history's connection, not the row: `runHistory` installs its
listener (service.ts:21) before `onExit` is installed (history.mjs:79), whose
`finishRun` then throws and is swallowed. A run that ends without `Finish` leaves
its row open, for `AfterExit` or whoever reconciles. Between two awaits the
runner is one step. `Cancel` of the workspace is a message
(`DeliverCancel`), TERM (`TermTimer`, `HandleTerm`) and KILL (`KillTimer`);
`Settled`, `LastWord` and `AfterExit` are what the controller writes when it
hears of the exit. `ListRuns` reconciles rows whose owner is gone, `ImportArchive`
reads archives without a row, `WorkspaceRestart` forgets `ctl`. `Faulty` names the
runs that may die at any point and whose writes may fail: the history (SQLite
locked or broken), the log (a full disk).

An event log is its ids and the type of its events. `NextId` continues what the
last writer left; past `MaxEvents` only the outline and one notice are kept
(`Appended`). A stream sends what is after its last id, the last `ReplayLimit`
events of it, and ends by the final event or when the row has been closed and
nothing new has come for a while (`Tick`).

`RunOutcome` says what the history promises with none of this: a run is opened
once, one at a time, and closed once, with the result it recorded or as stopped
from outside; neither changes afterwards.

### Discovery

The product is a set of views: what each shows, links to, says, and where an
action may lead. `surface` is the file of `discovery-surface.ts`: locations,
states, actions, navigation, each with its limit, and the flags that say a limit
was hit. The agent is any sequence of its calls: `Snapshot`, to the conversation
or to a file; `Click`, `Submit`, `Type`, `Navigate`; a call that fails; `Observe`;
and `Finalize`, which writes its artifact if `Valid` (validation) and `Reasons`
(the completion gate, one set of reasons) let it. `AttemptEnds` is the stage's own
judgement. What really happened is kept beside it in the history variable
`truth`; the properties compare the two. What a page's links add is stated at once
(`Joining`: the first so many new ones, a repeated link once), where the code adds
one after the other. `Recorded` drops from the front of the log what the code
searches for from there, since a look verifies everything before it. The limit on
remembered inputs (`MAX_ACTIONS` too, discovery-surface.ts) is left out. A state of the product hashes its path
and its controls but not its origin, so that a page of the product and one of an
auxiliary origin with the same path and controls are one state: the instance has
no such pair.

`RulesSatisfiable` says that the gate's rules can be met together: once every
outcome has been looked at, every continuation followed and an open sign-in
attempted, an artifact that reports every location as BLOCKED is accepted.

### ApiValidation

One stage without an agent. `ReadDocs` locates the document, `CheckHost` decides
whether the host may be called, `SignIn` spends the first request, and `Agenda`
holds every operation in each of its passes: reads, POST, reads of what was
created, PUT, PATCH, DELETE. `IsNext` takes them in the code's order, by pass and
then by place in the document. `Consider` decides what an operation's probes are
and with which values for its path's parameters (`Plan`), `Probe` sends one and
folds its answer into the endpoint's entry (`EntryAfter`), `Skip` holds it back
with a reason; `Counted` and `Stops` are the budget and the reasons to stop.
The URL of a probe says where each of its parameters came from: a configured
value, an example, or the answer to an earlier POST, so that `PolicyKept` can say
whose resource a DELETE is for. It says so of an operation that is `Addressed`:
its path ends in its last parameter and the collection before that does not
(section 6 has the others). `Fillable` is the filling in of a path:
`path.replace` fills the first place of a name only, so that a path that repeats
one is not sent. Schemas, generated bodies and tokens are abstracted to whether
they fit; what an answer says to its status, type and whether its body fits.

### TextRules, EvidenceRules, BrowserEvidence and Traceability

`TextRules`: a text is the set of what it mentions (a word, a quoted name, a
route, a request, a feature, an absence, ...), and the rules compare mentions
with those of the evidence. `EvidenceRules`: each `...Errors` operator takes
artifacts and the coverage context and returns a set of <<code, place>>, as the
code's validators return theirs. `BrowserEvidence`: the collector's visits,
folded row by row, with deduplication, echoes and caps. What the code filters is
`Only` of the places kept here, in their order, rather than the library's
`SelectSeq`, which the provers cannot open.

`Traceability` puts them in time. `StartRun` starts a run at any stage in any
coverage context; the `Write...` actions are an agent's call of its write tool
with any member of a set of candidates, right and wrong ones; `FanOut` and
`PersistDefects` are the two halves of writing a defect analysis; `Stop` ends a
run anywhere. People change the artifacts too: `ReplaceTestCases` (a reviewed
change), `EditAnalysis` and `EditBug` (an editor), `Downgrade`. `Clean` is an
inspection without findings, which is what an approval is given for.

Four of the five properties are about a clean inspection, whatever happened
before it: each artifact was accepted against what was on disk *then*, so what
holds of them together has to come from the inspection's own pass.
`NothingInvented` follows a mention through all artifacts: each is checked only
against its neighbours, and of a prioritization's reasons only the routes and
addresses (semantic-validate.ts:2115). `Answerable` is the other direction: whatever has been
accepted upstream, in every coverage mode, there is something the next agent may
submit that is accepted, and the property says what: an answer in full
(`FullAnalysis`, `FullSuite`, `FullPrioritization`, `FullDefects`), which restates
what the agent was given and sets down every suspicion as undecided.

The constants are what the code leaves open. `Features` and `Addresses` are the
vocabulary the code finds *wherever* a text has it (`FoundAs`: a phrase of
FEATURE_GROUPS, an e-mail address), other forms only where they are written as
such. `CandidateAssumption` says that candidates have passed their schemas, are
finite arrays where the schema asks for an array, and that what is said of a
documented operation starts with its request; a visit is read by `IsVisit`, where
the level INFO stands for all but errors and warnings. `BoundsAssumption` lets a
location fill at least one row: with no room for any, evidence would be refused
with no row to show for it.

### AutomationGate

Approval and gate each read the files one by one to inspect them
(`InspectOrder`) and again to hash them (`HashOrder`); here every read is a step
and any other process may write between two of them. A file's content is a
version with a judgement (`hard`, `findings`, `clean`, ...). A Phase 2 run lets
the Repo Analyzer write its analysis, judges it against the target repository as
it is then (`RepoProblems`), reads it (`ReadsAnalysis`), hashes it (`SourceHash`:
a second read), collects the evidence again, projects the contract, validates it
against the repository as it is *now*, and archives. The repository changes at
any time (`RepoMoves`). One gate is evaluated at a time: it writes nothing, so
two side by side see what each alone may see. The initial states split into
instances that only approve and check and those with Phase 2 runs, which share
nothing but the gate's answer. The target repository is there.

## 3. The runs

| Run | Shows |
|---|---|
| `run_lock` | exclusion and coverage are lost only by a stale read or the server's nested claims |
| `review_workflow` | decisions match the suite; PROCESSING has a job; no dead end; closed stays closed; ids are new when given |
| `review_liveness` | every request being processed is answered while the server stays up |
| `phase1_refresh` | CURRENT means derived from the suite; `AllOrNothing` is implemented |
| `bug_review` | a decision stays with its finding across renumbering, rollback and reconciliation, and with no other; the history ends with it; the workspace decides on the report it showed |
| `run_lifecycle` | row, log and archive of a run agree whatever the order of exit, cancel, settling, reconciliation, import; a cancel is never reported as a failure; `RunOutcome` is implemented |
| `run_stream` | ids grow and the log ends, past the maximum of events too; a stream ends and has shown the end; a cancel ends the run |
| `discovery` | what is written was seen; nothing recorded is dropped; sign-in forms and hand-overs are answered for; the rules can be met together |
| `api` | what is sent, when it stops, what an answer proves, what the result claims |
| `api_own_data` | expects a violation: an approved PUT without path parameters touches what this run did not create |
| `traceability` | an inspection without findings means traceable, independent and not invented; the rules can be met; evidence is accounted for |
| `gate` | Phase 2 starts on approved bytes only, with findings somebody accepted; contract and archive are of the run they name |

`api_own_data` checks a sentence of the code's own header (`api-validation.ts:31`);
the quoted sentence and the behaviour are under `findings`. In the passing runs
what the code does lose is set apart by name (`stale`, `nested`, `disturbed`,
`torn`, `doubtful`, `died`, `raced`, `overlapped`, `lost`): the properties say
that nothing *else* breaks the promise.

**Bounds, and why they are enough.**

* `run_lock`: three processes and four claims; every pair of actors and a third
  that intervenes between the steps of either, with two claims of the server.
* `review_workflow`: two requests, two proposals, two agents, one case and room
  for a new one, one crash or second start. Two proposals are needed for one to
  be superseded, overwritten or outdated; two agents for an orphan beside a job;
  one restart because recovery depends on the files only. `review_liveness`: one
  request, with the second attempt of a job.
* `phase1_refresh`: two suites that differ in their ids, two refreshes, so that
  one can follow a failed or a dead one, and one agent left behind.
* `bug_review`: two ids and three claims, two of which rest on the same evidence,
  so that a new analysis can keep, move, reword beyond recognition, drop and add
  a report; two decisions, so that two people meet on one report; one refresh or
  full run, which may fail, throw or die, and the agent it leaves, which writes
  once. Accepting, rejecting and asking for changes differ in the word only.
* `run_lifecycle`: a run of the workspace, which may die and whose writes may
  fail, and one of the terminal that takes the lock over; one stage of two
  attempts; one event before the maximum. A third run would be another second
  one: rows of different runs are related by reconciliation only, which treats
  each by itself. `run_stream`: one run with three events before the maximum and
  a replay of two, so that a reader can be behind by more than a replay, and a
  browser that comes and goes.
* `discovery`: four views of a product whose sign-up hands over to a mailbox on
  an auxiliary origin, which leads back signed in, with a link no one may follow;
  two locations, four states, a log of two actions, three actions in all, two
  attempts. The limits of locations and of the log are met; those of states and
  targets are above what the product has, because `FlowAnswered` and
  `ContinuationFollowed` say nothing once they are met. The proofs are for all.
* `api`: seventeen configurations (the modes, the documents, credentials,
  approvals, environments, budgets of one, two and six requests, a TRACE of what
  was created) and eight answers to each probe.
* `traceability`: two behaviors, one documented operation with one probe, two
  requirements, two cases; four coverage contexts; candidates that each break one
  rule. A chain of citation has four links (behavior, requirement, case, entry or
  report), and two of each are the least for one to vanish while another stays.
* `gate`: one bug report, so that `bugs/` can lose, gain and change one; two
  contents of each file after the first; three states of the repository; two
  Phase 2 runs.

CHECK_DEADLOCK is off where the bounds let an instance come to rest: no more
proposals, starts, runs or contents are left.

**Fairness.** ReviewWorkflow (`FairSpec`): weak fairness of the handler's
remaining steps (straight-line code of a running server) and of `AgentExit`
(`runAgent` waits for the child's end; that a model's turn ends is an assumption
about the agent runtime, which has a limit of turns); strong fairness of
`AfterAgent`, a promise continuation that needs the event loop free of other
handlers, which come and go. RunLifecycle (`FairSpec`): weak fairness of the
controller's timers (Node fires them), of `AfterExit` (the operating system
reports a dead child), of `Tick` (an interval while a client is connected), and
of the runner's synchronous last block and exit handlers. Nothing is assumed of
the agent, of the message or of TERM: `CancelEnds` rests on KILL.

## 4. The proofs

TLC establishes the properties for the instances above; the eight `*_proofs`
modules establish all properties of theirs but the three named at the end, for every value
of the constants, under the named assumptions of each module. These say what the
code fixes: the server is a process, `None` and `NoRun` are no ids, the bounds are
naturals, a document lists an operation once, an error has no status. Each
`IInv` (`LockInv` of the run lock) was checked with TLC, on the constants of the
module's run, before it was proved. The proofs are laid out alike: lemmas about the helpers, one lemma per
action that shows `IInv'` conjunct by conjunct, and theorems that draw on `IInv`
alone.

* **RunLock.** `RunLockInvariant`: `LockInv` is inductive. Exclusion alone is not:
  a claim that passed its check and has not written yet would write over
  anything. The strengthening says what each actor *knows* as long as the file
  has not changed since it read it (`overtaken` holds the others): a checked
  claim knows that nobody holds the lock, a holder that the file names its
  process, the cleanup that the lock is the dead child's. `ProcessStep` shows
  that synchronous sections do not interleave, `KnowledgeStep` that knowledge
  is kept. `Exclusion` and `Coverage` follow.
* **ReviewWorkflow.** `ReviewInvariant`: `IInv` is inductive, one lemma per
  action. Around the property `DecisionMatchesSuite` it needs: jobs belong to a
  running server and to a request that is being processed (`JobsBelong`,
  `OneJobPerRequest`, `ProcessingHasJob`), the handler owns its request while
  it has writes to make (`HandlerOwnsRequest`), and proposals and drafts are
  about their request's case (`ProposalsAreAbout`, `DraftsAreAbout`), which is
  what makes a deleted case remembered (`DeletedAreTargets`) and hence ids
  fresh. `DecisionsMatch`, `ProcessingIsLive`, `ClosedForGood` and
  `FreshIdsAreFresh` follow. `NobodyIsStuck` (`NoDeadEnd`) needs more than what
  is safe: that the way on is *there*. `WaysOn` adds that drafts and proposals do
  what their request asks (`DoneAsAsked`), that the latest proposal of a request
  ready for decision is its own and READY, and no other handler is about to
  mark it (`Decidable`), and that a request to delete waits for nobody
  (`DeletionStands`). That a number is left for the next proposal, and that it is
  new, is an argument about the least unused one.
* **Phase1Refresh.** `RefreshInvariant`: `IInv` is inductive, one lemma per
  action. `StampsVouch` is the strengthening of `CurrentIsDerived`: while a
  refresh is at work an artifact is its snapshot or was made from the suite on
  disk, and the *snapshot* was made from what the stamp says, so that a roll
  back, or a death before the first write, restores the claim. It needs
  `Replaced` (what has been accepted is this run's, from this suite) and
  `StampedInOrder`. `CurrentVouched` follows. `AllOrNothingImplemented`: every
  step is a step of `AllOrNothing` or a stutter (`StepMaps`); `Finish` is
  `Complete` by `Replaced`, `EndFailed` is `Fail` by `RestoredExactly`, and a
  write while no refresh is at work is a `Disturb` because an agent left behind
  is proof of a death (`AgentsServeRuns`).

* **BugReview.** `ReviewInvariant`. `DecisionKept` speaks of the reports when no
  job is at work; most of the invariant is about where a decision is while one
  is. `Kept` and `Held` say of *some* reports and histories that they are as the
  decisions left them: of those on disk while there is no job, of the snapshot
  during a refresh. `Fresh` says that regenerated reports are undecided and
  rest on different evidence, as far as nobody doubts it, `CarriedSoFar` that
  those before the next id have their review and history again, `Restored` that
  a roll back has put the snapshot's reports back. `AgentWorks` and `PeopleKnow`
  are the rely of the two other actors: what the analyzer has written, and that
  whoever decides undisturbed has before them what they loaded. That `Pairing`,
  a recursion over the ids, pairs each report once and with one of its evidence,
  is a least-number argument. `DecisionsAreKept`, `HistoriesMatch` and
  `DecidesOnWhatItShowed` follow. An earlier `standing` made the invariant false
  for more refreshes than the instance has (section 2).
* **RunLifecycle.** `LifecycleInvariant`. The six records of a run are tied
  through its process: `NoTraceYet` before the lock, then `RowTells` (who may have
  closed the row, and that an archive stands behind it), `ResultTells` (archive,
  final event and row come in this order), `LogCounts` (ids are positions,
  nothing follows the final event), `LockHeld` and with it `OneOpen`,
  `ChildrenSettled` (a child the controller let go of is dead and its log
  closed), `StreamFollows` (what a stream cannot miss once it is over).
  `CancelIsKept`, `HistoryAndLogAgree`, `ArchiveIsThere`, `StagesEndWithRun`,
  `LogIsKept`, `StreamShowsEnd` follow. `RunOutcomeImplemented`: every step is
  one of `RunOutcome` or a stutter; a row is only ever closed by the run that is
  open, or as stopped by somebody who found its process dead or without its lock.
* **ApiValidation.** `ApiInvariant`. `PolicyKept` needs a fact about requests not
  yet sent: `PlannedWell`, that what is pending may be sent, to the URL where it
  will go. For a change this is the URL of a POST followed by the id it answered
  (`CreatedUrl`), which rests on `CreatedHere` (what was created, a probe created)
  and on the order of the passes (`Untried`: a POST whose turn has not come has
  sent nothing). `FailuresCounted` says that the counter bounds the connection
  failures of the unanswered tail, which makes `StopsWhenTold` inductive; the
  cardinalities are those of intervals. `EntriesKnow` is `EvidenceEarned` in the
  code's own terms (`validated` and the findings), `SkipsKnow` says for each
  reason what made it true. `PolicyIsKept`, `StopsWhenItIsTold`,
  `EvidenceIsEarned` and `AllAccounted` follow.
* **AutomationGate.** `GateInvariant`. `ApproverSees` and `GateSees` say what a
  reader of one file after another knows when nothing was written in between: the
  groups `Behind` it are what is on disk. `ApprovalRests` says what an undisturbed
  approval recorded, `VersionsKnown` that a content is never written again.
  `StageOwns` says that a run alone in its stage (`OverlapSeen`) finds its own
  analysis wherever it looks. `ApprovedBytesOnly`, `OnlyAcceptedFindings` and
  `ContractIsTraced` follow; `ProjectionIsSound` proves of the projection what
  automation-contract.ts:199 says of it, whatever the analysis and the repository.
  A first version of `GateSees` was not inductive for lack of where `approval`
  starts to read.
* **Discovery.** `DiscoveryInvariant`. The properties are about an accepted
  artifact, and the gate judges it on the surface: `Agrees` says what the surface
  is worth. `LogTells` says that the unverified actions end the log and that what
  happened since the last look is among them, which holds at the log's limit only
  because `Recorded` drops verified ones; `ShownOnly` and `VisitedKnown` that
  observed pages were shown and visited ones are known or the limit is flagged;
  `StatesAreShown` and `NavigationTells` the same of states and targets, with what
  exposed a target and that a followed one was reached; `OutcomesAreReal` that a
  visible outcome of an attempt is a change of the product. The last needs
  `NavigationTells`: looking twice at one view exposes nothing, because its links
  are targets already or there is no room. One lemma per operator of the surface
  (`ExpandGrows`, `RegisterNavigationAdds`, `LookShows`, `ActPerforms`) says what
  it changes and keeps; `JoiningFills`, that links join until there is no
  room, is an argument about least and greatest indices. `NoReason` says what it
  means that the gate has nothing against an artifact. From these,
  `NothingIsDropped`, `OutcomesWereSeen`, `FlowsAreAnswered`,
  `ContinuationsAreFollowed` and `RulesCanBeMet`, whose witness is the artifact
  that reports everything BLOCKED.

* **Traceability.** Most of what a clean inspection says rests on no history at
  all: `CleanMeans` takes `Findings = {}` apart into one fact per artifact, the
  `Sound...` lemmas say of each validator what it means that it returns nothing
  (`SoundRequirement`, `SoundCase`, `SoundEntry`, `SoundReport`), and
  `BehaviorsTraced`, `RequirementsTraced`, `CasesTraced`, `EntriesTraced` put them
  end to end: `Traceable`. `ConfirmedIndependently` is the derived basis
  (`ExpectedBasisOf`) read backwards. `NothingMadeUpAnywhere` is a chain: if a text
  has support in a corpus, then whatever backs that corpus backs the text.
  `HardCarried` and `WordingCarried` say this of one link, for each form of
  mention, `StatementsBacked`, `CasesBacked`, `ReasonsBacked` and `ReportsBacked` of
  each artifact given the one before, and `BackedIsGrounded` of the last link. It
  fails for texts that are not what extraction makes of them (an address that a
  text has as a word only), hence `IInv`: every artifact is typed, reports have
  texts that a person's edit of the status leaves alone (`IsReport`), the half
  written analysis too (`IsPersisted`), and a stage finds what it builds on
  (`Upstream`). `ArtifactsTyped` shows it inductive; its long part is that the
  fan-out numbers reports so that each is a finding of the analysis
  (`NumberGiven`, `ReportsAre`). `AlwaysAnswerable` takes the full answers through
  *every* rule (`FullAnalysisAccepted`, `FullSuiteAccepted`,
  `FullPrioritizationAccepted`, `FullDefectsAccepted`) in every coverage mode, and
  `FullAnswersTyped` that they pass their schemas as candidates do.

  `NothingIsLost` is about what the collector computes, not about steps of the
  system: `BuildEvidence` folds visits, a visit folds facts, and both totals are
  folds. A fold is the library's recursive function over sets of indices.
  `FoldExists` shows once, for the four of them (`FoldStep`), that such a function
  exists, and `Parts` turns it into partial results numbered from 0, with the
  induction over them that `UpTo` provides: a set of numbers that has 0 and with
  each number the next reaches as far as one likes. The invariant of the fold is
  `Accounts`: no two rows of one fact, no location over its cap, something refused
  only when a cap is reached, and the occurrences of the rows with the overflow
  make up what was told. `FactCounted` is its step (`RepeatCounted`,
  `RefusalCounted`, `RowCounted`), `VisitCounted` the step of the outer fold. That
  a page's facts are as many as the logs told (`LoadTells`) is an argument about
  places: `Nth` numbers the places kept one to one (`RankIs`, `OnlyIs`), and a
  console fact is dropped exactly when its place is an echo's.

What the proofs changed in the models: a history was too narrow (BugReview); a
link a page names twice took up the room of two, and the log lost one action
where the code removes as many as are too many (Discovery). A property was too
strong: a page that offers to sign out is signed in for the code even if it
also asks for a password, and is for `SignedInShown` now (Discovery). Links join in
one definition rather than by a fold, and what a page's logs keep is chosen by
place (`Only`); a case distinction with overlapping guards became an order of conditions
(RunLifecycle, RunOutcome, ApiValidation, Discovery), since `CASE` does not say
which one is taken; sequences whose order nothing depends on became sets
(`Fresh`, `Projection`, the agenda); and replies and configurations got the types
their assumptions now state.

The proof of Traceability found a property that was false, which the instance was
too small to show: `CleanIsTraceable` forgot that `automationStrategy` is optional,
so that an automated case at API level may say nothing of its strategy (NONE); and
it took the ids of behaviors and requirements for distinct, which no schema says.
It is stated now as the code has it, and TLC finds the old form violated once the
candidates include such an entry. `Answerable` used to ask for an accepted answer among the
*candidates*, which says as much about the constants as about the rules; it now
names the answer.

Only model-checked: `ProcessingEnds`, `CancelEnds` and `StreamEnds`. Liveness
under fairness, and ENABLED with it, is out of the prover's reach. So are the
library's induction theorems, which take an operator: where an argument is an
induction, it is on a set of numbers and its least member (`LeastNumber`, `UpTo`).

## 5. The plan, and what is left of it

The modules were written in the order of section 2, each with its run, then its
proofs; all of it is done. What could be added: the suite review, which is
advisory; `phase1-refresh.json`, the one hazard that no module is about; a refresh
that takes `RunLock`'s lock rather than being the only one by assumption.

None of the modules declares a RECURSIVE operator.

## 6. Where the code and its documentation part

Each statement below is a definition of a module; TLC finds it violated on the
constants named (add it as an INVARIANT to a copy of the configuration, without
symmetry). They are kept apart from the runs, which show what holds; the hazards
that `DeletedNeverReissued`, `StampedIsDerived` and `HistoryBelongs` are about have
no property in `PROJECT.json`, because the code is what makes them happen.

| Definition | The statement | What refutes it | Constants |
|---|---|---|---|
| `RunLock!ReviewNeverOverlapsRun` | RUNBOOK.md:320, "Processing takes the run lock, so it never overlaps a QA run." | the server takes the lock once per review job (a process passes its own lock, run-lock.mjs:62); the first job's release removes it while the second works | `MCRunLock.cfg` |
| `ReviewWorkflow!GeneratedFromBase` | review-store.ts:73, "SHA-256 of the suite this proposal was generated from. Apply refuses any other." | the hash is read at submission (test-case-changes.ts:194), not when the agent was given the suite | `MCReviewWorkflow.cfg` |
| `ReviewWorkflow!DeletedNeverReissued` | test-case-changes.ts:225, "deleted ones are never reissued" | two READY proposals hold one new id; the first is applied and its case deleted, and the suite is again what the second is based on | the same with `MCThreeRequests`, `MCOneAgent`, `MaxProposals = 3`, `MaxStarts = 0` |
| `ReviewWorkflow!JobsAreProcessing` | test-case-changes.ts:164, a "request left PROCESSING by a process that no longer exists" | a second start recovers before it finds its port taken (server.ts:420), and fails live jobs | `MCReviewWorkflow.cfg` |
| `Phase1Refresh!FailedStaysStale` | refresh.mjs:5-7, "the old artifacts stay exactly as they were: valid files, still STALE" | without stamps an artifact is judged by its file's time, and putting it back makes it new (refresh.mjs:89) | `MCPhase1Refresh.cfg` |
| `Phase1Refresh!StampedIsDerived` | refresh.mjs:235, "Both stages passed against the current suite: now, and only now, current." | the suite is hashed after the stages; a change applied meanwhile (only `qa:manual` blocks one, server.ts:700) is stamped as their input | `MCPhase1Refresh.cfg` |
| `RunLifecycle!ExitClosesRow` | history.mjs:13, "the process exits without closing the run -> an exit handler closes it (INTERRUPTED on Ctrl-C, FAILED otherwise)" | exit listeners run in the order they were installed: the history's connection is closed (service.ts:21) before `onExit` uses it (history.mjs:79), and its error is swallowed. A run of the terminal stays STARTING or RUNNING until something reconciles it, and is then INTERRUPTED (OWNER_PROCESS_GONE) even when it failed; a child of the workspace is settled by `afterExit` | `MCRunLifecycle.cfg` |
| `BugReview!HistoryBelongs` | RUNBOOK.md:372, `reviews/bugs/BUG-NNN.json` is "the review history of each bug report" | a full run gives old ids to new findings and leaves the histories (qa-manual.mjs:455) | `MCBugReview.cfg` |
| `Discovery!PassedIsFinished` | README.md:411, "Discovery cannot finalize while host-recorded browser evidence shows unverified actions, unexplored reachable areas or unsupported BLOCKED claims" | the gate is asked by the write (qa-artifacts.ts:651); what the agent does after it is judged by schema and semantics only (stage.mjs:128) | `MCDiscovery.cfg` |
| `Traceability!SolidGround` | semantic-validate.ts:1261, "suspected issues and inferences never become expected behavior on their own" | each of the two is refused by itself; a requirement that rests on one of each is not | `MCTraceability.cfg` |
| `Traceability!ReportsMatch` | qa-artifacts.ts:517, "so the directory always matches the analysis" | a death between the reports and the analysis; the inspection judges each by itself | `MCTraceability.cfg` |

Met while modelling and not stated as definitions, because an abstraction
leaves out what they are about:

* phase1-gate.ts:237: an approval hashes files it reads again after the
  inspection, so that what is approved may have findings nobody accepted; the
  gate inspects again and refuses unless findings were accepted in general.
* A failed Phase 2 run archives the contract of an earlier one as its own
  (qa-automation.mjs:268). "`pathsMissing` ... Always empty in a valid contract"
  is not so when the repository changes between projection and validation.
* api-validation.ts:31-32 ("only ever touch a resource this run itself created")
  fails in a second way besides the run's: a POST's path that ends in a parameter
  is taken for a resource of its collection. With POST /teams, POST /teams/{team}
  and PUT /teams/{team}/{id} approved and `team` configured, what POST /teams
  answered is the `{team}` of the second POST, and the id *that* answered is then
  changed below the configured team.
* api-validation.ts:1129, "TRACE is never sent", is what the three passes that ask
  `mayRun` do. The reads of what this run created (1222) do not ask it, and TRACE
  counts as safe: after an approved POST /notes, a TRACE /notes/{id} is handed to
  fetch. The platform's fetch refuses the method, which is counted and
  recorded as a connection failure, and enough of those stop the stage. The model
  lets it be answered, as another `fetchImpl` would; `PolicyKept` covers it.
* api-validation.ts: the sign-in's POST needs no approval and is sent in
  production too; a 429 to it does not stop the stage.
* A quoted control name of a case is backed by the plain words of a requirement,
  which no rule checks against discovery (semantic-validate.ts:511).
* A failed collection of browser evidence leaves the earlier run's file, whose
  requests count as seen by this run (qa-manual.mjs:694); the comment "a recorded
  request - failed or not" (semantic-validate.ts:1957) is about a file that
  records failed ones only.
* "No logout button" in an observation is taken as the observation of a logout
  button, so that saying it again is a contradiction (semantic-validate.ts:806).
* A KILL reaches the runner; its agents are process groups of their own and
  outlive it, although run-controller.ts:182 says that "TERM/KILL reach it and the
  agents it spawned".

## 7. What is not modelled, and why

Within the modules: the wording of messages and the fields no decision depends
on; comments on proposals; `phase1-refresh.json`, which reports how a refresh is
going and which a refused second refresh may overwrite (listed as a hazard
without a property); the one second of slack in `wasWrittenDuring`; a review
store or a lock file that cannot be parsed; how mentions are extracted from prose
(regular expressions, stems and synonyms: a matter for unit tests); the
similarity of two bug claims, which is a relation here; redaction; JSON schemas;
the suite review, which is advisory and no part of what is approved.

Outside: the browser, the model, SQLite, the file system's own guarantees
(a write is seen by the next read; a rename is atomic), and the components
listed as `not_modelled` in `PROJECT.json`, each with its reason there.
