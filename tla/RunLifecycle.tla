--------------------------- MODULE RunLifecycle ---------------------------
(***************************************************************************)
(* The life of a Phase 1 run: the workspace's RunController starts and     *)
(* cancels it (src/src/run-control), the runner process executes its       *)
(* stages and settles its outcome (src/scripts/qa-manual.mjs, stage.mjs,   *)
(* history.mjs, cancellation.mjs), the history keeps its row and the event *)
(* log its events, and a browser follows the log as a stream.              *)
(*                                                                         *)
(* Between two awaits the runner is one step, for nothing but the death of *)
(* the process can come in between; the steps of its last synchronous      *)
(* block are kept apart for that reason (preserveRun, the final event, the *)
(* closing of the row).  RunLock has the lock in detail; here it is its    *)
(* owner, taken over from a dead one.                                      *)
(***************************************************************************)
EXTENDS Naturals, Sequences, FiniteSets

CONSTANTS
    Runs,          \* the runs that may be started
    UIRuns,        \* those of them started from the workspace
    Watched,       \* bound: the runs a browser follows
    Faulty,        \* bound: the runs that are killed, whose history or log refuses a write, whose agents fail
    NoRun,
    NStages,       \* stages of a run's plan
    Attempts,      \* attempts of a stage
    MaxEvents,     \* MAX_EVENTS_PER_RUN
    ReplayLimit    \* REPLAY_LIMIT

ASSUME RunsAssumption == UIRuns \subseteq Runs /\ Watched \subseteq Runs /\ Faulty \subseteq Runs /\ NoRun \notin Runs
ASSUME BoundsAssumption ==
    /\ NStages \in Nat \ {0} /\ Attempts \in Nat \ {0}
    /\ MaxEvents \in Nat \ {0} /\ ReplayLimit \in Nat \ {0}

VARIABLES
    proc,     \* where each runner process is
    run,      \* the runner's own state: stage, attempt, cancel requested, result, exit code, history
              \* recorded and finished; lost (history variable) says its final event was dropped
    agent,    \* the runs whose agent process is alive
    row,      \* the run's row in the history, with its last stage's
    arch,     \* the outcome the run's archive states, or "none"
    lock,     \* owner of the run lock
    log,      \* the run's event log
    ctl,      \* the RunController's memory: active run, runs it knows, cancels asked, escalation
    pending,  \* cancel messages and TERM signals on their way to a runner
    stream    \* one browser's event stream

vars == <<proc, run, agent, row, arch, lock, log, ctl, pending, stream>>

Live  == {"boot", "preflight", "between", "agent", "ending", "preserved", "emitted", "closing",
          "exiting", "released"}
\* Where the runner waits for something, so that a message or a signal is handled.
Awaits == {"preflight", "between", "agent", "ending", "closing"}
OpenStatus == {"STARTING", "RUNNING"}
Finals == {"COMPLETED", "FAILED", "CANCELLED"}

NewRun == [stage |-> 0, try |-> 0, requested |-> FALSE, result |-> "none", code |-> "none",
           recorded |-> FALSE, finished |-> FALSE, lost |-> FALSE]
NoRow == [status |-> "none", code |-> "", stage |-> "none", archive |-> FALSE]
IsOpen(r) == row[r].status \in OpenStatus

Init ==
    /\ proc = [r \in Runs |-> "none"]
    /\ run = [r \in Runs |-> NewRun]
    /\ agent = {} /\ lock = NoRun
    /\ row = [r \in Runs |-> NoRow]
    /\ arch = [r \in Runs |-> "none"]
    /\ log = [r \in Runs |-> <<>>]
    /\ ctl = [active |-> NoRun, known |-> {}, cancel |-> {}, phase |-> "none"]
    /\ pending = [cancel |-> {}, term |-> {}]
    /\ stream = [run |-> NoRun, last |-> 0, quiet |-> 0, state |-> "off"]

-----------------------------------------------------------------------------
(* The event log. *)

MutantNextIdRestarts(l) == 1

\* The id a writer gives its next event: it continues the numbering it finds.
NextId(l) == IF l = <<>> THEN 1 ELSE l[Len(l)].id + 1

MutantAppendedNoOutline(l, type) ==
    IF NextId(l) > MaxEvents THEN l
    ELSE Append(l, [id |-> NextId(l), type |-> IF type \in Finals THEN type ELSE "EVENT"])

\* What emit leaves: past the maximum only the outline is kept, and one notice.  What is below is of no
\* consequence to a reader, so that tool and outline events are one type once they are written.
Appended(l, type) ==
    LET full   == NextId(l) > MaxEvents
        notice == \E i \in DOMAIN l : l[i].type = "NOTICE"
        kept   == CASE type \in Finals            -> type
                    [] full /\ type = "TOOL"     -> "NOTICE"
                    [] OTHER                     -> "EVENT"
    IN IF kept = "NOTICE" /\ notice THEN l ELSE Append(l, [id |-> NextId(l), type |-> kept])

HasFinal(l) == l # <<>> /\ l[Len(l)].type \in Finals

\* Where in the log the events are that a reader is given: after the last it has, the most recent ones of them.
Fresh(l, after) ==
    LET new == {i \in DOMAIN l : l[i].id > after}
    IN {i \in new : Cardinality({j \in new : j > i}) < ReplayLimit}

\* The last of some places in a log.
Latest(places) == CHOOSE i \in places : \A j \in places : j <= i

Emit(r, type) == log' = [log EXCEPT ![r] = Appended(@, type)]

LockFree == lock \in {NoRun} \cup {r \in Runs : proc[r] \notin Live}

-----------------------------------------------------------------------------
(* The history. *)

Orphan(status) == IF status \in {"COMPLETED", "CANCELLED", "INTERRUPTED"} THEN status ELSE "FAILED"

MutantFinishedKeepsStage(w, status, code, archive) ==
    [w EXCEPT !.status = status, !.code = code, !.archive = @ \/ archive]

\* finishRun: status, code and any stage still running, in one transaction.
Finished(w, status, code, archive) ==
    [w EXCEPT !.status = status, !.code = code, !.archive = @ \/ archive,
              !.stage = IF @ = "RUNNING" THEN Orphan(status) ELSE @]

OwnerAlive(r, owner) == proc[r] \in Live /\ owner = r

MutantReconciledAll(owner) ==
    [r \in Runs |-> IF IsOpen(r) THEN Finished(row[r], "INTERRUPTED", "OWNER_PROCESS_GONE", FALSE) ELSE row[r]]

\* reconcileRunning: open rows whose owner is gone, or no longer holds the lock.
Reconciled(owner) ==
    [r \in Runs |-> IF IsOpen(r) /\ ~OwnerAlive(r, owner)
                    THEN Finished(row[r], "INTERRUPTED", "OWNER_PROCESS_GONE", FALSE) ELSE row[r]]

\* GET /api/runs settles what a dead process left open before it lists it.
ListRuns ==
    /\ row' = Reconciled(lock)
    /\ UNCHANGED <<proc, run, agent, arch, lock, log, ctl, pending, stream>>

\* statusOf: the status an archive's outcome is imported as.
ImportedStatus(outcome) == IF outcome \in {"COMPLETED", "FAILED"} THEN outcome ELSE "INTERRUPTED"

\* stagesFromRecord, stagesFromRefresh: what the last stage's own entries say of it; without a passed attempt
\* it failed, or the run ended before it had one.
ImportedStage(outcome) ==
    CASE outcome = "COMPLETED" -> {"COMPLETED"}
      [] outcome = "FAILED"    -> {"FAILED"}
      [] OTHER                 -> {"COMPLETED", "FAILED", "INTERRUPTED"}

\* qa:history:import: an archive without a row gets one; a row whose index failed is indexed again.
ImportArchive(r) ==
    /\ arch[r] # "none"
    /\ \/ /\ row[r] = NoRow
          /\ \E stage \in ImportedStage(arch[r]) :
                row' = [row EXCEPT ![r] = [status |-> ImportedStatus(arch[r]), code |-> "", archive |-> TRUE,
                                           stage |-> stage]]
       \/ /\ row[r].code = "INDEX_FAILED"
          /\ row' = [row EXCEPT ![r] = Finished(@, @.status, "", TRUE)]
    /\ UNCHANGED <<proc, run, agent, arch, lock, log, ctl, pending, stream>>

-----------------------------------------------------------------------------
(* The runner. *)

At(r, pc, next) == proc[r] = pc /\ proc' = [proc EXCEPT ![r] = next]

\* The process is gone: of its state its exit code remains, what it had not read is lost.
Die(r, code) ==
    /\ proc' = [proc EXCEPT ![r] = "dead"]
    /\ run' = [run EXCEPT ![r] = [NewRun EXCEPT !.code = code, !.recorded = run[r].recorded, !.lost = run[r].lost]]
    /\ pending' = [cancel |-> pending.cancel \ {r}, term |-> pending.term \ {r}]

\* The lock, then the history (which may be unavailable), then the first event (which may be lost).
Boot(r) ==
    /\ IF LockFree
       THEN /\ At(r, "boot", "preflight")
            /\ lock' = r
            /\ \E recorded \in {TRUE, r \notin Faulty} :
                 /\ run' = [run EXCEPT ![r].recorded = recorded]
                 /\ row' = IF recorded
                           THEN [Reconciled(r) EXCEPT ![r] = [NoRow EXCEPT !.status = "STARTING"]]
                           ELSE row
            /\ \/ Emit(r, "OUTLINE")
               \/ r \in Faulty /\ UNCHANGED log
            /\ UNCHANGED pending
       ELSE /\ proc[r] = "boot" /\ Die(r, "failed")
            /\ UNCHANGED <<row, lock, log>>
    /\ UNCHANGED <<agent, arch, ctl, stream>>

\* Preflight is done: RUNNING, unless a cancel came first.
PreflightDone(r) ==
    /\ At(r, "preflight", "between")
    /\ IF run[r].requested THEN UNCHANGED <<row, log>>
       ELSE /\ row' = [row EXCEPT ![r].status = IF @ = "STARTING" THEN "RUNNING" ELSE @]
            /\ Emit(r, "OUTLINE")
    /\ UNCHANGED <<run, agent, arch, lock, ctl, pending, stream>>

\* Nothing can be discovered: recorded as FAILED, with nothing to archive.
DocsUnavailable(r) ==
    /\ At(r, "preflight", "preserved")
    /\ run' = [run EXCEPT ![r].result = "FAILED"]
    /\ UNCHANGED <<agent, row, arch, lock, log, ctl, pending, stream>>

EndWith(r, pc, result) == At(r, pc, "ending") /\ run' = [run EXCEPT ![r].result = result]

StageRow(r, status) == row' = IF run[r].recorded THEN [row EXCEPT ![r].stage = status] ELSE row

\* The head of the stage loop: a cancel ends the run here.
StartStage(r) ==
    /\ run[r].stage < NStages
    /\ IF run[r].requested
       THEN EndWith(r, "between", "CANCELLED") /\ UNCHANGED <<agent, row, log>>
       ELSE /\ At(r, "between", "agent")
            /\ run' = [run EXCEPT ![r].stage = @ + 1, ![r].try = 1]
            /\ agent' = agent \cup {r}
            /\ StageRow(r, "RUNNING")
            /\ Emit(r, "OUTLINE")
    /\ UNCHANGED <<arch, lock, ctl, pending, stream>>

\* The agent ends: a cancel ends the run; otherwise the artifact it left passes or, at the last attempt, fails it.
AgentEnds(r) ==
    /\ r \in agent /\ agent' = agent \ {r}
    /\ Emit(r, "OUTLINE")
    /\ \/ run[r].requested /\ StageRow(r, "CANCELLED") /\ EndWith(r, "agent", "CANCELLED")
       \/ ~run[r].requested /\ StageRow(r, "COMPLETED") /\ At(r, "agent", "between") /\ UNCHANGED run
       \/ /\ ~run[r].requested /\ run[r].try = Attempts
          /\ StageRow(r, "FAILED") /\ EndWith(r, "agent", "FAILED")
    /\ UNCHANGED <<arch, lock, ctl, pending, stream>>

\* An attempt that left no valid artifact is followed by the next one.
Retry(r) ==
    /\ r \in Faulty /\ proc[r] = "agent" /\ ~run[r].requested /\ run[r].try < Attempts
    /\ run' = [run EXCEPT ![r].try = @ + 1]
    /\ Emit(r, "OUTLINE")
    /\ UNCHANGED <<proc, agent, row, arch, lock, ctl, pending, stream>>

\* The agent calls a tool: one event (bound: of a run somebody follows, for only its readers tell).
ToolCall(r) ==
    /\ r \in Watched /\ proc[r] = "agent" /\ r \in agent
    /\ Emit(r, "TOOL")
    /\ UNCHANGED <<proc, run, agent, row, arch, lock, ctl, pending, stream>>

\* Past the last stage the run is complete, whatever was asked since.
AllStagesDone(r) ==
    /\ run[r].stage = NStages
    /\ EndWith(r, "between", "COMPLETED")
    /\ UNCHANGED <<agent, row, arch, lock, log, ctl, pending, stream>>

MutantPreserveNothing(r) ==
    /\ At(r, "ending", "preserved")
    /\ UNCHANGED <<run, agent, row, arch, lock, log, ctl, pending, stream>>

Preserve(r) ==
    /\ At(r, "ending", "preserved")
    /\ arch' = [arch EXCEPT ![r] = run[r].result]
    /\ UNCHANGED <<run, agent, row, lock, log, ctl, pending, stream>>

\* The final event, before the row is closed; an event that cannot be written is dropped.
EmitFinal(r) ==
    /\ At(r, "preserved", "emitted")
    /\ \/ Emit(r, run[r].result) /\ UNCHANGED run
       \/ r \in Faulty /\ run' = [run EXCEPT ![r].lost = TRUE] /\ UNCHANGED log
    /\ UNCHANGED <<agent, row, arch, lock, ctl, pending, stream>>

ResultCode(r) == CASE run[r].result = "FAILED"    -> IF run[r].stage = 0 THEN "API_DOCS_UNAVAILABLE" ELSE "STAGE_FAILED"
                   [] run[r].result = "CANCELLED" -> "CANCELLED"
                   [] OTHER                       -> ""

\* history.finish: with the index, without it, or not at all when the database refuses both.
Finish(r) ==
    /\ At(r, "emitted", "closing")
    /\ run' = [run EXCEPT ![r].finished = TRUE,
                          ![r].code = CASE run[r].result = "COMPLETED" -> "ok"
                                        [] run[r].result = "CANCELLED" -> "130" [] OTHER -> "failed"]
    /\ LET archived == ~(run[r].result = "FAILED" /\ run[r].stage = 0)   \* all but DocsUnavailable
       IN \/ (~run[r].recorded \/ r \in Faulty) /\ UNCHANGED row
          \/ /\ run[r].recorded
             /\ \E code \in {ResultCode(r)} \cup (IF archived /\ r \in Faulty THEN {"INDEX_FAILED"} ELSE {}) :
                  row' = [row EXCEPT ![r] = Finished(@, run[r].result, code, archived)]
    /\ UNCHANGED <<agent, arch, lock, log, ctl, pending, stream>>

\* process.exit after the result was recorded.
ExitNormally(r) ==
    /\ At(r, "closing", "exiting")
    /\ UNCHANGED <<run, agent, row, arch, lock, log, ctl, pending, stream>>

\* process.exit from anywhere else: a failed preflight, an uncaught error, Ctrl-C.
ExitEarly(r) ==
    /\ \E pc \in Awaits : At(r, pc, "exiting")
    /\ \E code \in {"failed", "130"} : run' = [run EXCEPT ![r].code = code]
    /\ UNCHANGED <<agent, row, arch, lock, log, ctl, pending, stream>>

\* The exit handlers, in the order they were installed: the agent is signalled, the lock released ...
ReleaseOnExit(r) ==
    /\ At(r, "exiting", "released")
    /\ agent' = agent \ {r}
    /\ lock' = IF lock = r THEN NoRun ELSE lock
    /\ UNCHANGED <<run, row, arch, log, ctl, pending, stream>>

\* ... and the history's connection closed, by the listener runHistory installed before onExit: onExit's finishRun throws
\* on it and is swallowed, so that a row not finished stays open, for reconcileRunning or afterExit.
CloseOnExit(r) ==
    /\ proc[r] = "released" /\ Die(r, run[r].code)
    /\ UNCHANGED <<agent, row, arch, lock, log, ctl, stream>>

\* SIGKILL, OOM or power loss: no exit handler runs, and the agent's process group lives on (how long, nothing here depends on).
Crash(r) ==
    /\ r \in Faulty /\ proc[r] \in Live /\ Die(r, "failed")
    /\ UNCHANGED <<agent, row, arch, lock, log, ctl, stream>>

\* requestCancel, when the message is read: the stage will see the agent it stops end.
DeliverCancel(r) ==
    /\ r \in pending.cancel /\ proc[r] \in Awaits
    /\ run' = [run EXCEPT ![r].requested = TRUE]
    /\ pending' = [pending EXCEPT !.cancel = @ \ {r}]
    /\ UNCHANGED <<proc, agent, row, arch, lock, log, ctl, stream>>

\* SIGTERM: exit(130) from the handler, which passes it to the agent; without a handler yet, death.
HandleTerm(r) ==
    /\ r \in pending.term
    /\ \/ proc[r] = "boot" /\ Die(r, "130")
       \/ /\ \E pc \in Awaits : At(r, pc, "exiting")
          /\ run' = [run EXCEPT ![r].code = "130"]
          /\ pending' = [pending EXCEPT !.term = @ \ {r}]
    /\ UNCHANGED <<agent, row, arch, lock, log, ctl, stream>>

-----------------------------------------------------------------------------
(* The RunController of the workspace. *)

StartFromTerminal(r) ==
    /\ r \notin UIRuns
    /\ At(r, "none", "boot")
    /\ UNCHANGED <<run, agent, row, arch, lock, log, ctl, pending, stream>>

\* start: refused while a run of its own is active or a live process holds the lock; ids are never reused.
Start(r) ==
    /\ r \in UIRuns /\ ctl.active = NoRun
    /\ LockFree
    /\ At(r, "none", "boot")
    /\ ctl' = [ctl EXCEPT !.active = r, !.known = @ \cup {r}, !.phase = "none"]
    /\ UNCHANGED <<run, agent, row, arch, lock, log, pending, stream>>

\* The child's 'error' event: its process never existed, and no 'exit' event follows.
SpawnError(r) ==
    /\ ctl.active = r /\ At(r, "boot", "unborn")
    /\ UNCHANGED <<run, agent, row, arch, lock, log, ctl, pending, stream>>

Cancel(r) ==
    /\ ctl.active = r /\ r \notin ctl.cancel
    /\ ctl' = [ctl EXCEPT !.cancel = @ \cup {r}, !.phase = "asked"]
    /\ pending' = [pending EXCEPT !.cancel = IF proc[r] \in Live THEN @ \cup {r} ELSE @]
    /\ UNCHANGED <<proc, run, agent, row, arch, lock, log, stream>>

MutantTermTimerNoKill(r) ==
    /\ ctl.active = r /\ ctl.phase = "asked" /\ proc[r] \in Live
    /\ pending' = [pending EXCEPT !.term = @ \cup {r}]
    /\ UNCHANGED <<proc, run, agent, row, arch, lock, log, ctl, stream>>

\* After grace.cancel without an exit: TERM.
TermTimer(r) ==
    /\ ctl.active = r /\ ctl.phase = "asked" /\ proc[r] \in Live
    /\ ctl' = [ctl EXCEPT !.phase = "termed"]
    /\ pending' = [pending EXCEPT !.term = @ \cup {r}]
    /\ UNCHANGED <<proc, run, agent, row, arch, lock, log, stream>>

\* After grace.term without an exit: KILL, to the runner's process group - the agent has one of its own.
KillTimer(r) ==
    /\ ctl.active = r /\ ctl.phase = "termed" /\ proc[r] \in Live
    /\ ctl' = [ctl EXCEPT !.phase = "killed"]
    /\ Die(r, "failed")
    /\ UNCHANGED <<agent, row, arch, lock, log, stream>>

MutantSettledOpenOnly(r) ==
    LET asked == r \in ctl.cancel
    IN IF IsOpen(r)
       THEN Finished(row[r], IF asked THEN "CANCELLED" ELSE "FAILED", IF asked THEN "CANCELLED" ELSE "PROCESS_EXIT", FALSE)
       ELSE row[r]

MutantSettledCancelWins(r) ==
    IF r \in ctl.cancel /\ row[r] # NoRow THEN Finished(row[r], "CANCELLED", "CANCELLED", FALSE)
    ELSE IF IsOpen(r) THEN Finished(row[r], "FAILED", "PROCESS_EXIT", FALSE) ELSE row[r]

\* The row after the exit: an open one is closed, one cut off by a cancel becomes CANCELLED.
Settled(r) ==
    LET asked  == r \in ctl.cancel
        cutOff == asked /\ (row[r].status = "INTERRUPTED" \/ row[r].code = "PROCESS_EXIT")
    IN IF IsOpen(r) \/ cutOff
       THEN Finished(row[r], IF asked THEN "CANCELLED" ELSE "FAILED", IF asked THEN "CANCELLED" ELSE "PROCESS_EXIT", FALSE)
       ELSE row[r]

\* What the controller reports of the run: its row, or without one what the exit tells.
ReportedStatus(r) ==
    IF Settled(r) # NoRow THEN Settled(r).status
    ELSE IF r \in ctl.cancel THEN "CANCELLED"
    ELSE IF run[r].code = "ok" THEN "COMPLETED" ELSE "FAILED"

LastWord(r) == IF ReportedStatus(r) \in {"CANCELLED", "COMPLETED"} THEN ReportedStatus(r) ELSE "FAILED"

\* afterExit: the lock, the row and the log's last word, of a run that could not settle them.
AfterExit(r) ==
    /\ ctl.active = r /\ proc[r] = "dead"
    /\ ctl' = [ctl EXCEPT !.active = NoRun, !.phase = "none"]
    /\ lock' = IF lock = r THEN NoRun ELSE lock
    /\ row' = [row EXCEPT ![r] = Settled(r)]
    /\ IF log[r] # <<>> /\ ~HasFinal(log[r]) THEN Emit(r, LastWord(r)) ELSE UNCHANGED log
    /\ UNCHANGED <<proc, run, agent, arch, pending, stream>>

\* The workspace stops and starts again: it no longer knows its child, which goes on.
WorkspaceRestart ==
    /\ ctl' = [active |-> NoRun, known |-> {}, cancel |-> {}, phase |-> "none"]
    /\ stream' = [stream EXCEPT !.state = IF @ = "on" THEN "off" ELSE @]
    /\ UNCHANGED <<proc, run, agent, row, arch, lock, log, pending>>

-----------------------------------------------------------------------------
(* The stream of events, and the browser that follows it. *)

\* closed: over by the history's account, or without a row by the controller's.
Closed(r) == IF row[r] # NoRow THEN ~IsOpen(r) ELSE r \in ctl.known => ctl.active # r

\* The browser connects, or connects again with the last id it has seen.
Connect(r) ==
    /\ r \in Watched /\ stream.state = "off" /\ stream.run \in {NoRun, r}
    /\ row[r] # NoRow \/ r \in ctl.known
    /\ stream' = [stream EXCEPT !.run = r, !.quiet = 0, !.state = "on"]
    /\ UNCHANGED <<proc, run, agent, row, arch, lock, log, ctl, pending>>

\* Three ticks are 1.2 s: what a runner does at once, and the exit event of a child, come first.
Settling(r) ==
    \/ proc[r] \in {"preserved", "emitted", "exiting", "released"}
    \/ ctl.active = r /\ proc[r] = "dead"

MutantTickWaitsForEnd ==
    /\ stream.state = "on"
    /\ LET l     == log[stream.run]
           fresh == Fresh(l, stream.last)
       IN /\ fresh # {}
          /\ stream' = [stream EXCEPT !.last = l[Latest(fresh)].id,
                                      !.state = IF \E i \in fresh : l[i].type \in Finals THEN "seen" ELSE @]
    /\ UNCHANGED <<proc, run, agent, row, arch, lock, log, ctl, pending>>

Tick ==
    /\ stream.state = "on"
    /\ LET r     == stream.run
           fresh == Fresh(log[r], stream.last)
       IN \/ /\ fresh # {}
             /\ stream' = [stream EXCEPT !.last = log[r][Latest(fresh)].id, !.quiet = 0,
                                         !.state = IF \E i \in fresh : log[r][i].type \in Finals THEN "seen" ELSE @]
          \/ /\ fresh = {} /\ ~Closed(r)
             /\ stream' = [stream EXCEPT !.quiet = 0]
          \/ /\ fresh = {} /\ Closed(r) /\ (stream.quiet = 2 => ~Settling(r))
             /\ stream' = IF stream.quiet = 2 THEN [stream EXCEPT !.state = "quiet"]
                          ELSE [stream EXCEPT !.quiet = @ + 1]
    /\ UNCHANGED <<proc, run, agent, row, arch, lock, log, ctl, pending>>

\* The browser goes away, or its connection breaks.
Leave ==
    /\ stream.state = "on"
    /\ stream' = [stream EXCEPT !.state = "off"]
    /\ UNCHANGED <<proc, run, agent, row, arch, lock, log, ctl, pending>>

-----------------------------------------------------------------------------
RunnerStep(r) ==
    \/ Boot(r) \/ PreflightDone(r) \/ DocsUnavailable(r)
    \/ StartStage(r) \/ AgentEnds(r) \/ Retry(r) \/ ToolCall(r) \/ AllStagesDone(r)
    \/ Preserve(r) \/ EmitFinal(r) \/ Finish(r) \/ ExitNormally(r)
    \/ ExitEarly(r) \/ ReleaseOnExit(r) \/ CloseOnExit(r)
    \/ Crash(r) \/ DeliverCancel(r) \/ HandleTerm(r)

ControllerStep(r) ==
    \/ StartFromTerminal(r) \/ Start(r) \/ SpawnError(r)
    \/ Cancel(r) \/ TermTimer(r) \/ KillTimer(r) \/ AfterExit(r)

Next ==
    \/ \E r \in Runs : RunnerStep(r) \/ ControllerStep(r) \/ ImportArchive(r) \/ Connect(r)
    \/ ListRuns \/ WorkspaceRestart \/ Tick \/ Leave

\* Node's timers fire, a dead child's exit event arrives, a stream is polled, exit handlers run on.
Fairness ==
    /\ \A r \in Runs : /\ WF_vars(TermTimer(r)) /\ WF_vars(KillTimer(r)) /\ WF_vars(AfterExit(r))
                       /\ WF_vars(EmitFinal(r)) /\ WF_vars(Finish(r))
                       /\ WF_vars(ReleaseOnExit(r)) /\ WF_vars(CloseOnExit(r))
    /\ WF_vars(Tick)

Spec == Init /\ [][Next]_vars
FairSpec == Spec /\ Fairness

-----------------------------------------------------------------------------
(* Properties. *)

Status == {"none"} \cup OpenStatus \cup Finals \cup {"INTERRUPTED"}

Event == [id : Nat \ {0}, type : {"EVENT", "NOTICE"} \cup Finals]
RunRecord == [stage : 0..NStages, try : 0..Attempts, requested : BOOLEAN, result : {"none"} \cup Finals,
              code : {"none", "ok", "failed", "130"}, recorded : BOOLEAN, finished : BOOLEAN, lost : BOOLEAN]
RowRecord == [status : Status, archive : BOOLEAN, stage : {"none", "RUNNING", "INTERRUPTED"} \cup Finals,
              code : {"", "OWNER_PROCESS_GONE", "INDEX_FAILED", "PROCESS_EXIT", "STAGE_FAILED", "CANCELLED",
                      "API_DOCS_UNAVAILABLE"}]
CtlRecord == [active : Runs \cup {NoRun}, known : SUBSET Runs, cancel : SUBSET Runs,
              phase : {"none", "asked", "termed", "killed"}]
StreamRecord == [run : Runs \cup {NoRun}, last : Nat, quiet : 0..2, state : {"off", "on", "seen", "quiet"}]

TypeOK ==
    /\ proc \in [Runs -> Live \cup {"none", "dead", "unborn"}]
    /\ run \in [Runs -> RunRecord]
    /\ agent \subseteq Runs /\ lock \in Runs \cup {NoRun}
    /\ row \in [Runs -> RowRecord]
    /\ arch \in [Runs -> {"none"} \cup Finals]
    /\ log \in [Runs -> Seq(Event)]
    /\ ctl \in CtlRecord
    /\ pending \in [cancel : SUBSET Runs, term : SUBSET Runs]
    /\ stream \in StreamRecord

\* A row that states what the run itself recorded, rather than what others concluded.
Recorded(r) == row[r].archive \/ row[r].code = "API_DOCS_UNAVAILABLE"

\* A cancel the workspace accepted is what the history shows once the child has been settled, unless the
\* run had recorded its own result: not INTERRUPTED, not FAILED, whoever closed the row first (afterExit).
CancelKept ==
    \A r \in ctl.cancel :
        ctl.active # r /\ row[r] # NoRow => row[r].status = "CANCELLED" \/ Recorded(r)

\* The result the history recorded is the one the run's log ends with: neither a late cancel nor the settling of
\* its dead child replaces it (qa-manual writes the event, then the row; afterExit keeps a row that is closed).
ResultIsLastWord ==
    \A r \in Runs :
        run[r].recorded /\ Recorded(r) /\ HasFinal(log[r]) => row[r].status = log[r][Len(log[r])].type

\* A run the history shows as finished with an archive has one on disk: preserveRun comes before finish.
ArchiveBehindRow == \A r \in Runs : row[r].archive => arch[r] # "none"

\* A closed run shows no stage still running, whoever closed it (finishRun, reconcileRunning).
NoStageOutlivesRun == \A r \in Runs : row[r].stage = "RUNNING" => IsOpen(r)

\* The ids of a run's log are strictly increasing across its writers (the runner, then the controller) and past
\* the maximum, so that a reader that resumes after an id misses nothing.
LogOrdered == \A r \in Runs : \A i, j \in DOMAIN log[r] : i < j => log[r][i].id < log[r][j].id

\* Once the controller has settled its child, the log it began ends with a final event, also past the maximum of events.
LogEnds == \A r \in ctl.known : ctl.active # r /\ log[r] # <<>> => HasFinal(log[r])

\* What a reader that resumes after an id relies on, of every log that has been written to the end.
LogKept == LogOrdered /\ LogEnds

\* A stream that ended by itself has shown the end of the run, if the log tells one: the quiet end (a closed row and
\* nothing new) never comes before an event that was still to be sent, unless the runner could not write its own.
EndSeen == stream.state = "quiet" => ~HasFinal(log[stream.run]) \/ run[stream.run].lost

\* The outcome of each run, as the history promises it (RunOutcome).
Outcome == [r \in Runs |-> IF row[r] = NoRow THEN "none"
                           ELSE IF IsOpen(r) THEN "open"
                           ELSE IF Recorded(r) THEN "result" ELSE "stopped"]
History == INSTANCE RunOutcome WITH outcome <- Outcome
OneOutcome == History!Spec

\* A cancel ends the run: by the message, TERM or KILL, whatever the runner is doing, the controller is free
\* again (or has restarted, or the child never existed and its exit will not come).
CancelEnds == \A r \in UIRuns : (ctl.active = r /\ r \in ctl.cancel) ~> (ctl.active # r \/ proc[r] = "unborn")

\* A stream whose run is over ends, with or without a final event in the log, unless its browser leaves or the
\* run's outcome is being settled for ever.
StreamEnds == \A r \in Runs : (stream.state = "on" /\ stream.run = r /\ Closed(r)) ~> (stream.state # "on" \/ ~Closed(r))

-----------------------------------------------------------------------------
(* A statement of the code that does not hold of it. *)

\* history.mjs:13, "the process exits without closing the run -> an exit handler closes it": by then the connection
\* is closed, and the row of a terminal run that ended by itself stays open.
ExitClosesRow == \A r \in Runs \ (Faulty \cup UIRuns) : proc[r] = "dead" => ~IsOpen(r)

-----------------------------------------------------------------------------
(* The inductive invariant: what a run's process, record, row, archive and *)
(* log say of each other, wherever the run is.                             *)

\* Before it has the lock a run has left no trace.
NoTraceYet(r) ==
    proc[r] \in {"none", "boot", "unborn"} =>
        run[r] = NewRun /\ row[r] = NoRow /\ arch[r] = "none" /\ log[r] = <<>>

\* A row is open only without a result, has an archive behind it, and names the one who closed it; the run's own
\* stays open until the run itself closes it, as long as the process holds the lock.
RowTells(r) ==
    /\ run[r].recorded => row[r] # NoRow
    /\ IsOpen(r) => run[r].recorded /\ ~Recorded(r)
    /\ row[r] # NoRow /\ ~run[r].recorded => row[r].archive
    /\ row[r] = NoRow \/ IsOpen(r) \/ Recorded(r) \/ row[r].status \in {"CANCELLED", "INTERRUPTED"}
         \/ row[r].code = "PROCESS_EXIT"
    /\ run[r].recorded /\ Recorded(r) => row[r].status \in Finals /\ row[r].code # "PROCESS_EXIT"
    /\ row[r].code = "INDEX_FAILED" => run[r].recorded /\ row[r].archive
    /\ row[r].archive => arch[r] # "none"
    /\ row[r].stage = "RUNNING" => IsOpen(r)
    /\ run[r].recorded /\ ~run[r].finished /\ proc[r] \in Live =>
          IF proc[r] = "released" THEN ~Recorded(r) ELSE IsOpen(r)

\* Archive, final event and row are written in this order.
ResultTells(r) ==
    /\ run[r].finished => proc[r] \in {"closing", "exiting", "released"}
    /\ proc[r] = "preflight" => run[r].stage = 0
    /\ proc[r] \in {"ending", "preserved", "emitted"} => run[r].result \in Finals
    /\ proc[r] \in {"preserved", "emitted"} => arch[r] # "none" \/ (run[r].result = "FAILED" /\ run[r].stage = 0)
    /\ arch[r] # "none" => proc[r] \in {"preserved", "emitted", "closing", "exiting", "released", "dead"}
    /\ proc[r] \in {"preflight", "between", "agent", "ending", "preserved"} => ~HasFinal(log[r])
    /\ proc[r] = "emitted" /\ HasFinal(log[r]) => log[r][Len(log[r])].type = run[r].result
    /\ proc[r] \in {"emitted", "closing"} => HasFinal(log[r]) \/ run[r].lost
    /\ run[r].recorded /\ Recorded(r) /\ HasFinal(log[r]) => row[r].status = log[r][Len(log[r])].type

\* The ids of a log count its events, and nothing follows the final one.
LogCounts(r) ==
    \A i \in DOMAIN log[r] : log[r][i].id = i /\ (log[r][i].type \in Finals => i = Len(log[r]))

\* A process at work holds the lock, so that there is one.
LockHeld == \A r \in Runs : proc[r] \in Live \ {"boot", "released"} => lock = r

OneOpen == \A r, s \in Runs : IsOpen(r) /\ IsOpen(s) => r = s

\* A child the controller let go of is dead and settled.
ChildrenSettled ==
    /\ ctl.cancel \subseteq ctl.known
    /\ ctl.active # NoRun => ctl.active \in ctl.known
    /\ \A r \in ctl.known :
          /\ proc[r] # "none"
          /\ ctl.active # r => proc[r] = "dead" /\ (log[r] # <<>> => HasFinal(log[r]))

\* What a stream has sent, and what it cannot miss once it is over.
StreamFollows ==
    /\ stream.run = NoRun => stream.state = "off" /\ stream.last = 0
    /\ stream.run # NoRun =>
          LET r == stream.run
          IN /\ stream.last <= Len(log[r])
             /\ stream.state # "seen" => \A i \in DOMAIN log[r] : log[r][i].type \in Finals => stream.last < i
             /\ stream.state = "on" => row[r] # NoRow \/ r \in ctl.known
             /\ stream.state = "quiet" =>
                   run[r].lost \/ (~HasFinal(log[r]) /\ (proc[r] = "unborn" \/ (proc[r] = "dead" /\ ctl.active # r)))

IInv ==
    /\ TypeOK
    /\ \A r \in Runs : NoTraceYet(r) /\ RowTells(r) /\ ResultTells(r) /\ LogCounts(r)
    /\ LockHeld /\ OneOpen /\ ChildrenSettled /\ StreamFollows
    /\ CancelKept
=============================================================================
