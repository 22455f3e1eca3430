----------------------------- MODULE Phase1Refresh -----------------------------
(***************************************************************************)
(* Which Phase 1 artifacts are current, and the dependency refresh that    *)
(* makes them so again (src/lib/phase1-dependencies.ts and                 *)
(* scripts/lib/refresh.mjs, with the stages of scripts/lib/stage.mjs).     *)
(*                                                                         *)
(* The prioritization and the defect analysis are derived from the test    *)
(* suite.  A person changes the suite at any time (a refresh does not      *)
(* block that); a refresh has two agents derive both again, replacing the  *)
(* files as they go, and stamps them with the suite's hash, or puts a      *)
(* snapshot back.  It may die at any step, and the agent it was waiting    *)
(* for, a process group of its own, then lives on.                         *)
(*                                                                         *)
(* One refresh runs at a time: the run lock is taken to hold (RunLock says *)
(* when it does).  A suite is a model value with the case ids it has; an   *)
(* artifact is known by the suite its agent had read and the refresh that  *)
(* wrote it, so two writes of one refresh from one suite are the same.     *)
(* Left out: the discovery and the requirements, which only a full run     *)
(* changes; what people decide about the bug reports, with their           *)
(* reconciliation; and phase1-refresh.json, the report of how a refresh is *)
(* going, which decides nothing the lock does not decide again.            *)
(***************************************************************************)
EXTENDS Naturals, FiniteSets

CONSTANTS
    Suites,         \* the contents test-cases.json can have
    InitialSuite,   \* the one the full run produced
    IdsOf,          \* the test case ids of each suite
    MaxRuns,        \* bound: refreshes are numbered 1..MaxRuns
    None            \* no file, no stamp, no stage, or nothing read

Stages == {"prioritization", "defects"}
Derived == {"automation-prioritization", "defect-analysis"}
Files == Derived \cup {"bugs"}
Runs == 0..MaxRuns
Content == [from : Suites, run : Runs]

ASSUME ConstantsAssumption ==
    /\ InitialSuite \in Suites
    /\ MaxRuns \in Nat
    /\ DOMAIN IdsOf = Suites
    /\ None \notin Suites \cup Stages \cup Content

VARIABLES
    suite,      \* test-cases.json
    file,       \* the derived files: what each was made from, None if absent
    newer,      \* an unstamped artifact is newer on disk than test-cases.json
    stamp,      \* phase1-dependencies.json: the suite each was stamped with
    refresh,    \* the refresh process
    runs,       \* the number of the last refresh started
    agent,      \* the agent a refresh awaits, and one a dead refresh left
    (* History variables: no action's guard reads them. *)
    doubtful,   \* the artifacts whose stamp no longer vouches for them
    died        \* a refresh has died

vars == <<suite, file, newer, stamp, refresh, runs, agent, doubtful, died>>

Snapshot == [Files -> Content \cup {None}]
Working == {"prioritization", "defects", "stampPrioritization", "stampDefects", "finish"}
Restoring == {"restorePrioritization", "restoreDefects", "restoreBugs", "failed"}

(* disturbed, stale and stamped are history: the suite changed or a left   *)
(* behind agent wrote since the start; what was STALE at the start; what   *)
(* this refresh has stamped.  cause says what it rolls back for.           *)
Refresh == [pc : {"idle"} \cup Working \cup Restoring, fresh : BOOLEAN, backup : Snapshot,
            cause : {"none", "stage", "error"}, disturbed : BOOLEAN,
            stale : SUBSET Derived, stamped : SUBSET Derived]

(* half: the bug reports are written, their defect analysis is not yet. *)
Agent == [stage : Stages \cup {None}, read : Suites \cup {None}, run : Runs, half : BOOLEAN]

TypeOK ==
    /\ suite \in Suites
    /\ file \in Snapshot
    /\ newer \in [Derived -> BOOLEAN]
    /\ stamp \in [Derived -> Suites \cup {None}]
    /\ refresh \in Refresh
    /\ runs \in Runs
    /\ agent \in [{"awaited", "orphan"} -> Agent]
    /\ doubtful \subseteq Derived
    /\ died \in BOOLEAN

NoFiles == [f \in Files |-> None]
NoAgent == [stage |-> None, read |-> None, run |-> 0, half |-> FALSE]
NoRefresh == [pc |-> "idle", fresh |-> FALSE, backup |-> NoFiles, cause |-> "none",
              disturbed |-> FALSE, stale |-> {}, stamped |-> {}]

(* A full run has passed: with its stamps, before there were stamps, or    *)
(* only as far as the suite.                                               *)
Init ==
    /\ suite = InitialSuite
    /\ LET made == [f \in Files |-> [from |-> InitialSuite, run |-> 0]]
       IN  \/ file = made /\ stamp = [a \in Derived |-> InitialSuite]
           \/ file = made /\ stamp = [a \in Derived |-> None]
           \/ file = NoFiles /\ stamp = [a \in Derived |-> None]
    /\ newer = [a \in Derived |-> TRUE]
    /\ refresh = NoRefresh
    /\ runs = 0
    /\ agent = [k \in {"awaited", "orphan"} |-> NoAgent]
    /\ doubtful = {}
    /\ died = FALSE

-----------------------------------------------------------------------------
(* The dependency state. *)

SameIds(s, t) == IdsOf[s] = IdsOf[t]

(* Without a stamp an artifact is judged by its ids and by file times. *)
LegacyState(a) ==
    IF newer[a] /\ (a = "automation-prioritization" => SameIds(file[a].from, suite))
    THEN "CURRENT" ELSE "STALE"

DependencyState(a) ==
    IF file[a] = None THEN "MISSING"
    ELSE IF stamp[a] = None THEN LegacyState(a)
    ELSE IF stamp[a] = suite THEN "CURRENT" ELSE "STALE"

Live == refresh.pc # "idle"

-----------------------------------------------------------------------------
(* People. *)

(* Apply in the workspace replaces the suite, whatever is going on. *)
ApplyChange(s) ==
    /\ s # suite
    /\ suite' = s
    /\ newer' = [a \in Derived |-> stamp[a] # None]
    /\ refresh' = [refresh EXCEPT !.disturbed = Live]
    /\ UNCHANGED <<file, stamp, runs, agent, doubtful, died>>

(* refreshDependents up to the first stage: the lock, RUNNING, the snapshot. *)
Start ==
    /\ ~Live
    /\ runs < MaxRuns
    /\ runs' = runs + 1
    /\ refresh' = [NoRefresh EXCEPT
           !.pc = "prioritization", !.backup = file,
           !.stale = {a \in Derived : DependencyState(a) = "STALE"}]
    /\ UNCHANGED <<suite, file, newer, stamp, agent, doubtful, died>>

-----------------------------------------------------------------------------
(* An agent: the one awaited, or one that outlived its refresh. *)

ArtifactOf == [prioritization |-> "automation-prioritization", defects |-> "defect-analysis"]

(* The artifact still holds against the suite on disk: a prioritization    *)
(* has one entry for each case.                                            *)
ValidFrom(a, s) == a = "automation-prioritization" => SameIds(s, suite)

AgentReads(k) ==
    /\ agent[k].stage # None
    /\ agent' = [agent EXCEPT ![k].read = suite]
    /\ UNCHANGED <<suite, file, newer, stamp, refresh, runs, doubtful, died>>

(* What a write means to the refresh at work, and to what is known of f. *)
Noticed(k, a) ==
    /\ refresh' = [refresh EXCEPT
           !.fresh = @ \/ (refresh.pc = agent[k].stage /\ a \in Derived),
           !.disturbed = @ \/ (Live /\ k = "orphan")]
    /\ doubtful' = IF k = "orphan" THEN doubtful \cup ({a} \cap Derived) ELSE doubtful

AgentWrites(k, f) ==
    /\ file' = [file EXCEPT ![f] = [from |-> agent[k].read, run |-> agent[k].run]]
    /\ newer' = [a \in Derived |-> newer[a] \/ a = f]
    /\ Noticed(k, f)
    /\ UNCHANGED <<suite, stamp, runs, died>>

(* write_qa_artifact("automation-prioritization"). *)
WritePrioritization(k) ==
    /\ agent[k].stage = "prioritization"
    /\ agent[k].read # None
    /\ ValidFrom("automation-prioritization", agent[k].read)
    /\ AgentWrites(k, "automation-prioritization")
    /\ UNCHANGED agent

(* write_qa_artifact("defect-analysis"): the bug reports first... *)
WriteBugReports(k) ==
    /\ agent[k].stage = "defects"
    /\ agent[k].read # None
    /\ ~agent[k].half
    /\ AgentWrites(k, "bugs")
    /\ agent' = [agent EXCEPT ![k].half = TRUE]

(* ... and then the analysis itself. *)
WriteAnalysis(k) ==
    /\ agent[k].half
    /\ AgentWrites(k, "defect-analysis")
    /\ agent' = [agent EXCEPT ![k].half = FALSE]

(* The agent process ends, or is killed.  (An agent that continues its     *)
(* conversation, with what it read there, is one that has not ended.)      *)
AgentEnds(k) ==
    /\ agent[k].stage # None
    /\ agent' = [agent EXCEPT ![k] = NoAgent]
    /\ UNCHANGED <<suite, file, newer, stamp, refresh, runs, doubtful, died>>

-----------------------------------------------------------------------------
(* runStage. *)

AtStage == refresh.pc \in Stages /\ agent["awaited"].stage = None

(* Mutant of Accepted: a valid file passes, whoever wrote it and when. *)
MutantAccepted == file[ArtifactOf[refresh.pc]] # None

(* Written during the attempt, and valid on disk. *)
Accepted ==
    LET a == ArtifactOf[refresh.pc]
    IN  refresh.fresh /\ ValidFrom(a, file[a].from)

(* An attempt starts the agent. *)
StartAttempt ==
    /\ AtStage
    /\ ~Accepted
    /\ agent' = [agent EXCEPT !["awaited"] =
           [stage |-> refresh.pc, read |-> None, run |-> runs, half |-> FALSE]]
    /\ refresh' = [refresh EXCEPT !.fresh = FALSE]
    /\ UNCHANGED <<suite, file, newer, stamp, runs, doubtful, died>>

StagePasses ==
    /\ AtStage
    /\ Accepted
    /\ refresh' = [refresh EXCEPT
           !.pc = IF @ = "prioritization" THEN "defects" ELSE "stampPrioritization", !.fresh = FALSE]
    /\ UNCHANGED <<suite, file, newer, stamp, runs, agent, doubtful, died>>

(* Mutant of StageFails: only the failing stage's own files are put back. *)
MutantStageFails ==
    /\ AtStage
    /\ refresh' = [refresh EXCEPT
           !.pc = IF @ = "prioritization" THEN "restorePrioritization" ELSE "restoreDefects",
           !.fresh = FALSE, !.cause = "stage"]
    /\ UNCHANGED <<suite, file, newer, stamp, runs, agent, doubtful, died>>

(* The attempts are used up, or the stage threw. *)
StageFails ==
    /\ AtStage
    /\ refresh' = [refresh EXCEPT
           !.pc = "restorePrioritization", !.fresh = FALSE, !.cause = "stage"]
    /\ UNCHANGED <<suite, file, newer, stamp, runs, agent, doubtful, died>>

-----------------------------------------------------------------------------
(* The rest of refreshDependents, one file at a time. *)

(* stampDependency: what is on disk now is what it was generated from. *)
StampDependency(a, at, next) ==
    /\ refresh.pc = at
    /\ stamp' = [stamp EXCEPT ![a] = suite]
    /\ newer' = [newer EXCEPT ![a] = TRUE]
    /\ refresh' = [refresh EXCEPT !.pc = next, !.stamped = @ \cup {a}]
    /\ doubtful' = IF refresh.disturbed THEN doubtful \cup {a} ELSE doubtful \ {a}
    /\ UNCHANGED <<suite, file, runs, agent, died>>

(* COMPLETED, the copy under runs/, the history row, the lock's release. *)
Finish ==
    /\ refresh.pc = "finish"
    /\ refresh' = NoRefresh
    /\ UNCHANGED <<suite, file, newer, stamp, runs, agent, doubtful, died>>

(* Anything after the stages throws (a review history that cannot be read, *)
(* a copy that fails): the catch block restores.                           *)
Throws ==
    /\ refresh.pc \in Working \ Stages
    /\ refresh' = [refresh EXCEPT !.pc = "restorePrioritization", !.cause = "error"]
    /\ doubtful' = doubtful \cup refresh.stamped
    /\ UNCHANGED <<suite, file, newer, stamp, runs, agent, died>>

(* restore, file by file.  What it puts back has the time of this write. *)
Restore(f, at, next) ==
    /\ refresh.pc = at
    /\ file' = [file EXCEPT ![f] = refresh.backup[f]]
    /\ newer' = [a \in Derived |-> newer[a] \/ a = f]
    /\ refresh' = [refresh EXCEPT !.pc = next]
    /\ UNCHANGED <<suite, stamp, runs, agent, doubtful, died>>

EndFailed ==
    /\ refresh.pc = "failed"
    /\ refresh' = NoRefresh
    /\ UNCHANGED <<suite, file, newer, stamp, runs, agent, doubtful, died>>

(* The process is killed, or stopped with Ctrl-C: nothing is put back.     *)
(* Bound: of the agents left behind, one is followed.                      *)
Crash ==
    /\ Live
    /\ refresh' = NoRefresh
    /\ agent' = [agent EXCEPT
           !["awaited"] = NoAgent,
           !["orphan"] = IF agent["awaited"].stage = None THEN @ ELSE agent["awaited"]]
    /\ doubtful' = doubtful \cup
           {a \in Derived \ refresh.stamped : file[a] # refresh.backup[a]}
    /\ died' = TRUE
    /\ UNCHANGED <<suite, file, newer, stamp, runs>>

Next ==
    \/ \E s \in Suites : ApplyChange(s)
    \/ Start
    \/ \E k \in {"awaited", "orphan"} :
           \/ AgentReads(k)
           \/ WritePrioritization(k)
           \/ WriteBugReports(k)
           \/ WriteAnalysis(k)
           \/ AgentEnds(k)
    \/ StartAttempt
    \/ StagePasses
    \/ StageFails
    \/ StampDependency("automation-prioritization", "stampPrioritization", "stampDefects")
    \/ StampDependency("defect-analysis", "stampDefects", "finish")
    \/ Finish
    \/ Throws
    \/ Restore("automation-prioritization", "restorePrioritization", "restoreDefects")
    \/ Restore("defect-analysis", "restoreDefects", "restoreBugs")
    \/ Restore("bugs", "restoreBugs", "failed")
    \/ EndFailed
    \/ Crash

Spec == Init /\ [][Next]_vars

-----------------------------------------------------------------------------
(***************************************************************************)
(* Properties.                                                             *)
(***************************************************************************)

(* A stamp vouches for what it says: an artifact that reads CURRENT by its *)
(* stamp was made from the suite on disk, whatever refreshes came, failed  *)
(* and were rolled back in between.  Three things cost that and are set    *)
(* apart in doubtful: a suite changed while a refresh was at work, a death *)
(* between a write and its stamp (with an agent left behind), and an error *)
(* after the stamps.                                                       *)
CurrentIsDerived ==
    ~(Live /\ refresh.disturbed) => \A a \in Derived \ doubtful :
        stamp[a] # None /\ DependencyState(a) = "CURRENT" => file[a].from = suite

(* The run whose set of files f is, Torn when they are of several. *)
Torn == None
RunOf(c) == IF c = None THEN 0 ELSE c.run
SetOf(f) ==
    IF \E r \in Runs : \A x \in Files : RunOf(f[x]) = r
    THEN RunOf(f["bugs"]) ELSE Torn

(* docs/RUNBOOK.md:303-308, "It is all or nothing": what readers find once *)
(* no refresh is at work is one run's whole set, unless one has died.      *)
Whole == INSTANCE AllOrNothing WITH
    accepted <- IF Live THEN SetOf(refresh.backup) ELSE SetOf(file),
    busy <- Live,
    run <- runs

RefreshIsAllOrNothing == Whole!Spec

(* refresh.mjs:5-7: "if either stage fails, the snapshot is put back and   *)
(* no dependency stamp is written, so the old artifacts stay exactly as    *)
(* they were: valid files, still STALE".                                   *)
FailedStaysStale ==
    /\ refresh.pc = "failed"
    /\ refresh.cause = "stage"
    /\ ~refresh.disturbed
    => \A a \in refresh.stale : DependencyState(a) = "STALE"

(* refresh.mjs:235, "Both stages passed against the current suite: now,    *)
(* and only now, current": what is stamped was made from the suite the     *)
(* stamp names.                                                            *)
StampedIsDerived ==
    refresh.pc = "finish" => \A a \in Derived : file[a].from = stamp[a]

(***************************************************************************)
(* The inductive invariant behind CurrentIsDerived and AllOrNothing.       *)
(***************************************************************************)

(* The awaited agent works for the refresh's current stage, and for it     *)
(* only; an agent left behind is proof of a death.                         *)
AgentsServeRuns ==
    /\ agent["awaited"].stage # None =>
           agent["awaited"].stage = refresh.pc /\ agent["awaited"].run = runs
    /\ agent["orphan"].stage # None => died
    /\ \A k \in {"awaited", "orphan"} : agent[k].half =>
           agent[k].stage = "defects" /\ agent[k].read # None
    /\ agent["awaited"].half /\ ~died => RunOf(file["bugs"]) = runs

(* Nothing has disturbed the refresh: what its agent read is the suite.    *)
AgentReadSuite ==
    ~refresh.disturbed /\ agent["awaited"].stage # None =>
        agent["awaited"].read \in {None, suite}

(* What the refresh has replaced by its own so far. *)
Accomplished ==
    CASE refresh.pc = "prioritization" -> IF refresh.fresh THEN {"automation-prioritization"} ELSE {}
      [] refresh.pc = "defects" -> {"automation-prioritization"} \cup
             (IF refresh.fresh THEN {"defect-analysis", "bugs"} ELSE {})
      [] refresh.pc \in {"stampPrioritization", "stampDefects", "finish"} -> Files
      [] OTHER -> {}

(* What it has put back so far. *)
PutBack ==
    CASE refresh.pc = "restoreDefects" -> {"automation-prioritization"}
      [] refresh.pc = "restoreBugs" -> Derived
      [] refresh.pc = "failed" -> Files
      [] OTHER -> {}

(* A refresh that is not at work has no state. *)
IdleIsClean == ~Live => refresh = NoRefresh

StampedInOrder ==
    /\ refresh.pc \in Stages \cup {"stampPrioritization"} => refresh.stamped = {}
    /\ refresh.pc = "stampDefects" => refresh.stamped = {"automation-prioritization"}
    /\ refresh.pc = "finish" => refresh.stamped = Derived
    /\ refresh.pc \in Restoring => refresh.stamped \subseteq doubtful

Replaced ==
    \A f \in Accomplished :
        /\ f \in Derived => file[f] # None
        /\ ~died => RunOf(file[f]) = runs
        /\ f \in Derived \ refresh.stamped /\ ~refresh.disturbed => file[f].from = suite

(* An artifact that no refresh at work has touched, or that one has just   *)
(* stamped, was made from what its stamp says.                             *)
StampsVouch ==
    \A a \in Derived \ doubtful :
        /\ stamp[a] # None /\ file[a] # None /\ (~Live \/ a \in refresh.stamped \cup PutBack)
               => file[a].from = stamp[a]
        /\ Live /\ a \notin refresh.stamped /\ stamp[a] # None /\ refresh.backup[a] # None
               => refresh.backup[a].from = stamp[a]
        /\ Live /\ ~refresh.disturbed /\ a \notin refresh.stamped
               => file[a] = refresh.backup[a] \/ (file[a] # None /\ file[a].from = suite)

RestoredExactly ==
    \A f \in PutBack : file[f] = refresh.backup[f] \/ died

IInv ==
    /\ TypeOK
    /\ AgentsServeRuns
    /\ AgentReadSuite
    /\ IdleIsClean
    /\ StampedInOrder
    /\ Replaced
    /\ StampsVouch
    /\ RestoredExactly
=============================================================================
