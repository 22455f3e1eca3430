--------------------------- MODULE AutomationGate ---------------------------
(***************************************************************************)
(* The approval of a Phase 1 result and the Phase 2 run it opens the way   *)
(* to: src/src/lib/phase1-gate.ts, src/scripts/qa-approve.mjs,             *)
(* src/scripts/qa-automation.mjs and src/src/lib/automation-contract.ts.   *)
(*                                                                         *)
(* Approving and passing the gate both inspect the files and then hash     *)
(* them, a file at a time, while other processes write: people, a refresh, *)
(* a Phase 1 run.  Neither takes the run lock, and neither do two Phase 2  *)
(* runs, which share repo-analysis and the contract projected from it.     *)
(***************************************************************************)
EXTENDS Naturals, Sequences, FiniteSets, SequencesExt

CONSTANTS
    Phase2Runs,   \* the runs of qa:automation
    BugIds,       \* the bug reports there may be
    Judgements,   \* file -> how a new content of it may be judged (see below)
    Analyses,     \* what the Repo Analyzer may submit (see AnalysisFields)
    Paths,        \* the paths of the target repository
    Above,        \* path -> the directories it lies in
    History,      \* the target repository over time, each time as [files, scripts]
    MustDescribe, \* AUTOMATION_DIR_NAMES
    FromStages,   \* where a Phase 1 run may start
    Attempts,     \* attempts per stage
    MaxVersion,   \* bound on the contents ever written
    None,
    Torn          \* a file cut short by the death of its writer

PHASE1_LOCKED == <<"discovered-behavior", "requirements-analysis", "test-cases",
                   "automation-prioritization", "defect-analysis">>
Locked == Range(PHASE1_LOCKED)
Files == Locked \cup BugIds
AnalysisFields == {"layout", "keyFiles", "conventions", "config", "testDir", "scripts", "unknowns"}

ASSUME NoneAssumption == None \notin Phase2Runs
ASSUME JudgementAssumption ==
    \A f \in Files : Judgements[f] \subseteq {"missing", "unreadable", "hard", "findings", "manualOnly", "clean"}
ASSUME AnalysisAssumption == \A a \in Analyses : DOMAIN a = AnalysisFields
ASSUME BoundAssumption == FromStages \subseteq 1..5 /\ Attempts \in Nat \ {0} /\ MaxVersion \in Nat \ {0} /\ History # <<>>

VARIABLES
    disk,       \* file -> [v |-> its bytes, is |-> what inspection makes of them]
    version,    \* the last content written
    approval,   \* phase1-approval.json: None, Torn, or the hashes it records
    approver,   \* the process that approves
    phase1,     \* the Phase 1 run that regenerates
    runs,       \* the Phase 2 runs
    analysis,   \* repo-analysis.json
    contract,   \* automation-project-contract.json: what it says, the analysis and the hash it is of, the run that wrote it
    archives,   \* Phase 2 run -> what preserveRun copied, or None
    moves,      \* where the target repository is in its history
    gateOnly    \* --gate-only of the Phase 2 runs

vars == <<disk, version, approval, approver, phase1, runs, analysis, contract, archives, moves, gateOnly>>

-----------------------------------------------------------------------------
(* The inspection of Phase 1 and what is hashed. *)

Absent == [v |-> 0, is |-> "missing"]

\* What each artifact is judged against.
Upstream == [f \in Locked |->
    CASE f = "discovered-behavior"       -> {}
      [] f = "requirements-analysis"     -> {"discovered-behavior"}
      [] f = "test-cases"                -> {"requirements-analysis"}
      [] f = "automation-prioritization" -> {"test-cases"}
      [] f = "defect-analysis"           -> {"discovered-behavior", "requirements-analysis"}]

\* inspectPhase1, of the contents it read.
Inspection(seen) ==
    LET parsed == {f \in Locked : seen[f].is \notin {"missing", "unreadable"}}
        looked == {f \in parsed : Upstream[f] \subseteq parsed}
        bugs   == {b \in BugIds : "defect-analysis" \in looked /\ seen[b].is # "missing"}
    IN [missing   |-> {f \in Locked : seen[f].is = "missing"},
        invalid   |-> {f \in Locked : seen[f].is = "unreadable"} \cup {f \in looked : seen[f].is = "hard"}
                        \cup {b \in bugs : seen[b].is = "unreadable"},
        findings  |-> {f \in looked \cup bugs : seen[f].is = "findings"},
        automates |-> "automation-prioritization" \in looked /\ seen["automation-prioritization"].is # "manualOnly"]

\* The files are read, and hashed, one after the other; the model reads them in two groups.
InspectOrder == <<{"discovered-behavior", "requirements-analysis", "test-cases"},
                  {"automation-prioritization", "defect-analysis"} \cup BugIds>>
HashOrder == <<{"test-cases", "automation-prioritization"},
               {"discovered-behavior", "requirements-analysis", "defect-analysis"} \cup BugIds>>
Reading(found, order, at) == [f \in Files |-> IF f \in order[at] THEN disk[f] ELSE found[f]]
Hashing(found, order, at) == [f \in Files |-> IF f \in order[at] THEN disk[f].v ELSE found[f]]

MutantChangedPresentBugs(hash, found) == {f \in Files : hash[f] # found[f] /\ (f \in Locked \/ found[f] # 0)}
\* changedSinceApproval: every locked file, every report of either side.
Changed(hash, found) == {f \in Files : hash[f] # found[f]}

Unread == [f \in Files |-> Absent]
Unhashed == [f \in Files |-> 0]
Resting == [pc |-> "idle", at |-> 1, accept |-> FALSE, accepted |-> {}, seen |-> Unread, hash |-> Unhashed, raced |-> FALSE]
Waiting == [pc |-> "idle", at |-> 1, seen |-> Unread, automates |-> FALSE, read |-> None, hash |-> Unhashed, raced |-> FALSE,
            attempt |-> 0, fresh |-> FALSE, kept |-> None, sha |-> None, scripts |-> {}, built |-> None,
            outcome |-> "", moved |-> FALSE, overlapped |-> FALSE]

NoContract == [says |-> None, of |-> None, sha |-> None, by |-> None, overlapped |-> FALSE]

GateSteps == {"inspect", "approval", "compare", "open"}
StageSteps == {"attempt", "read", "evidence", "build", "validate", "finish"}
InGate(r) == runs[r].pc \in GateSteps
InStage(r) == runs[r].pc \in StageSteps

\* History: what was under way while the files, or the approval, changed.
GateRaced(rs) == [r \in Phase2Runs |-> [rs[r] EXCEPT !.raced = @ \/ InGate(r)]]
Disturbed == /\ approver' = [approver EXCEPT !.raced = @ \/ approver.pc # "idle"]
             /\ runs' = GateRaced(runs)

-----------------------------------------------------------------------------
(* A repository, an analysis of it, and the contract projected from one. *)

repo == History[moves]
Dirs(R) == {p \in R.files : \E q \in Paths : p \in Above[q]}
FilesIn(d, R) == {f \in R.files \ Dirs(R) : d \in Above[f]}

\* validateRepoAnalysis: what it claims is there, and what is there it describes.
RepoProblems(a, R) ==
    LET described == {a.layout[i].path : i \in DOMAIN a.layout}
        cited == a.keyFiles \cup a.conventions \cup UNION {a.layout[i].examples : i \in DOMAIN a.layout}
    IN \/ ~ described \cup cited \subseteq R.files
       \/ a.config \notin R.files \cup {None}
       \/ a.testDir \notin Dirs(R) \cup {None}
       \/ \E i, j \in DOMAIN a.layout : i # j /\ a.layout[i].path = a.layout[j].path
       \/ ~ a.scripts \subseteq R.scripts
       \/ \E d \in MustDescribe \cap R.files :
             d \notin a.unknowns /\ ~ \E p \in described \cup a.keyFiles : p = d \/ d \in Above[p] \/ p \in Above[d]
       \/ \E i \in DOMAIN a.layout :
             LET d == a.layout[i].path
             IN /\ a.layout[i].kind \in {"testDir", "pageObjects", "fixtures", "apiClients", "testData", "auth"}
                /\ d \in Dirs(R) \ a.unknowns /\ FilesIn(d, R) # {}
                /\ FilesIn(d, R) \cap (a.layout[i].examples \cup a.conventions \cup a.keyFiles) = {}
       \/ a.layout = <<>> /\ a.keyFiles = {}

There(p, files) == IF p \in files THEN p ELSE None

MutantProjectionConfiguredRoot(a, files, scripts) ==
    [locations |-> {}, config |-> There(a.config, files), testDir |-> a.testDir, testRoot |-> a.testDir,
     conventions |-> a.conventions \cap files, scripts |-> a.scripts \cap scripts]
\* buildAutomationContract: of each kind the first location that is there; the configuration's testDir wins.
Projection(a, files, scripts) ==
    LET kept == {i \in DOMAIN a.layout : a.layout[i].path \in files /\ a.layout[i].kind \notin {"other", "ci"}}
        first == {i \in kept : \A j \in kept : j < i => a.layout[j].kind # a.layout[i].kind}
        root == {a.layout[i].path : i \in {j \in first : a.layout[j].kind = "testDir"}}
        own == There(a.testDir, files)
    IN [locations |-> {a.layout[i] : i \in first}, config |-> There(a.config, files), testDir |-> own,
        testRoot |-> IF own # None \/ root = {} THEN own ELSE CHOOSE p \in root : TRUE,
        conventions |-> a.conventions \cap files, scripts |-> a.scripts \cap scripts]

\* validateAutomationContract.
ContractProblems(c, files, scripts, sha, current) ==
    \/ ~ ({c.testRoot, c.config, c.testDir} \ {None}) \cup {e.path : e \in c.locations} \cup c.conventions \subseteq files
    \/ ~ c.scripts \subseteq scripts
    \/ current # sha

-----------------------------------------------------------------------------
\* No stage of Phase 2 touches what Phase 1 and its approval do, and the gate nothing of a
\* stage: either is explored while the other rests.  With --gate-only the Phase 1 side is at
\* work; without, the runs find a result that was approved and that nobody writes.
Init ==
    /\ disk = [f \in Files |-> [v |-> 1, is |-> "clean"]]
    /\ version = 1
    /\ gateOnly \in BOOLEAN
    /\ approval = IF gateOnly THEN None ELSE [hash |-> [f \in Files |-> 1], accepted |-> {}, accept |-> FALSE, raced |-> FALSE]
    /\ approver = Resting
    /\ phase1 = [pc |-> "idle", at |-> 1]
    /\ runs = [r \in Phase2Runs |-> Waiting]
    /\ analysis = None
    /\ contract = NoContract
    /\ archives = [r \in Phase2Runs |-> None]
    /\ moves \in IF gateOnly THEN {1} ELSE DOMAIN History

unchangedRepo == UNCHANGED <<moves, gateOnly>>
unchangedStage == UNCHANGED <<analysis, contract, archives, moves, gateOnly>>

\* Anyone writes a file that an approval covers: by hand, a proposal applied, a bug decided, a refresh.
WriteFile(f) ==
    /\ gateOnly
    /\ version < MaxVersion
    /\ \E is \in Judgements[f] :
          /\ is # "missing" \/ disk[f] # Absent
          /\ disk' = [disk EXCEPT ![f] = IF is = "missing" THEN Absent ELSE [v |-> version + 1, is |-> is]]
    /\ version' = version + 1
    /\ Disturbed
    /\ unchangedStage /\ UNCHANGED <<approval, phase1>>

-----------------------------------------------------------------------------
(* A Phase 1 run from a later stage: it archives what it will replace, then the approval. *)

Phase1Archives(from) ==
    /\ gateOnly
    /\ phase1.pc = "idle"
    /\ phase1' = [pc |-> "archive", at |-> from]
    /\ disk' = [f \in Files |-> IF f \in BugIds \/ \E i \in from..5 : f = PHASE1_LOCKED[i] THEN Absent ELSE disk[f]]
    /\ Disturbed
    /\ unchangedStage /\ UNCHANGED <<version, approval>>

Phase1ArchivesApproval ==
    /\ gateOnly
    /\ phase1.pc = "archive"
    /\ phase1' = [phase1 EXCEPT !.pc = "stages"]
    /\ approval' = None
    /\ runs' = GateRaced(runs)
    /\ unchangedStage /\ UNCHANGED <<disk, version, approver>>

\* A stage passes only with an artifact that inspection finds nothing in; the last one writes the bug reports too.
Phase1Stage ==
    /\ gateOnly
    /\ phase1.pc = "stages" /\ phase1.at <= 5 /\ version < MaxVersion
    /\ phase1' = [phase1 EXCEPT !.at = @ + 1]
    /\ \E is \in Judgements[PHASE1_LOCKED[phase1.at]] \cap {"clean", "manualOnly"} :
       \E bugs \in SUBSET BugIds :
          /\ phase1.at < 5 => bugs = {}
          /\ disk' = [f \in Files |-> CASE f = PHASE1_LOCKED[phase1.at] -> [v |-> version + 1, is |-> is]
                                        [] f \in bugs -> [v |-> version + 1, is |-> "clean"]
                                        [] OTHER -> disk[f]]
    /\ version' = version + 1
    /\ Disturbed
    /\ unchangedStage /\ UNCHANGED approval

\* It completes, fails, is cancelled or dies.
Phase1Ends ==
    /\ gateOnly
    /\ phase1.pc # "idle"
    /\ phase1' = [pc |-> "idle", at |-> 1]
    /\ unchangedStage /\ UNCHANGED <<disk, version, approval, approver, runs>>

-----------------------------------------------------------------------------
(* approvePhase1. *)

unchangedApprove == gateOnly /\ unchangedStage /\ UNCHANGED <<disk, version, phase1>>

\* accept is --accept-findings, which the workspace does not offer; the workspace also waits for a run to end.
ApproveStarts(accept) ==
    /\ approver.pc = "idle"
    /\ approver' = [Resting EXCEPT !.pc = "inspect", !.accept = accept]
    /\ unchangedApprove /\ UNCHANGED <<approval, runs>>

ApproveReads ==
    /\ approver.pc = "inspect" /\ approver.at <= 2
    /\ approver' = [approver EXCEPT !.at = @ + 1, !.seen = Reading(@, InspectOrder, approver.at)]
    /\ unchangedApprove /\ UNCHANGED <<approval, runs>>

MutantRefusesFindingsLater(found, accept) == found.missing # {} \/ found.invalid # {}
\* INCOMPLETE, INVALID, FINDINGS.
Refuses(found, accept) == found.missing # {} \/ found.invalid # {} \/ (found.findings # {} /\ ~ accept)

ApproveJudges ==
    /\ approver.pc = "inspect" /\ approver.at = 3
    /\ LET found == Inspection(approver.seen)
       IN approver' = IF Refuses(found, approver.accept) THEN Resting
                      ELSE [approver EXCEPT !.pc = "hash", !.at = 1, !.accepted = found.findings, !.seen = Unread]
    /\ unchangedApprove /\ UNCHANGED <<approval, runs>>

ApproveHashes ==
    /\ approver.pc = "hash" /\ approver.at <= 2
    /\ approver' = [approver EXCEPT !.at = @ + 1, !.hash = Hashing(@, HashOrder, approver.at)]
    /\ unchangedApprove /\ UNCHANGED <<approval, runs>>

ApproveWrites ==
    /\ approver.pc = "hash" /\ approver.at = 3
    /\ approval' = [hash |-> approver.hash, accepted |-> approver.accepted, accept |-> approver.accept /\ approver.accepted # {}, raced |-> approver.raced]
    /\ approver' = Resting
    /\ runs' = GateRaced(runs)
    /\ unchangedApprove

\* The process dies; the file is written in place, so it may be left torn.
ApproveDies ==
    /\ approver.pc # "idle"
    /\ approver' = Resting
    /\ approval' \in {approval} \cup (IF approver.pc = "hash" /\ approver.at = 3 THEN {Torn} ELSE {})
    /\ runs' = IF approval' = approval THEN runs ELSE GateRaced(runs)
    /\ unchangedApprove

-----------------------------------------------------------------------------
(* qa-automation: the entry gate.  Reading only, two of them do not matter  *)
(* to one another, so the model has one at a time.                          *)

unchangedPhase1 == UNCHANGED <<disk, version, approval, approver, phase1>>
unchangedGate == unchangedPhase1 /\ unchangedStage
SetRun(r, run) == runs' = [runs EXCEPT ![r] = run]

GateStarts(r) ==
    /\ runs[r].pc = "idle" /\ \A q \in Phase2Runs : ~ InGate(q)
    /\ SetRun(r, [Waiting EXCEPT !.pc = "inspect"])
    /\ unchangedGate

GateReads(r) ==
    /\ runs[r].pc = "inspect" /\ runs[r].at <= 2
    /\ SetRun(r, [runs[r] EXCEPT !.at = @ + 1, !.seen = Reading(@, InspectOrder, runs[r].at)])
    /\ unchangedGate

MutantLetsInApproved(found) == found.missing \cap {"test-cases", "automation-prioritization"} = {}
\* checkPhase2Gate, 1-2.
LetsIn(found) == found.missing \cap {"test-cases", "automation-prioritization"} = {} /\ found.invalid = {}

GateJudges(r) ==
    /\ runs[r].pc = "inspect" /\ runs[r].at = 3
    /\ SetRun(r, IF LetsIn(Inspection(runs[r].seen)) 
                 THEN [Waiting EXCEPT !.pc = "approval", !.automates = Inspection(runs[r].seen).automates, !.raced = runs[r].raced]
                 ELSE Waiting)
    /\ unchangedGate

\* 3-4.
GateReadsApproval(r) ==
    /\ runs[r].pc = "approval"
    /\ SetRun(r, IF approval \in {None, Torn} THEN Waiting ELSE [runs[r] EXCEPT !.pc = "compare", !.read = approval])
    /\ unchangedGate

\* 5.
GateHashes(r) ==
    /\ runs[r].pc = "compare" /\ runs[r].at <= 2
    /\ SetRun(r, [runs[r] EXCEPT !.at = @ + 1, !.hash = Hashing(@, InspectOrder, runs[r].at)])
    /\ unchangedGate

GateDecides(r) ==
    /\ runs[r].pc = "compare" /\ runs[r].at = 3
    /\ SetRun(r, IF Changed(runs[r].read.hash, runs[r].hash) = {} /\ runs[r].automates
                 THEN [runs[r] EXCEPT !.pc = "open"] ELSE Waiting)
    /\ unchangedGate

GateOnly(r) ==
    /\ gateOnly /\ runs[r].pc = "open"
    /\ SetRun(r, Waiting)
    /\ unchangedGate

-----------------------------------------------------------------------------
(* qa-automation: the Repo Analyzer, the contract, and the end. *)

unchangedRun == unchangedPhase1 /\ unchangedRepo

\* The earlier analysis is archived, the earlier contract is not.
StageStarts(r) ==
    /\ ~ gateOnly /\ runs[r].pc = "open"
    /\ runs' = [q \in Phase2Runs |->
                  IF q = r THEN [Waiting EXCEPT !.pc = "attempt", !.attempt = 1, !.overlapped = \E p \in Phase2Runs : InStage(p)]
                  ELSE [runs[q] EXCEPT !.overlapped = @ \/ InStage(q)]]
    /\ analysis' = None
    /\ UNCHANGED <<contract, archives>> /\ unchangedRun

\* The agent's write is accepted only without problems; it is fresh to whoever has an attempt under way.
AgentWrites(r, a) ==
    /\ runs[r].pc = "attempt"
    /\ ~ RepoProblems(a, repo)
    /\ analysis' = a
    /\ runs' = [q \in Phase2Runs |-> [runs[q] EXCEPT !.fresh = runs[q].pc = "attempt"]]
    /\ UNCHANGED <<contract, archives>> /\ unchangedRun

\* runStage, after the agent ended.
AttemptEnds(r) ==
    /\ runs[r].pc = "attempt"
    /\ LET run == runs[r]
           passed == analysis # None /\ run.fresh /\ ~ RepoProblems(analysis, repo)
       IN SetRun(r, CASE passed                   -> [run EXCEPT !.pc = "read", !.fresh = FALSE, !.outcome = "completed"]
                      [] ~ passed /\ run.attempt < Attempts -> [run EXCEPT !.attempt = @ + 1, !.fresh = FALSE]
                      [] OTHER                    -> [run EXCEPT !.pc = "finish", !.fresh = FALSE, !.outcome = "failed"])
    /\ UNCHANGED <<analysis, contract, archives>> /\ unchangedRun

\* buildContract: the analysis is read, and read again to be hashed.
ReadsAnalysis(r) ==
    /\ runs[r].pc = "read"
    /\ SetRun(r, [runs[r] EXCEPT !.pc = IF analysis = None THEN "finish" ELSE "evidence", !.kept = analysis])
    /\ UNCHANGED <<analysis, contract, archives>> /\ unchangedRun

MutantSourceHashCached(r) == IF contract.by # None THEN contract.sha ELSE analysis
SourceHash(r) == analysis

CollectsEvidence(r) ==
    /\ runs[r].pc = "evidence"
    /\ SetRun(r, IF analysis = None THEN [runs[r] EXCEPT !.pc = "finish", !.outcome = "no contract"]
                 ELSE [runs[r] EXCEPT !.pc = "build", !.sha = SourceHash(r), !.scripts = repo.scripts])
    /\ UNCHANGED <<analysis, contract, archives>> /\ unchangedRun

Builds(r) ==
    /\ runs[r].pc = "build"
    /\ SetRun(r, [runs[r] EXCEPT !.pc = "validate", !.built = Projection(runs[r].kept, repo.files, runs[r].scripts)])
    /\ UNCHANGED <<analysis, contract, archives>> /\ unchangedRun

\* Its own problems make it an error that is never fatal.
Validates(r) ==
    /\ runs[r].pc = "validate"
    /\ LET run == runs[r]
           wrong == ContractProblems(run.built, repo.files, run.scripts, run.sha, run.sha)
       IN /\ contract' = IF wrong THEN contract
                         ELSE [says |-> run.built, of |-> run.kept, sha |-> run.sha, by |-> r, overlapped |-> run.overlapped]
          /\ SetRun(r, [run EXCEPT !.pc = "finish", !.outcome = IF wrong THEN "no contract" ELSE @])
    /\ UNCHANGED <<analysis, archives>> /\ unchangedRun

\* saveRecord and preserveRun: every file of PHASE2_FILES that is there is copied.
Finishes(r) ==
    /\ runs[r].pc = "finish"
    /\ archives' = [archives EXCEPT ![r] = [outcome |-> runs[r].outcome, analysis |-> analysis, contract |-> contract.by]]
    /\ SetRun(r, [Waiting EXCEPT !.pc = "done", !.outcome = runs[r].outcome, !.moved = runs[r].moved,
                                 !.overlapped = runs[r].overlapped])
    /\ UNCHANGED <<analysis, contract>> /\ unchangedRun

StageDies(r) ==
    /\ InStage(r)
    /\ SetRun(r, [Waiting EXCEPT !.pc = "dead"])
    /\ unchangedGate

\* The target repository is a working copy of somebody's.
RepoMoves ==
    /\ ~ gateOnly /\ moves < Len(History)
    /\ moves' = moves + 1
    /\ runs' = [r \in Phase2Runs |-> [runs[r] EXCEPT !.moved = @ \/ runs[r].pc \in {"build", "validate"}]]
    /\ UNCHANGED <<analysis, contract, archives, gateOnly>> /\ unchangedPhase1

Next ==
    \/ \E f \in Files : WriteFile(f)
    \/ \E from \in FromStages : Phase1Archives(from)
    \/ Phase1ArchivesApproval \/ Phase1Stage \/ Phase1Ends
    \/ \E accept \in BOOLEAN : ApproveStarts(accept)
    \/ ApproveReads \/ ApproveJudges \/ ApproveHashes \/ ApproveWrites \/ ApproveDies
    \/ \E r \in Phase2Runs :
          \/ GateStarts(r) \/ GateReads(r) \/ GateJudges(r) \/ GateReadsApproval(r) \/ GateHashes(r) \/ GateDecides(r) \/ GateOnly(r)
          \/ StageStarts(r) \/ AttemptEnds(r) \/ ReadsAnalysis(r) \/ CollectsEvidence(r) \/ Builds(r) \/ Validates(r)
          \/ Finishes(r) \/ StageDies(r)
          \/ \E a \in Analyses : AgentWrites(r, a)
    \/ RepoMoves

Spec == Init /\ [][Next]_vars

-----------------------------------------------------------------------------
(* Properties. *)

\* Phase 2 starts only on the bytes of an approval, none of them structurally unsound, as
\* long as nothing was written while the gate looked - even when the approval itself was
\* taken while somebody wrote, and inspected other bytes than it hashed (phase1-gate.ts 230-315).
OnlyApprovedBytes ==
    \A r \in Phase2Runs : (runs[r].pc = "open" /\ ~ runs[r].raced) =>
        /\ approval \notin {None, Torn}
        /\ \A f \in Files : approval.hash[f] = disk[f].v
        /\ Inspection(disk).invalid = {} /\ Inspection(disk).automates
        /\ approval.raced \/ Inspection(disk).missing = {}

\* What inspection finds in a file Phase 2 starts on was accepted by the person who approved
\* it, unless files were written during the approval or the gate's check.
FindingsWereAccepted ==
    \A r \in Phase2Runs : (runs[r].pc = "open" /\ ~ runs[r].raced /\ ~ approval.raced) =>
        Inspection(disk).findings \subseteq IF approval.accept THEN approval.accepted ELSE {}

\* The contract carries the hash of the analysis it was projected from, and a run that ends
\* with a contract archives its own and not the one an earlier run left (qa-automation.mjs
\* 180-204, 290-294), unless two Phase 2 runs overlapped: no lock keeps them apart.
ContractTraced ==
    /\ (contract.by # None /\ ~ contract.overlapped) => contract.sha = contract.of
    /\ \A r \in Phase2Runs : (archives[r] # None /\ ~ runs[r].overlapped) =>
          (archives[r].outcome = "completed" => archives[r].contract = r)

\* A projection is refused by its own validation, and the contract of an earlier run left in
\* place, only when the repository changed between the two or another run interfered.
ProjectionHolds ==
    \A r \in Phase2Runs : runs[r].outcome = "no contract" => runs[r].moved \/ runs[r].overlapped

-----------------------------------------------------------------------------
(* The inductive invariant.                                                *)

Kinds == {"missing", "unreadable", "hard", "findings", "manualOnly", "clean"}
Contents == [v : Nat, is : Kinds]
Approvals == [hash : [Files -> Nat], accepted : SUBSET Files, accept : BOOLEAN, raced : BOOLEAN]
Approver == [pc : {"idle", "inspect", "hash"}, at : 1..3, accept : BOOLEAN, accepted : SUBSET Files,
             seen : [Files -> Contents], hash : [Files -> Nat], raced : BOOLEAN]
\* What a run carries through the gate, and through its stage.
GateFields == {"pc", "at", "seen", "automates", "read", "hash", "raced"}
StageFields == {"attempt", "fresh", "kept", "sha", "scripts", "built", "outcome", "moved", "overlapped"}

TypeOK ==
    /\ disk \in [Files -> Contents] /\ version \in Nat
    /\ approval \in {None, Torn} \cup Approvals
    /\ approver \in Approver
    /\ phase1 \in [pc : {"idle", "archive", "stages"}, at : 1..6]
    /\ DOMAIN runs = Phase2Runs
    /\ \A r \in Phase2Runs :
          /\ DOMAIN runs[r] = GateFields \cup StageFields
          /\ runs[r].pc \in GateSteps \cup StageSteps \cup {"idle", "done", "dead"} /\ runs[r].at \in 1..3
          /\ runs[r].seen \in [Files -> Contents] /\ runs[r].hash \in [Files -> Nat]
          /\ runs[r].raced \in BOOLEAN /\ runs[r].moved \in BOOLEAN /\ runs[r].overlapped \in BOOLEAN
    /\ DOMAIN archives = Phase2Runs
    /\ contract.by \in Phase2Runs \cup {None}

\* The groups of files a step-by-step reading has behind it.
Behind(order, at, f) == \E i \in 1..(at - 1) : f \in order[i]

\* Content 0 is a file's absence, and no content is written twice.
VersionsKnown ==
    /\ \A f \in Files : disk[f].v <= version /\ (disk[f].v = 0 <=> disk[f].is = "missing")
    /\ \A f \in Files : approver.hash[f] <= version
    /\ approval \notin {None, Torn} => \A f \in Files : approval.hash[f] <= version

\* An approval nobody disturbed was given what is on disk.
ApproverSees ==
    approver.raced \/
    /\ approver.pc = "inspect" => \A f \in Files : Behind(InspectOrder, approver.at, f) => approver.seen[f] = disk[f]
    /\ approver.pc = "hash" =>
          /\ approver.accepted = Inspection(disk).findings /\ ~ Refuses(Inspection(disk), approver.accept)
          /\ \A f \in Files : Behind(HashOrder, approver.at, f) => approver.hash[f] = disk[f].v

\* What it recorded was complete, and stays accepted as long as it is on disk.
ApprovalRests ==
    approval \notin {None, Torn} /\ ~ approval.raced =>
        \A f \in Files :
            /\ f \in Locked => approval.hash[f] # 0
            /\ disk[f].v = approval.hash[f] /\ disk[f].is = "findings" => approval.accept /\ f \in approval.accepted

\* A run nobody disturbed in the gate knows what is on disk and in the approval.
GateSees(r) ==
    runs[r].raced \/
    /\ runs[r].pc = "inspect" => \A f \in Files : Behind(InspectOrder, runs[r].at, f) => runs[r].seen[f] = disk[f]
    /\ runs[r].pc \in {"approval", "compare", "open"} =>
          LetsIn(Inspection(disk)) /\ (runs[r].automates <=> Inspection(disk).automates)
    /\ runs[r].pc = "approval" => runs[r].at = 1
    /\ runs[r].pc \in {"compare", "open"} => approval \notin {None, Torn} /\ runs[r].read = approval
    /\ runs[r].pc = "compare" => \A f \in Files : Behind(InspectOrder, runs[r].at, f) => runs[r].hash[f] = disk[f].v
    /\ runs[r].pc = "open" => runs[r].automates /\ \A f \in Files : approval.hash[f] = disk[f].v

\* Two runs in their stage know of each other.
OverlapSeen ==
    \A r, q \in Phase2Runs : r # q /\ InStage(r) /\ InStage(q) => runs[r].overlapped /\ runs[q].overlapped

\* A run alone in its stage finds its own analysis wherever it looks, and leaves its own contract.
StageOwns(r) ==
    /\ archives[r] # None => runs[r].pc = "done"
    /\ ~ runs[r].overlapped =>
          /\ runs[r].pc = "read" => analysis # None
          /\ runs[r].pc = "evidence" => analysis # None /\ runs[r].kept = analysis
          /\ runs[r].pc \in {"build", "validate"} => runs[r].sha = runs[r].kept
          /\ runs[r].pc = "finish" /\ runs[r].outcome = "completed" => contract.by = r
          /\ archives[r] # None /\ archives[r].outcome = "completed" => archives[r].contract = r
          /\ runs[r].outcome = "no contract" => runs[r].moved
    /\ runs[r].pc = "validate" /\ ~ runs[r].moved =>
          runs[r].built = Projection(runs[r].kept, repo.files, runs[r].scripts)

ContractSourced == contract.by # None /\ ~ contract.overlapped => contract.sha = contract.of

IInv ==
    /\ TypeOK /\ VersionsKnown /\ ApproverSees /\ ApprovalRests
    /\ OverlapSeen /\ ContractSourced
    /\ \A r \in Phase2Runs : GateSees(r) /\ StageOwns(r)
=============================================================================
