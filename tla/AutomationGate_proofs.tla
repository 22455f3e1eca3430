----------------------- MODULE AutomationGate_proofs -----------------------
(***************************************************************************)
(* Proofs about the approval of Phase 1 and the Phase 2 run it opens the   *)
(* way to, for any runs, reports, analyses and histories of the target     *)
(* repository: Phase 2 starts on the bytes a person approved, findings     *)
(* included, and a run alone in its stage leaves its own contract, which   *)
(* its own validation never refuses while the repository stands still.     *)
(***************************************************************************)
EXTENDS AutomationGate, TLAPS

USE NoneAssumption

AllFields == GateFields \cup StageFields

-----------------------------------------------------------------------------
(* The groups in which files are read. *)

LEMMA LockedIs ==
  Locked = {"discovered-behavior", "requirements-analysis", "test-cases", "automation-prioritization", "defect-analysis"}
  <1>1. DOMAIN PHASE1_LOCKED = 1..5
    BY DEF PHASE1_LOCKED
  <1>2. \A i \in 1..5 : i = 1 \/ i = 2 \/ i = 3 \/ i = 4 \/ i = 5
    OBVIOUS
  <1>3. /\ PHASE1_LOCKED[1] = "discovered-behavior" /\ PHASE1_LOCKED[2] = "requirements-analysis"
        /\ PHASE1_LOCKED[3] = "test-cases" /\ PHASE1_LOCKED[4] = "automation-prioritization"
        /\ PHASE1_LOCKED[5] = "defect-analysis"
    BY DEF PHASE1_LOCKED
  <1>4. Locked = {PHASE1_LOCKED[i] : i \in 1..5}
    BY <1>1 DEF Locked, Range
  <1>5. QED
    BY <1>2, <1>3, <1>4

LEMMA NoneBehind ==
  ASSUME NEW order, NEW f
  PROVE  ~ Behind(order, 1, f)
  BY DEF Behind

LEMMA OneMoreBehind ==
  ASSUME NEW order, NEW f, NEW at \in {1, 2}, Behind(order, at + 1, f)
  PROVE  Behind(order, at, f) \/ f \in order[at]
  BY DEF Behind

LEMMA AllBehind ==
  ASSUME NEW f \in Files
  PROVE  Behind(InspectOrder, 3, f) /\ Behind(HashOrder, 3, f)
  <1>1. /\ f \in InspectOrder[1] \/ f \in InspectOrder[2]
        /\ f \in HashOrder[1] \/ f \in HashOrder[2]
    BY LockedIs DEF InspectOrder, HashOrder, Files
  <1>2. QED
    BY <1>1 DEF Behind

LEMMA ReadingOn ==
  ASSUME TypeOK, NEW order, NEW at \in {1, 2}, NEW found \in [Files -> Contents],
         \A f \in Files : Behind(order, at, f) => found[f] = disk[f]
  PROVE  /\ Reading(found, order, at) \in [Files -> Contents]
         /\ \A f \in Files : Behind(order, at + 1, f) => Reading(found, order, at)[f] = disk[f]
  BY OneMoreBehind DEF TypeOK, Reading

LEMMA HashingOn ==
  ASSUME TypeOK, NEW order, NEW at \in {1, 2}, NEW found \in [Files -> Nat],
         \A f \in Files : Behind(order, at, f) => found[f] = disk[f].v
  PROVE  /\ Hashing(found, order, at) \in [Files -> Nat]
         /\ \A f \in Files : Behind(order, at + 1, f) => Hashing(found, order, at)[f] = disk[f].v
  BY OneMoreBehind DEF TypeOK, Hashing, Contents

LEMMA AnyReading ==
  ASSUME TypeOK, NEW order, NEW at, NEW found \in [Files -> Contents], NEW hash \in [Files -> Nat]
  PROVE  Reading(found, order, at) \in [Files -> Contents] /\ Hashing(hash, order, at) \in [Files -> Nat]
  BY DEF TypeOK, Reading, Hashing, Contents

-----------------------------------------------------------------------------
(* Inspection and projection. *)

\* A result that is not refused is complete, and its findings are all that any of its files has.
LEMMA InspectionLooks ==
  ASSUME NEW d \in [Files -> Contents], NEW accept \in BOOLEAN, ~ Refuses(Inspection(d), accept)
  PROVE  /\ \A f \in Locked : d[f].is # "missing"
         /\ \A f \in Files : d[f].is = "findings" => accept /\ f \in Inspection(d).findings
  <1> DEFINE parsed == {f \in Locked : d[f].is \notin {"missing", "unreadable"}}
  <1> DEFINE looked == {f \in parsed : Upstream[f] \subseteq parsed}
  <1> DEFINE bugs == {b \in BugIds : "defect-analysis" \in looked /\ d[b].is # "missing"}
  <1> DEFINE found == Inspection(d)
  <1>1. /\ found.missing = {f \in Locked : d[f].is = "missing"}
        /\ found.invalid = {f \in Locked : d[f].is = "unreadable"} \cup {f \in looked : d[f].is = "hard"}
                             \cup {b \in bugs : d[b].is = "unreadable"}
        /\ found.findings = {f \in looked \cup bugs : d[f].is = "findings"}
    BY DEF Inspection
  <1>2. found.missing = {} /\ found.invalid = {} /\ (found.findings # {} => accept)
    BY DEF Refuses
  <1>3. parsed = Locked
    BY <1>1, <1>2
  <1>4. \A f \in Locked : Upstream[f] \subseteq Locked
    BY LockedIs DEF Upstream
  <1>5. looked = Locked
    BY <1>3, <1>4
  <1>6. "defect-analysis" \in Locked
    BY LockedIs
  <1>7. \A b \in BugIds : d[b].is = "findings" => b \in bugs
    BY <1>5, <1>6
  <1>8. \A f \in Files : d[f].is = "findings" => f \in found.findings
    BY <1>1, <1>5, <1>7 DEF Files
  <1>9. QED
    BY <1>1, <1>2, <1>8

LEMMA FindingsAre ==
  ASSUME NEW d \in [Files -> Contents]
  PROVE  \A f \in Inspection(d).findings : f \in Files /\ d[f].is = "findings"
  BY DEF Inspection, Files

\* buildAutomationContract keeps only what is there: what it returns validates by construction.
LEMMA ProjectionValidates ==
  ASSUME NEW a, NEW files, NEW scripts, NEW sha
  PROVE  ~ ContractProblems(Projection(a, files, scripts), files, scripts, sha, sha)
  <1> DEFINE kept == {i \in DOMAIN a.layout : a.layout[i].path \in files /\ a.layout[i].kind \notin {"other", "ci"}}
  <1> DEFINE first == {i \in kept : \A j \in kept : j < i => a.layout[j].kind # a.layout[i].kind}
  <1> DEFINE root == {a.layout[i].path : i \in {j \in first : a.layout[j].kind = "testDir"}}
  <1> DEFINE own == There(a.testDir, files)
  <1> DEFINE c == Projection(a, files, scripts)
  <1>1. /\ c.locations = {a.layout[i] : i \in first} /\ c.config = There(a.config, files) /\ c.testDir = own
        /\ c.testRoot = IF own # None \/ root = {} THEN own ELSE CHOOSE p \in root : TRUE
        /\ c.conventions = a.conventions \cap files /\ c.scripts = a.scripts \cap scripts
    BY DEF Projection
  <1>2. own \in files \cup {None} /\ c.config \in files \cup {None} /\ root \subseteq files
    BY <1>1 DEF There
  <1>3. c.testRoot \in files \cup {None}
    <2>1. CASE own # None \/ root = {}
      BY <1>1, <1>2, <2>1
    <2>2. CASE ~(own # None \/ root = {})
      <3>1. (CHOOSE p \in root : TRUE) \in root
        BY <2>2
      <3>2. QED
        BY <1>1, <1>2, <2>2, <3>1
    <2>3. QED
      BY <2>1, <2>2
  <1>4. \A e \in c.locations : e.path \in files
    BY <1>1
  <1>5. QED
    BY <1>1, <1>2, <1>3, <1>4 DEF ContractProblems

-----------------------------------------------------------------------------
(* What a step leaves of a run. *)

\* What the gate has read is as it was.
SameGate(r) ==
  /\ runs'[r].pc = runs[r].pc /\ runs'[r].at = runs[r].at /\ runs'[r].seen = runs[r].seen
  /\ runs'[r].automates = runs[r].automates /\ runs'[r].read = runs[r].read /\ runs'[r].hash = runs[r].hash

SameStage(r) ==
  /\ runs'[r].pc = runs[r].pc /\ runs'[r].kept = runs[r].kept /\ runs'[r].sha = runs[r].sha
  /\ runs'[r].scripts = runs[r].scripts /\ runs'[r].built = runs[r].built /\ runs'[r].outcome = runs[r].outcome

RunTyped(r) ==
  /\ DOMAIN runs[r] = AllFields
  /\ runs[r].pc \in GateSteps \cup StageSteps \cup {"idle", "done", "dead"} /\ runs[r].at \in 1..3
  /\ runs[r].seen \in [Files -> Contents] /\ runs[r].hash \in [Files -> Nat]
  /\ runs[r].raced \in BOOLEAN /\ runs[r].moved \in BOOLEAN /\ runs[r].overlapped \in BOOLEAN

LEMMA WaitingTyped ==
  /\ DOMAIN Waiting = AllFields
  /\ Waiting.pc = "idle" /\ Waiting.at = 1 /\ Waiting.seen \in [Files -> Contents]
        /\ Waiting.hash \in [Files -> Nat]
  /\ Waiting.raced = FALSE /\ Waiting.moved = FALSE /\ Waiting.overlapped = FALSE /\ Waiting.outcome = ""
  <1>1. Unread \in [Files -> Contents] /\ Unhashed \in [Files -> Nat]
    BY DEF Unread, Unhashed, Absent, Contents, Kinds
  <1>2. DOMAIN Waiting = AllFields
    BY DEF Waiting, AllFields, GateFields, StageFields
  <1>3. QED
    BY <1>1, <1>2 DEF Waiting

LEMMA RestingTyped == Resting \in Approver /\ Resting.pc = "idle" /\ Resting.raced = FALSE /\ Resting.at = 1
   /\ Resting.hash = Unhashed
  <1>1. Unread \in [Files -> Contents] /\ Unhashed \in [Files -> Nat]
    BY DEF Unread, Unhashed, Absent, Contents, Kinds
  <1>2. QED
    BY <1>1 DEF Resting, Approver

\* The files and the approval are as they were: a run that read them knows what it knew.
LEMMA GateKept ==
  ASSUME NEW r \in Phase2Runs, GateSees(r), SameGate(r), runs'[r].raced = runs[r].raced, UNCHANGED <<disk, approval>>
  PROVE  GateSees(r)'
  BY DEF GateSees, SameGate

\* Nobody was in the stage, or nothing happened there.
LEMMA StageKept ==
  ASSUME NEW r \in Phase2Runs, StageOwns(r), SameStage(r), runs'[r].moved = runs[r].moved,
         runs'[r].overlapped = runs[r].overlapped, UNCHANGED <<analysis, contract, archives, moves>>
  PROVE  StageOwns(r)'
  BY DEF StageOwns, SameStage, repo

\* Somebody writes: whoever looks is told.
LEMMA GateDisturbed ==
  ASSUME IInv, runs' = GateRaced(runs), UNCHANGED <<analysis, contract, archives, moves>>
  PROVE  /\ DOMAIN runs' = Phase2Runs
         /\ \A r \in Phase2Runs : RunTyped(r)' /\ GateSees(r)' /\ StageOwns(r)'
         /\ OverlapSeen'
  <1>1. DOMAIN runs' = Phase2Runs
    BY DEF GateRaced
  <1>2. ASSUME NEW r \in Phase2Runs
        PROVE  /\ RunTyped(r)' /\ SameGate(r) /\ SameStage(r)
               /\ runs'[r].moved = runs[r].moved /\ runs'[r].overlapped = runs[r].overlapped
               /\ InGate(r) => runs'[r].raced
    <2>1. DOMAIN runs[r] = AllFields /\ RunTyped(r)
      BY DEF IInv, TypeOK, RunTyped, AllFields
    <2>2. runs'[r] = [runs[r] EXCEPT !.raced = runs[r].raced \/ InGate(r)]
      BY DEF GateRaced
    <2> DEFINE yes == runs[r].raced \/ InGate(r)
    <2>3. yes \in BOOLEAN /\ (InGate(r) => yes)
      BY <2>1 DEF RunTyped, InGate
    <2>4. runs'[r] = [runs[r] EXCEPT !.raced = yes]
      BY <2>2
    <2> HIDE DEF yes
    <2>5. DOMAIN runs'[r] = AllFields /\ runs'[r].raced = yes
      BY <2>1, <2>4 DEF AllFields, GateFields
    <2>6. SameGate(r) /\ SameStage(r) /\ runs'[r].moved = runs[r].moved /\ runs'[r].overlapped = runs[r].overlapped
      BY <2>1, <2>4 DEF AllFields, GateFields, StageFields, SameGate, SameStage
    <2>7. QED
      BY <2>1, <2>3, <2>5, <2>6 DEF RunTyped, SameGate
  <1>3. ASSUME NEW r \in Phase2Runs PROVE GateSees(r)'
    <2>1. CASE InGate(r)
      BY <1>2, <2>1 DEF GateSees
    <2>2. CASE ~ InGate(r)
      BY <1>2, <2>2 DEF GateSees, InGate, GateSteps, SameGate
    <2>3. QED
      BY <2>1, <2>2
  <1>4. ASSUME NEW r \in Phase2Runs PROVE StageOwns(r)'
    BY <1>2, StageKept DEF IInv
  <1>5. OverlapSeen'
    BY <1>2 DEF IInv, OverlapSeen, InStage, SameStage
  <1>6. QED
    BY <1>1, <1>2, <1>3, <1>4, <1>5

-----------------------------------------------------------------------------
(* Files are written, the approval is archived. *)

Phase1Typed == phase1 \in [pc : {"idle", "archive", "stages"}, at : 1..6]

LEMMA WriteStep ==
  ASSUME IInv, disk' \in [Files -> Contents], version' \in Nat, version <= version', Phase1Typed',
         \A f \in Files : \/ disk'[f] = disk[f] \/ disk'[f] = Absent
                          \/ disk'[f].v = version + 1 /\ version' = version + 1 /\ disk'[f].is # "missing",
         Disturbed, unchangedStage, UNCHANGED approval
  PROVE  IInv'
  <1> USE DEF unchangedStage
  <1>1. approver \in Approver /\ approval \in {None, Torn} \cup Approvals /\ version \in Nat
    BY DEF IInv, TypeOK
  <1>2. /\ approver' \in Approver /\ approver'.hash = approver.hash /\ approver'.pc = approver.pc
        /\ approver.pc # "idle" => approver'.raced
    <2> DEFINE yes == approver.raced \/ approver.pc # "idle"
    <2>1. yes \in BOOLEAN /\ (approver.pc # "idle" => yes)
      BY <1>1 DEF Approver
    <2>2. approver' = [approver EXCEPT !.raced = yes]
      BY DEF Disturbed
    <2> HIDE DEF yes
    <2>3. QED
      BY <1>1, <2>1, <2>2 DEF Approver
  <1>3. /\ DOMAIN runs' = Phase2Runs
        /\ \A r \in Phase2Runs : RunTyped(r)' /\ GateSees(r)' /\ StageOwns(r)'
        /\ OverlapSeen'
    BY GateDisturbed DEF Disturbed
  <1>4. ApproverSees'
    BY <1>2 DEF ApproverSees
  <1>5. ASSUME NEW f \in Files
        PROVE  disk'[f].v <= version' /\ (disk'[f].v = 0 <=> disk'[f].is = "missing")
    BY <1>1, <1>5 DEF IInv, VersionsKnown, TypeOK, Contents, Absent
  <1>6. VersionsKnown'
    <2>1. \A f \in Files : approver'.hash[f] <= version'
      <3>1. \A f \in Files : approver.hash[f] \in Nat /\ approver.hash[f] <= version
        BY <1>1 DEF IInv, VersionsKnown, Approver
      <3>2. QED
        BY <1>1, <1>2, <3>1
    <2>2. approval' \notin {None, Torn} => \A f \in Files : approval'.hash[f] <= version'
      <3>1. approval \notin {None, Torn} => \A f \in Files : approval.hash[f] \in Nat /\ approval.hash[f] <= version
        BY <1>1 DEF IInv, VersionsKnown, Approvals
      <3>2. QED
        BY <1>1, <3>1
    <2>3. QED
      BY <1>5, <2>1, <2>2 DEF VersionsKnown
  <1>7. ApprovalRests'
    <2>1. SUFFICES ASSUME approval \notin {None, Torn}, ~ approval.raced, NEW f \in Files
                   PROVE  /\ f \in Locked => approval.hash[f] # 0
                          /\ disk'[f].v = approval.hash[f] /\ disk'[f].is = "findings" => approval.accept
                                /\ f \in approval.accepted
      BY DEF ApprovalRests
    <2>2. approval.hash[f] \in Nat /\ approval.hash[f] <= version
      BY <1>1, <2>1 DEF IInv, VersionsKnown, Approvals
    <2>3. /\ f \in Locked => approval.hash[f] # 0
          /\ disk[f].v = approval.hash[f] /\ disk[f].is = "findings" => approval.accept /\ f \in approval.accepted
      BY <2>1 DEF IInv, ApprovalRests
    <2>4. disk'[f] = Absent => disk'[f].is # "findings"
      BY DEF Absent
    <2>5. disk'[f].v = version + 1 => disk'[f].v # approval.hash[f]
      BY <1>1, <2>2
    <2>6. QED
      BY <2>3, <2>4, <2>5
  <1>8. ContractSourced'
    BY DEF IInv, ContractSourced
  <1>9. TypeOK'
    BY <1>2, <1>3 DEF IInv, TypeOK, RunTyped, AllFields, Phase1Typed
  <1>10. QED
    BY <1>3, <1>4, <1>6, <1>7, <1>8, <1>9 DEF IInv

LEMMA AbsentTyped == Absent \in Contents
  BY DEF Absent, Contents, Kinds

LEMMA WriteFileStep ==
  ASSUME IInv, NEW f \in Files, WriteFile(f)
  PROVE  IInv'
  <1>1. disk \in [Files -> Contents] /\ version \in Nat /\ Phase1Typed
    BY DEF IInv, TypeOK, Phase1Typed
  <1>2. PICK is \in Judgements[f] :
           disk' = [disk EXCEPT ![f] = IF is = "missing" THEN Absent ELSE [v |-> version + 1, is |-> is]]
    BY DEF WriteFile
  <1>3. is \in Kinds
    BY <1>2, JudgementAssumption DEF Kinds
  <1> DEFINE new == IF is = "missing" THEN Absent ELSE [v |-> version + 1, is |-> is]
  <1>4. new \in Contents /\ (new = Absent \/ (new.v = version + 1 /\ new.is # "missing"))
    BY <1>1, <1>3, AbsentTyped DEF Contents
  <1> HIDE DEF new
  <1>5. disk' = [disk EXCEPT ![f] = new]
    BY <1>2 DEF new
  <1>6. version' = version + 1 /\ Disturbed /\ unchangedStage /\ UNCHANGED <<approval, phase1>>
    BY DEF WriteFile
  <1>7. QED
    BY <1>1, <1>4, <1>5, <1>6, WriteStep DEF Phase1Typed

LEMMA Phase1ArchivesStep ==
  ASSUME IInv, NEW from \in FromStages, Phase1Archives(from)
  PROVE  IInv'
  <1>1. disk \in [Files -> Contents] /\ version \in Nat
    BY DEF IInv, TypeOK
  <1>2. disk' \in [Files -> Contents] /\ \A f \in Files : disk'[f] = disk[f] \/ disk'[f] = Absent
    BY <1>1, AbsentTyped DEF Phase1Archives
  <1>3. from \in 1..6
    BY BoundAssumption
  <1>4. Phase1Typed'
    BY <1>3 DEF Phase1Archives, Phase1Typed
  <1>5. version' = version /\ Disturbed /\ unchangedStage /\ UNCHANGED approval
    BY DEF Phase1Archives
  <1>6. QED
    BY <1>1, <1>2, <1>4, <1>5, WriteStep

LEMMA Phase1StageStep ==
  ASSUME IInv, Phase1Stage
  PROVE  IInv'
  <1>1. disk \in [Files -> Contents] /\ version \in Nat
           /\ phase1 \in [pc : {"idle", "archive", "stages"}, at : 1..6]
    BY DEF IInv, TypeOK
  <1>2. PICK is \in {"clean", "manualOnly"}, bugs \in SUBSET BugIds :
           disk' = [f \in Files |-> CASE f = PHASE1_LOCKED[phase1.at] -> [v |-> version + 1, is |-> is]
                                      [] f \in bugs -> [v |-> version + 1, is |-> "clean"]
                                      [] OTHER -> disk[f]]
    BY DEF Phase1Stage
  <1>3. ASSUME NEW f \in Files
        PROVE  disk'[f] \in Contents /\ (disk'[f] = disk[f] \/ (disk'[f].v = version + 1
                  /\ disk'[f].is # "missing"))
    BY <1>1, <1>2 DEF Contents, Kinds
  <1>4. disk' \in [Files -> Contents]
    BY <1>2, <1>3
  <1>5. version' = version + 1 /\ Disturbed /\ unchangedStage /\ UNCHANGED approval
    BY DEF Phase1Stage
  <1>6. phase1.at <= 5 /\ phase1' = [phase1 EXCEPT !.at = phase1.at + 1]
    BY DEF Phase1Stage
  <1>7. phase1.at + 1 \in 1..6
    BY <1>1, <1>6
  <1>8. Phase1Typed'
    BY <1>1, <1>6, <1>7 DEF Phase1Typed
  <1>9. QED
    BY <1>1, <1>3, <1>4, <1>5, <1>8, WriteStep

\* The approval is replaced.
LEMMA ApprovalStep ==
  ASSUME IInv, UNCHANGED <<disk, version>>, unchangedStage, runs' = GateRaced(runs), Phase1Typed',
         approver' \in Approver, approver' = approver \/ approver' = Resting,
         approval' \in {None, Torn} \cup Approvals,
         approval' \notin {None, Torn} => \A f \in Files : approval'.hash[f] <= version,
         ApprovalRests'
  PROVE  IInv'
  <1> USE DEF unchangedStage
  <1>1. /\ DOMAIN runs' = Phase2Runs
        /\ \A r \in Phase2Runs : RunTyped(r)' /\ GateSees(r)' /\ StageOwns(r)'
        /\ OverlapSeen'
    BY GateDisturbed
  <1>2. ApproverSees' /\ \A f \in Files : approver'.hash[f] <= version
    <2>1. CASE approver' = approver
      BY <2>1 DEF IInv, ApproverSees, VersionsKnown
    <2>2. CASE approver' = Resting
      BY <2>2, RestingTyped DEF ApproverSees, Unhashed, IInv, TypeOK
    <2>3. QED
      BY <2>1, <2>2
  <1>3. VersionsKnown'
    BY <1>2 DEF IInv, VersionsKnown
  <1>4. ContractSourced'
    BY DEF IInv, ContractSourced
  <1>5. TypeOK'
    BY <1>1 DEF IInv, TypeOK, RunTyped, AllFields, Phase1Typed
  <1>6. QED
    BY <1>1, <1>2, <1>3, <1>4, <1>5 DEF IInv

LEMMA Phase1ArchivesApprovalStep ==
  ASSUME IInv, Phase1ArchivesApproval
  PROVE  IInv'
  <1>1. approver \in Approver /\ Phase1Typed'
    BY DEF IInv, TypeOK, Phase1ArchivesApproval, Phase1Typed
  <1>2. ApprovalRests'
    BY DEF Phase1ArchivesApproval, ApprovalRests
  <1>3. QED
    BY <1>1, <1>2, ApprovalStep DEF Phase1ArchivesApproval

LEMMA ApproveWritesStep ==
  ASSUME IInv, ApproveWrites
  PROVE  IInv'
  <1>1. approver \in Approver /\ disk \in [Files -> Contents] /\ Phase1Typed
    BY DEF IInv, TypeOK, Phase1Typed
  <1>2. /\ approver.pc = "hash" /\ approver.at = 3 /\ approver' = Resting /\ runs' = GateRaced(runs)
        /\ UNCHANGED <<disk, version, phase1>> /\ unchangedStage
    BY DEF ApproveWrites, unchangedApprove
  <1> DEFINE accept == approver.accept /\ approver.accepted # {}
  <1>3. approval' = [hash |-> approver.hash, accepted |-> approver.accepted, accept |-> accept, raced |-> approver.raced]
    BY DEF ApproveWrites
  <1>4. accept \in BOOLEAN /\ (accept <=> approver.accept /\ approver.accepted # {})
    BY <1>1 DEF Approver
  <1> HIDE DEF accept
  <1>5. /\ approval' \in Approvals /\ approval'.hash = approver.hash /\ approval'.accepted = approver.accepted
        /\ approval'.accept = accept /\ approval'.raced = approver.raced
    BY <1>1, <1>3, <1>4 DEF Approver, Approvals
  <1>6. \A f \in Files : approval'.hash[f] <= version
    BY <1>5 DEF IInv, VersionsKnown
  <1>7. ApprovalRests'
    <2>1. SUFFICES ASSUME ~ approver.raced, NEW f \in Files
                   PROVE  /\ f \in Locked => approver.hash[f] # 0
                          /\ disk[f].v = approver.hash[f] /\ disk[f].is = "findings" => accept
                                /\ f \in approver.accepted
      BY <1>2, <1>5 DEF ApprovalRests
    <2>2. /\ approver.accepted = Inspection(disk).findings /\ ~ Refuses(Inspection(disk), approver.accept)
          /\ approver.hash[f] = disk[f].v
      BY <1>2, <2>1, AllBehind DEF IInv, ApproverSees
    <2>3. approver.accept \in BOOLEAN
      BY <1>1 DEF Approver
    <2>4. /\ f \in Locked => disk[f].is # "missing"
          /\ disk[f].is = "findings" => approver.accept /\ f \in approver.accepted
      BY <1>1, <2>2, <2>3, InspectionLooks
    <2>5. disk[f].v = 0 => disk[f].is = "missing"
      BY DEF IInv, VersionsKnown
    <2>6. QED
      BY <1>4, <2>2, <2>4, <2>5
  <1>8. Phase1Typed'
    BY <1>1, <1>2 DEF Phase1Typed
  <1>9. QED
    BY <1>2, <1>5, <1>6, <1>7, <1>8, RestingTyped, ApprovalStep

LEMMA ApproveDiesStep ==
  ASSUME IInv, ApproveDies
  PROVE  IInv'
  <1>1. /\ approver' = Resting /\ UNCHANGED <<disk, version, phase1>> /\ unchangedStage
        /\ approval' \in {approval, Torn}
        /\ runs' = IF approval' = approval THEN runs ELSE GateRaced(runs)
    BY DEF ApproveDies, unchangedApprove
  <1>2. Phase1Typed /\ Phase1Typed'
    BY <1>1 DEF IInv, TypeOK, Phase1Typed
  <1>3. CASE approval' = approval
    <2>1. UNCHANGED runs
      BY <1>1, <1>3
    <2>2. \A r \in Phase2Runs : GateSees(r)' /\ StageOwns(r)'
      BY <1>1, <1>3, <2>1, GateKept, StageKept DEF IInv, SameGate, SameStage, unchangedStage
    <2>3. TypeOK' /\ VersionsKnown' /\ ApproverSees' /\ ApprovalRests'
      BY <1>1, <1>3, <2>1, RestingTyped
         DEF IInv, TypeOK, VersionsKnown, ApproverSees, ApprovalRests, unchangedStage, Unhashed
    <2>4. OverlapSeen' /\ ContractSourced'
      BY <1>1, <2>1 DEF IInv, OverlapSeen, ContractSourced, InStage, unchangedStage
    <2>5. QED
      BY <2>2, <2>3, <2>4 DEF IInv
  <1>4. CASE approval' # approval
    <2>1. approval' = Torn /\ runs' = GateRaced(runs)
      BY <1>1, <1>4
    <2>2. ApprovalRests'
      BY <2>1 DEF ApprovalRests
    <2>3. QED
      BY <1>1, <1>2, <2>1, <2>2, RestingTyped, ApprovalStep
  <1>5. QED
    BY <1>3, <1>4

\* Only the approving process moves.
LEMMA ApproverStep ==
  ASSUME IInv, UNCHANGED <<disk, version, phase1, approval, runs>>, unchangedStage, approver' \in Approver,
         \A f \in Files : approver'.hash[f] <= version, ApproverSees'
  PROVE  IInv'
  <1> USE DEF unchangedStage
  <1>1. \A r \in Phase2Runs : GateSees(r)' /\ StageOwns(r)'
    BY GateKept, StageKept DEF IInv, SameGate, SameStage
  <1>2. TypeOK' /\ VersionsKnown' /\ ApprovalRests'
    BY DEF IInv, TypeOK, VersionsKnown, ApprovalRests
  <1>3. OverlapSeen' /\ ContractSourced'
    BY DEF IInv, OverlapSeen, ContractSourced, InStage
  <1>4. QED
    BY <1>1, <1>2, <1>3 DEF IInv

LEMMA ApproveStartsStep ==
  ASSUME IInv, NEW accept \in BOOLEAN, ApproveStarts(accept)
  PROVE  IInv'
  <1>1. approver' = [Resting EXCEPT !.pc = "inspect", !.accept = accept]
    BY DEF ApproveStarts
  <1>2. /\ approver' \in Approver /\ approver'.pc = "inspect" /\ approver'.at = 1
        /\ approver'.hash = Unhashed
    BY <1>1, RestingTyped DEF Approver
  <1>3. ApproverSees'
    BY <1>2, NoneBehind DEF ApproverSees
  <1>4. \A f \in Files : approver'.hash[f] <= version
    BY <1>2 DEF Unhashed, IInv, TypeOK
  <1>5. QED
    BY <1>2, <1>3, <1>4, ApproverStep DEF ApproveStarts, unchangedApprove

LEMMA ApproveReadsStep ==
  ASSUME IInv, ApproveReads
  PROVE  IInv'
  <1>1. approver \in Approver /\ TypeOK
    BY DEF IInv, TypeOK
  <1>2. approver.pc = "inspect" /\ approver.at \in {1, 2}
    BY <1>1 DEF ApproveReads, Approver
  <1> DEFINE seen == Reading(approver.seen, InspectOrder, approver.at)
  <1> DEFINE at == approver.at + 1
  <1>3. approver' = [approver EXCEPT !.at = at, !.seen = seen]
    BY DEF ApproveReads
  <1>4. approver.seen \in [Files -> Contents] /\ approver.hash \in [Files -> Nat]
    BY <1>1 DEF Approver
  <1>5. seen \in [Files -> Contents] /\ at \in 1..3
    <2>1. seen \in [Files -> Contents]
      BY <1>1, <1>4, AnyReading
    <2>2. at \in 1..3
      BY <1>2
    <2>3. QED
      BY <2>1, <2>2
  <1>6. ~ approver.raced => \A f \in Files : Behind(InspectOrder, at, f) => seen[f] = disk[f]
    <2>1. SUFFICES ASSUME ~ approver.raced
                   PROVE  \A f \in Files : Behind(InspectOrder, at, f) => seen[f] = disk[f]
      OBVIOUS
    <2>2. \A f \in Files : Behind(InspectOrder, approver.at, f) => approver.seen[f] = disk[f]
      BY <1>2, <2>1 DEF IInv, ApproverSees
    <2>3. QED
      BY <1>1, <1>2, <1>4, <2>2, ReadingOn
  <1> HIDE DEF seen, at
  <1>7. /\ approver' \in Approver /\ approver'.pc = "inspect" /\ approver'.at = at /\ approver'.seen = seen
        /\ approver'.raced = approver.raced /\ approver'.hash = approver.hash
    BY <1>1, <1>2, <1>3, <1>5 DEF Approver
  <1>8. UNCHANGED <<disk, version, phase1, approval, runs>> /\ unchangedStage
    BY DEF ApproveReads, unchangedApprove
  <1>9. ApproverSees'
    BY <1>6, <1>7, <1>8 DEF ApproverSees
  <1>10. \A f \in Files : approver'.hash[f] <= version
    BY <1>7 DEF IInv, VersionsKnown
  <1>11. QED
    BY <1>7, <1>8, <1>9, <1>10, ApproverStep

LEMMA AllRead ==
  ASSUME NEW found \in [Files -> Contents], disk \in [Files -> Contents],
         \A f \in Files : Behind(InspectOrder, 3, f) => found[f] = disk[f]
  PROVE  found = disk
  BY AllBehind

LEMMA ApproveJudgesStep ==
  ASSUME IInv, ApproveJudges
  PROVE  IInv'
  <1>1. approver \in Approver /\ disk \in [Files -> Contents] /\ version \in Nat
    BY DEF IInv, TypeOK
  <1>2. approver.pc = "inspect" /\ approver.at = 3 /\ UNCHANGED <<disk, version, phase1, approval, runs>>
           /\ unchangedStage
    BY DEF ApproveJudges, unchangedApprove
  <1> DEFINE found == Inspection(approver.seen)
  <1>3. CASE Refuses(found, approver.accept)
    <2>1. approver' = Resting
      BY <1>3 DEF ApproveJudges
    <2>2. ApproverSees' /\ \A f \in Files : approver'.hash[f] <= version
      BY <1>1, <2>1, RestingTyped DEF ApproverSees, Unhashed
    <2>3. QED
      BY <1>2, <2>1, <2>2, RestingTyped, ApproverStep
  <1>4. CASE ~ Refuses(found, approver.accept)
    <2>1. approver' = [approver EXCEPT !.pc = "hash", !.at = 1, !.accepted = found.findings, !.seen = Unread]
      BY <1>4 DEF ApproveJudges
    <2>2. found.findings \subseteq Files
      BY <1>1, FindingsAre DEF Approver
    <2>3. Unread \in [Files -> Contents]
      BY AbsentTyped DEF Unread
    <2>4. ~ approver.raced => approver.seen = disk
      BY <1>1, <1>2, AllRead DEF IInv, ApproverSees, Approver
    <2> DEFINE found2 == found.findings
    <2>5. ~ approver.raced => found2 = Inspection(disk).findings /\ ~ Refuses(Inspection(disk), approver.accept)
      BY <1>4, <2>4
    <2>6. PICK q \in 1..3 : q = 1
      OBVIOUS
    <2>7. found2 \in SUBSET Files
             /\ approver' = [approver EXCEPT !.pc = "hash", !.at = q, !.accepted = found2, !.seen = Unread]
      BY <2>1, <2>2, <2>6
    <2> HIDE DEF found2
    <2>8. approver' \in Approver
      BY <1>1, <2>3, <2>6, <2>7 DEF Approver
    <2>9. /\ approver'.pc = "hash" /\ approver'.at = q /\ approver'.accepted = found2
          /\ approver'.raced = approver.raced /\ approver'.hash = approver.hash
                /\ approver'.accept = approver.accept
      BY <1>1, <2>7 DEF Approver
    <2>10. ApproverSees'
      BY <1>2, <2>5, <2>6, <2>9, NoneBehind DEF ApproverSees
    <2>11. \A f \in Files : approver'.hash[f] <= version
      BY <2>9 DEF IInv, VersionsKnown
    <2>12. QED
      BY <1>2, <2>8, <2>10, <2>11, ApproverStep
  <1>5. QED
    BY <1>3, <1>4

LEMMA ApproveHashesStep ==
  ASSUME IInv, ApproveHashes
  PROVE  IInv'
  <1>1. approver \in Approver /\ TypeOK /\ disk \in [Files -> Contents]
    BY DEF IInv, TypeOK
  <1>2. approver.pc = "hash" /\ approver.at \in {1, 2}
    BY <1>1 DEF ApproveHashes, Approver
  <1> DEFINE hash == Hashing(approver.hash, HashOrder, approver.at)
  <1> DEFINE at == approver.at + 1
  <1>3. approver' = [approver EXCEPT !.at = at, !.hash = hash]
    BY DEF ApproveHashes
  <1>4. approver.hash \in [Files -> Nat] /\ approver.seen \in [Files -> Contents]
    BY <1>1 DEF Approver
  <1>5. hash \in [Files -> Nat] /\ at \in 1..3
    <2>1. hash \in [Files -> Nat]
      BY <1>1, <1>4, AnyReading
    <2>2. at \in 1..3
      BY <1>2
    <2>3. QED
      BY <2>1, <2>2
  <1>6. \A f \in Files : hash[f] <= version
    BY <1>4 DEF Hashing, IInv, VersionsKnown
  <1>7. ~ approver.raced => \A f \in Files : Behind(HashOrder, at, f) => hash[f] = disk[f].v
    <2>1. SUFFICES ASSUME ~ approver.raced
                   PROVE  \A f \in Files : Behind(HashOrder, at, f) => hash[f] = disk[f].v
      OBVIOUS
    <2>2. \A f \in Files : Behind(HashOrder, approver.at, f) => approver.hash[f] = disk[f].v
      BY <1>2, <2>1 DEF IInv, ApproverSees
    <2>3. \A f \in Files : Behind(HashOrder, approver.at + 1, f) => Hashing(approver.hash, HashOrder, approver.at)[f] = disk[f].v
      BY <1>2, <1>4, <2>2, OneMoreBehind DEF Hashing
    <2>4. QED
      BY <2>3
  <1> HIDE DEF hash, at
  <1>8. /\ approver' \in Approver /\ approver'.pc = "hash" /\ approver'.at = at /\ approver'.hash = hash
        /\ approver'.raced = approver.raced /\ approver'.accepted = approver.accepted
              /\ approver'.accept = approver.accept
    BY <1>1, <1>2, <1>3, <1>5 DEF Approver
  <1>9. UNCHANGED <<disk, version, phase1, approval, runs>> /\ unchangedStage
    BY DEF ApproveHashes, unchangedApprove
  <1>10. ApproverSees'
    BY <1>2, <1>7, <1>8, <1>9 DEF ApproverSees, IInv
  <1>11. \A f \in Files : approver'.hash[f] <= version
    BY <1>6, <1>8
  <1>12. QED
    BY <1>8, <1>9, <1>10, <1>11, ApproverStep

LEMMA Phase1EndsStep ==
  ASSUME IInv, Phase1Ends
  PROVE  IInv'
  <1>1. Phase1Typed'
    BY DEF Phase1Ends, Phase1Typed
  <1>2. UNCHANGED <<disk, version, approval, approver, runs>> /\ unchangedStage
    BY DEF Phase1Ends
  <1>3. \A r \in Phase2Runs : GateSees(r)' /\ StageOwns(r)'
    BY <1>2, GateKept, StageKept DEF IInv, SameGate, SameStage, unchangedStage
  <1>4. TypeOK' /\ VersionsKnown' /\ ApprovalRests' /\ ApproverSees'
    BY <1>1, <1>2 DEF IInv, TypeOK, VersionsKnown, ApprovalRests, ApproverSees, unchangedStage, Phase1Typed
  <1>5. OverlapSeen' /\ ContractSourced'
    BY <1>2 DEF IInv, OverlapSeen, ContractSourced, InStage, unchangedStage
  <1>6. QED
    BY <1>3, <1>4, <1>5 DEF IInv

-----------------------------------------------------------------------------
(* The entry gate: only the run itself moves. *)

LEMMA OneRun ==
  ASSUME IInv, NEW r \in Phase2Runs, NEW run, SetRun(r, run)
  PROVE  /\ DOMAIN runs' = Phase2Runs /\ runs'[r] = run
         /\ \A q \in Phase2Runs : q # r => runs'[q] = runs[q]
  BY DEF IInv, TypeOK, SetRun

LEMMA TypedRuns ==
  ASSUME IInv, NEW r \in Phase2Runs
  PROVE  RunTyped(r)
  BY DEF IInv, TypeOK, RunTyped, AllFields

LEMMA TypedWaiting ==
  /\ DOMAIN Waiting = AllFields /\ Waiting.pc = "idle" /\ Waiting.at \in 1..3
  /\ Waiting.seen \in [Files -> Contents] /\ Waiting.hash \in [Files -> Nat]
  /\ Waiting.raced \in BOOLEAN /\ Waiting.moved \in BOOLEAN /\ Waiting.overlapped \in BOOLEAN
  <1>1. 1 \in 1..3 /\ FALSE \in BOOLEAN
    OBVIOUS
  <1>2. Waiting.raced \in BOOLEAN /\ Waiting.moved \in BOOLEAN /\ Waiting.overlapped \in BOOLEAN
    <2>1. Waiting.raced = FALSE /\ Waiting.moved = FALSE /\ Waiting.overlapped = FALSE
      BY WaitingTyped
    <2>2. QED
      BY <2>1
  <1>3. Waiting.at \in 1..3
    BY <1>1, WaitingTyped
  <1>4. QED
    BY <1>2, <1>3, WaitingTyped

LEMMA GateStep ==
  ASSUME IInv, NEW r \in Phase2Runs, NEW run, SetRun(r, run), unchangedGate, RunTyped(r)', GateSees(r)',
         runs[r].pc \notin StageSteps \cup {"done"}, run.pc \notin StageSteps,
         run.outcome = "" \/ (run.outcome = runs[r].outcome /\ run.moved = runs[r].moved
            /\ run.overlapped = runs[r].overlapped)
  PROVE  IInv'
  <1> USE DEF unchangedGate, unchangedPhase1, unchangedStage
  <1>1. /\ DOMAIN runs' = Phase2Runs /\ runs'[r] = run
        /\ \A q \in Phase2Runs : q # r => runs'[q] = runs[q]
    BY OneRun
  <1>2. ASSUME NEW q \in Phase2Runs, q # r
        PROVE  RunTyped(q)' /\ GateSees(q)' /\ StageOwns(q)'
    <2>1. runs'[q] = runs[q]
      BY <1>1, <1>2
    <2>2. RunTyped(q)'
      BY <2>1, TypedRuns DEF RunTyped
    <2>3. GateSees(q)' /\ StageOwns(q)'
      BY <2>1, GateKept, StageKept DEF IInv, SameGate, SameStage
    <2>4. QED
      BY <2>2, <2>3
  <1>3. StageOwns(r)'
    <2>1. archives[r] = None
      BY DEF IInv, StageOwns
    <2>2. ~ run.overlapped => (run.outcome = "no contract" => run.moved)
      BY DEF IInv, StageOwns
    <2>3. QED
      BY <1>1, <2>1, <2>2 DEF StageOwns, StageSteps
  <1>4. OverlapSeen'
    BY <1>1 DEF IInv, OverlapSeen, InStage
  <1>5. ContractSourced' /\ VersionsKnown' /\ ApproverSees' /\ ApprovalRests'
    BY DEF IInv, ContractSourced, VersionsKnown, ApproverSees, ApprovalRests
  <1>6. TypeOK'
    BY <1>1, <1>2 DEF IInv, TypeOK, RunTyped, AllFields
  <1>7. QED
    BY <1>2, <1>3, <1>4, <1>5, <1>6 DEF IInv

\* A run that is turned away knows nothing.
LEMMA GateCloses ==
  ASSUME IInv, NEW r \in Phase2Runs, SetRun(r, Waiting), unchangedGate, runs[r].pc \in GateSteps
  PROVE  IInv'
  <1>1. runs'[r] = Waiting
    BY OneRun
  <1>2. RunTyped(r)'
    BY <1>1, TypedWaiting DEF RunTyped
  <1>3. GateSees(r)'
    BY <1>1, WaitingTyped DEF GateSees
  <1>4. runs[r].pc \notin StageSteps \cup {"done"}
    BY DEF GateSteps, StageSteps
  <1>5. QED
    BY <1>2, <1>3, <1>4, WaitingTyped, GateStep DEF StageSteps

LEMMA GateStartsStep ==
  ASSUME IInv, NEW r \in Phase2Runs, GateStarts(r)
  PROVE  IInv'
  <1> DEFINE run == [Waiting EXCEPT !.pc = "inspect"]
  <1>1. SetRun(r, run) /\ unchangedGate /\ runs[r].pc = "idle"
    BY DEF GateStarts
  <1>2. /\ DOMAIN run = AllFields /\ run.pc = "inspect" /\ run.at = Waiting.at /\ run.seen = Waiting.seen
              /\ run.hash = Waiting.hash
        /\ run.raced = Waiting.raced /\ run.moved = Waiting.moved /\ run.overlapped = Waiting.overlapped
              /\ run.outcome = ""
    BY WaitingTyped DEF AllFields, GateFields, StageFields
  <1> HIDE DEF run
  <1>3. runs'[r] = run
    BY <1>1, OneRun
  <1>4. RunTyped(r)'
    BY <1>2, <1>3, TypedWaiting DEF RunTyped, GateSteps
  <1>5. GateSees(r)'
    BY <1>2, <1>3, WaitingTyped, NoneBehind DEF GateSees
  <1>6. QED
    BY <1>1, <1>2, <1>4, <1>5, GateStep DEF StageSteps

LEMMA GateReadsStep ==
  ASSUME IInv, NEW r \in Phase2Runs, GateReads(r)
  PROVE  IInv'
  <1>1. RunTyped(r) /\ GateSees(r) /\ TypeOK
    BY TypedRuns DEF IInv
  <1>2. runs[r].pc = "inspect" /\ runs[r].at \in {1, 2} /\ unchangedGate
    BY <1>1 DEF GateReads, RunTyped
  <1> DEFINE seen == Reading(runs[r].seen, InspectOrder, runs[r].at)
  <1> DEFINE at == runs[r].at + 1
  <1> DEFINE run == [runs[r] EXCEPT !.at = at, !.seen = seen]
  <1>3. SetRun(r, run)
    BY DEF GateReads
  <1>4. runs[r].seen \in [Files -> Contents] /\ runs[r].hash \in [Files -> Nat]
    BY <1>1 DEF RunTyped
  <1>5. seen \in [Files -> Contents]
    BY <1>1, <1>4, AnyReading
  <1>6. at \in 1..3
    BY <1>2
  <1>7. ~ runs[r].raced => \A f \in Files : Behind(InspectOrder, at, f) => seen[f] = disk[f]
    <2>1. SUFFICES ASSUME ~ runs[r].raced
                   PROVE  \A f \in Files : Behind(InspectOrder, at, f) => seen[f] = disk[f]
      OBVIOUS
    <2>2. \A f \in Files : Behind(InspectOrder, runs[r].at, f) => runs[r].seen[f] = disk[f]
      BY <1>1, <1>2, <2>1 DEF GateSees
    <2>3. QED
      BY <1>2, <1>4, <2>2, OneMoreBehind DEF Reading
  <1> HIDE DEF seen, at
  <1>8. /\ DOMAIN run = AllFields /\ run.pc = "inspect" /\ run.at = at /\ run.seen = seen /\ run.hash = runs[r].hash
        /\ run.raced = runs[r].raced /\ run.moved = runs[r].moved /\ run.overlapped = runs[r].overlapped
        /\ run.outcome = runs[r].outcome
    BY <1>1, <1>2 DEF RunTyped, AllFields, GateFields, StageFields
  <1> HIDE DEF run
  <1>9. runs'[r] = run
    BY <1>3, OneRun
  <1>10. RunTyped(r)'
    BY <1>1, <1>5, <1>6, <1>8, <1>9 DEF RunTyped, GateSteps
  <1>11. GateSees(r)'
    BY <1>2, <1>7, <1>8, <1>9 DEF GateSees, unchangedGate, unchangedPhase1
  <1>12. QED
    BY <1>2, <1>3, <1>8, <1>10, <1>11, GateStep DEF StageSteps

LEMMA GateJudgesStep ==
  ASSUME IInv, NEW r \in Phase2Runs, GateJudges(r)
  PROVE  IInv'
  <1>1. RunTyped(r) /\ GateSees(r) /\ disk \in [Files -> Contents]
    BY TypedRuns DEF IInv, TypeOK
  <1>2. runs[r].pc = "inspect" /\ runs[r].at = 3 /\ unchangedGate
    BY DEF GateJudges
  <1> DEFINE found == Inspection(runs[r].seen)
  <1>3. CASE ~ LetsIn(found)
    <2>1. SetRun(r, Waiting)
      BY <1>3 DEF GateJudges
    <2>2. QED
      BY <1>2, <2>1, GateCloses DEF GateSteps
  <1>4. CASE LetsIn(found)
    <2> DEFINE automates == found.automates
    <2> DEFINE raced == runs[r].raced
    <2> DEFINE run == [Waiting EXCEPT !.pc = "approval", !.automates = automates, !.raced = raced]
    <2>1. SetRun(r, run)
      BY <1>4 DEF GateJudges
    <2>2. ~ raced => LetsIn(Inspection(disk)) /\ automates = Inspection(disk).automates
      <3>1. SUFFICES ASSUME ~ raced PROVE LetsIn(Inspection(disk)) /\ automates = Inspection(disk).automates
        OBVIOUS
      <3>2. runs[r].seen \in [Files -> Contents]
        BY <1>1 DEF RunTyped
      <3>3. runs[r].seen = disk
        BY <1>1, <1>2, <3>1, <3>2, AllRead DEF GateSees
      <3>4. QED
        BY <1>4, <3>3
    <2>3. raced \in BOOLEAN
      BY <1>1 DEF RunTyped
    <2> HIDE DEF automates, raced
    <2>4. /\ DOMAIN run = AllFields /\ run.pc = "approval" /\ run.at = Waiting.at /\ run.seen = Waiting.seen
                /\ run.hash = Waiting.hash
          /\ run.raced = raced /\ run.automates = automates /\ run.moved = Waiting.moved
                /\ run.overlapped = Waiting.overlapped /\ run.outcome = ""
      BY WaitingTyped DEF AllFields, GateFields, StageFields
    <2> HIDE DEF run
    <2>5. runs'[r] = run
      BY <2>1, OneRun
    <2>6. RunTyped(r)'
      BY <2>3, <2>4, <2>5, TypedWaiting DEF RunTyped, GateSteps
    <2>7. GateSees(r)'
      BY <1>2, <2>2, <2>4, <2>5, WaitingTyped DEF GateSees, unchangedGate, unchangedPhase1
    <2>8. QED
      BY <1>2, <2>1, <2>4, <2>6, <2>7, GateStep DEF StageSteps
  <1>5. QED
    BY <1>3, <1>4

LEMMA GateReadsApprovalStep ==
  ASSUME IInv, NEW r \in Phase2Runs, GateReadsApproval(r)
  PROVE  IInv'
  <1>1. RunTyped(r) /\ GateSees(r)
    BY TypedRuns DEF IInv
  <1>2. runs[r].pc = "approval" /\ unchangedGate
    BY DEF GateReadsApproval
  <1>3. CASE approval \in {None, Torn}
    <2>1. SetRun(r, Waiting)
      BY <1>3 DEF GateReadsApproval
    <2>2. QED
      BY <1>2, <2>1, GateCloses DEF GateSteps
  <1>4. CASE approval \notin {None, Torn}
    <2> DEFINE run == [runs[r] EXCEPT !.pc = "compare", !.read = approval]
    <2>1. SetRun(r, run)
      BY <1>4 DEF GateReadsApproval
    <2>2. /\ DOMAIN run = AllFields /\ run.pc = "compare" /\ run.at = runs[r].at /\ run.seen = runs[r].seen
          /\ run.hash = runs[r].hash /\ run.raced = runs[r].raced /\ run.automates = runs[r].automates
                /\ run.read = approval
          /\ run.moved = runs[r].moved /\ run.overlapped = runs[r].overlapped /\ run.outcome = runs[r].outcome
      BY <1>1 DEF RunTyped, AllFields, GateFields, StageFields
    <2> HIDE DEF run
    <2>3. runs'[r] = run
      BY <2>1, OneRun
    <2>4. RunTyped(r)'
      BY <1>1, <2>2, <2>3 DEF RunTyped, GateSteps
    <2>5. GateSees(r)'
      BY <1>1, <1>2, <1>4, <2>2, <2>3, NoneBehind DEF GateSees, unchangedGate, unchangedPhase1
    <2>6. QED
      BY <1>2, <2>1, <2>2, <2>4, <2>5, GateStep DEF StageSteps
  <1>5. QED
    BY <1>3, <1>4

LEMMA GateHashesStep ==
  ASSUME IInv, NEW r \in Phase2Runs, GateHashes(r)
  PROVE  IInv'
  <1>1. RunTyped(r) /\ GateSees(r) /\ TypeOK
    BY TypedRuns DEF IInv
  <1>2. runs[r].pc = "compare" /\ runs[r].at \in {1, 2} /\ unchangedGate
    BY <1>1 DEF GateHashes, RunTyped
  <1> DEFINE hash == Hashing(runs[r].hash, InspectOrder, runs[r].at)
  <1> DEFINE at == runs[r].at + 1
  <1> DEFINE run == [runs[r] EXCEPT !.at = at, !.hash = hash]
  <1>3. SetRun(r, run)
    BY DEF GateHashes
  <1>4. runs[r].seen \in [Files -> Contents] /\ runs[r].hash \in [Files -> Nat]
    BY <1>1 DEF RunTyped
  <1>5. hash \in [Files -> Nat]
    BY <1>1, <1>4, AnyReading
  <1>6. at \in 1..3
    BY <1>2
  <1>7. ~ runs[r].raced => \A f \in Files : Behind(InspectOrder, at, f) => hash[f] = disk[f].v
    <2>1. SUFFICES ASSUME ~ runs[r].raced
                   PROVE  \A f \in Files : Behind(InspectOrder, at, f) => hash[f] = disk[f].v
      OBVIOUS
    <2>2. \A f \in Files : Behind(InspectOrder, runs[r].at, f) => runs[r].hash[f] = disk[f].v
      BY <1>1, <1>2, <2>1 DEF GateSees
    <2>3. QED
      BY <1>2, <1>4, <2>2, OneMoreBehind DEF Hashing
  <1> HIDE DEF hash, at
  <1>8. /\ DOMAIN run = AllFields /\ run.pc = "compare" /\ run.at = at /\ run.hash = hash /\ run.seen = runs[r].seen
        /\ run.raced = runs[r].raced /\ run.moved = runs[r].moved /\ run.overlapped = runs[r].overlapped
        /\ run.outcome = runs[r].outcome /\ run.read = runs[r].read /\ run.automates = runs[r].automates
    BY <1>1, <1>2 DEF RunTyped, AllFields, GateFields, StageFields
  <1> HIDE DEF run
  <1>9. runs'[r] = run
    BY <1>3, OneRun
  <1>10. RunTyped(r)'
    BY <1>1, <1>5, <1>6, <1>8, <1>9 DEF RunTyped, GateSteps
  <1>11. GateSees(r)'
    BY <1>1, <1>2, <1>7, <1>8, <1>9 DEF GateSees, unchangedGate, unchangedPhase1
  <1>12. QED
    BY <1>2, <1>3, <1>8, <1>10, <1>11, GateStep DEF StageSteps

LEMMA GateDecidesStep ==
  ASSUME IInv, NEW r \in Phase2Runs, GateDecides(r)
  PROVE  IInv'
  <1>1. RunTyped(r) /\ GateSees(r)
    BY TypedRuns DEF IInv
  <1>2. runs[r].pc = "compare" /\ runs[r].at = 3 /\ unchangedGate
    BY DEF GateDecides
  <1> DEFINE opens == Changed(runs[r].read.hash, runs[r].hash) = {} /\ runs[r].automates
  <1>3. CASE ~ opens
    <2>1. SetRun(r, Waiting)
      BY <1>3 DEF GateDecides
    <2>2. QED
      BY <1>2, <2>1, GateCloses DEF GateSteps
  <1>4. CASE opens
    <2> DEFINE run == [runs[r] EXCEPT !.pc = "open"]
    <2>1. SetRun(r, run)
      BY <1>4 DEF GateDecides
    <2>2. /\ DOMAIN run = AllFields /\ run.pc = "open" /\ run.at = runs[r].at /\ run.seen = runs[r].seen
          /\ run.hash = runs[r].hash /\ run.raced = runs[r].raced /\ run.automates = runs[r].automates
          /\ run.read = runs[r].read /\ run.moved = runs[r].moved /\ run.overlapped = runs[r].overlapped
          /\ run.outcome = runs[r].outcome
      BY <1>1 DEF RunTyped, AllFields, GateFields, StageFields
    <2> HIDE DEF run
    <2>3. runs'[r] = run
      BY <2>1, OneRun
    <2>4. RunTyped(r)'
      BY <1>1, <2>2, <2>3 DEF RunTyped, GateSteps
    <2>5. ~ runs[r].raced => \A f \in Files : approval.hash[f] = disk[f].v
      BY <1>1, <1>2, <1>4, AllBehind DEF GateSees, Changed
    <2>6. GateSees(r)'
      BY <1>1, <1>2, <1>4, <2>2, <2>3, <2>5 DEF GateSees, unchangedGate, unchangedPhase1
    <2>7. QED
      BY <1>2, <2>1, <2>2, <2>4, <2>6, GateStep DEF StageSteps
  <1>5. QED
    BY <1>3, <1>4

LEMMA GateOnlyStep ==
  ASSUME IInv, NEW r \in Phase2Runs, GateOnly(r)
  PROVE  IInv'
  BY GateCloses DEF GateOnly, GateSteps

-----------------------------------------------------------------------------
(* The stage: a run that moves, and what the others in the stage make of it. *)

StageRun(r) ==
  /\ RunTyped(r) /\ StageOwns(r)
  /\ archives[r] = None
  /\ \A q \in Phase2Runs : q # r /\ InStage(q) => runs[r].overlapped /\ runs[q].overlapped

LEMMA InStageKnows ==
  ASSUME IInv, NEW r \in Phase2Runs, InStage(r)
  PROVE  StageRun(r)
  <1>1. RunTyped(r) /\ StageOwns(r)
    BY TypedRuns DEF IInv
  <1>2. archives[r] = None
    BY <1>1 DEF StageOwns, InStage, StageSteps
  <1>3. \A q \in Phase2Runs : q # r /\ InStage(q) => runs[r].overlapped /\ runs[q].overlapped
    BY DEF IInv, OverlapSeen
  <1>4. QED
    BY <1>1, <1>2, <1>3 DEF StageRun

LEMMA StageStep ==
  ASSUME IInv, NEW r \in Phase2Runs, NEW run, SetRun(r, run), InStage(r), unchangedPhase1, UNCHANGED <<moves, analysis>>,
         RunTyped(r)', run.pc \notin GateSteps, run.pc \in StageSteps => run.overlapped = runs[r].overlapped,
         StageOwns(r)', ContractSourced', contract'.by \in Phase2Runs \cup {None}, DOMAIN archives' = Phase2Runs,
         \A q \in Phase2Runs : q # r => archives'[q] = archives[q]
  PROVE  IInv'
  <1> USE DEF unchangedPhase1
  <1>1. /\ DOMAIN runs' = Phase2Runs /\ runs'[r] = run
        /\ \A q \in Phase2Runs : q # r => runs'[q] = runs[q]
    BY OneRun
  <1>2. StageRun(r)
    BY InStageKnows
  <1>3. ASSUME NEW q \in Phase2Runs, q # r
        PROVE  RunTyped(q)' /\ GateSees(q)' /\ StageOwns(q)'
    <2>1. runs'[q] = runs[q] /\ archives'[q] = archives[q]
      BY <1>1, <1>3
    <2>2. RunTyped(q)'
      BY <2>1, TypedRuns DEF RunTyped
    <2>3. GateSees(q)'
      BY <2>1, GateKept DEF IInv, SameGate
    <2>4. StageOwns(q)
      BY DEF IInv
    <2>5. StageOwns(q)'
      <3>1. CASE InStage(q)
        <4>1. runs[q].overlapped
          BY <1>2, <1>3, <3>1 DEF StageRun
        <4>2. QED
          BY <2>1, <2>4, <4>1 DEF StageOwns, repo
      <3>2. CASE ~ InStage(q)
        BY <2>1, <2>4, <3>2 DEF StageOwns, repo, InStage, StageSteps
      <3>3. QED
        BY <3>1, <3>2
    <2>6. QED
      BY <2>2, <2>3, <2>5
  <1>4. GateSees(r)'
    BY <1>1 DEF GateSees, GateSteps
  <1>5. OverlapSeen'
    BY <1>1, <1>2 DEF IInv, OverlapSeen, InStage, StageRun
  <1>6. VersionsKnown' /\ ApproverSees' /\ ApprovalRests'
    BY DEF IInv, VersionsKnown, ApproverSees, ApprovalRests
  <1>7. TypeOK'
    BY <1>1, <1>3 DEF IInv, TypeOK, RunTyped, AllFields
  <1>8. QED
    BY <1>3, <1>4, <1>5, <1>6, <1>7 DEF IInv

\* Nothing but the run's own record changes.
LEMMA OwnStageStep ==
  ASSUME IInv, NEW r \in Phase2Runs, NEW run, SetRun(r, run), InStage(r), unchangedRun,
         UNCHANGED <<analysis, contract, archives>>, DOMAIN run = AllFields, run.pc \in StageSteps, run.at = runs[r].at,
         run.seen = runs[r].seen, run.hash = runs[r].hash, run.raced = runs[r].raced,
         run.moved = runs[r].moved, run.overlapped = runs[r].overlapped, StageOwns(r)'
  PROVE  IInv'
  <1>1. runs'[r] = run /\ RunTyped(r)
    BY OneRun, TypedRuns
  <1>2. RunTyped(r)'
    BY <1>1 DEF RunTyped
  <1>3. run.pc \notin GateSteps
    BY DEF GateSteps, StageSteps
  <1>4. ContractSourced' /\ contract'.by \in Phase2Runs \cup {None} /\ DOMAIN archives' = Phase2Runs
    BY DEF IInv, ContractSourced, TypeOK
  <1>5. QED
    BY <1>2, <1>3, <1>4, StageStep DEF unchangedRun, unchangedRepo

LEMMA AttemptEndsStep ==
  ASSUME IInv, NEW r \in Phase2Runs, AttemptEnds(r)
  PROVE  IInv'
  <1>1. runs[r].pc = "attempt" /\ InStage(r) /\ unchangedRun /\ UNCHANGED <<analysis, contract, archives, moves>>
    BY DEF AttemptEnds, InStage, StageSteps, unchangedRun, unchangedRepo
  <1>2. StageRun(r)
    BY <1>1, InStageKnows
  <1> DEFINE passed == analysis # None /\ runs[r].fresh /\ ~ RepoProblems(analysis, repo)
  <1>3. CASE passed
    <2> DEFINE run == [runs[r] EXCEPT !.pc = "read", !.fresh = FALSE, !.outcome = "completed"]
    <2>1. SetRun(r, run)
      BY <1>3 DEF AttemptEnds
    <2>2. /\ DOMAIN run = AllFields /\ run.pc = "read" /\ run.at = runs[r].at /\ run.seen = runs[r].seen
          /\ run.hash = runs[r].hash /\ run.raced = runs[r].raced /\ run.moved = runs[r].moved
          /\ run.overlapped = runs[r].overlapped /\ run.outcome = "completed"
      BY <1>2 DEF StageRun, RunTyped, AllFields, GateFields, StageFields
    <2> HIDE DEF run
    <2>3. runs'[r] = run
      BY <2>1, OneRun
    <2>4. StageOwns(r)'
      BY <1>1, <1>2, <1>3, <2>2, <2>3 DEF StageOwns, StageRun
    <2>5. QED
      BY <1>1, <2>1, <2>2, <2>4, OwnStageStep DEF StageSteps
  <1>4. CASE ~ passed /\ runs[r].attempt < Attempts
    <2> DEFINE attempt == runs[r].attempt + 1
    <2> DEFINE run == [runs[r] EXCEPT !.attempt = attempt, !.fresh = FALSE]
    <2>1. SetRun(r, run)
      BY <1>4 DEF AttemptEnds
    <2>2. /\ DOMAIN run = AllFields /\ run.pc = "attempt" /\ run.at = runs[r].at /\ run.seen = runs[r].seen
          /\ run.hash = runs[r].hash /\ run.raced = runs[r].raced /\ run.moved = runs[r].moved
          /\ run.overlapped = runs[r].overlapped /\ run.outcome = runs[r].outcome
      BY <1>1, <1>2 DEF StageRun, RunTyped, AllFields, GateFields, StageFields
    <2> HIDE DEF run, attempt
    <2>3. runs'[r] = run
      BY <2>1, OneRun
    <2>4. StageOwns(r)'
      BY <1>1, <1>2, <2>2, <2>3 DEF StageOwns, StageRun
    <2>5. QED
      BY <1>1, <2>1, <2>2, <2>4, OwnStageStep DEF StageSteps
  <1>5. CASE ~ passed /\ ~ (runs[r].attempt < Attempts)
    <2> DEFINE run == [runs[r] EXCEPT !.pc = "finish", !.fresh = FALSE, !.outcome = "failed"]
    <2>1. SetRun(r, run)
      BY <1>5 DEF AttemptEnds
    <2>2. /\ DOMAIN run = AllFields /\ run.pc = "finish" /\ run.at = runs[r].at /\ run.seen = runs[r].seen
          /\ run.hash = runs[r].hash /\ run.raced = runs[r].raced /\ run.moved = runs[r].moved
          /\ run.overlapped = runs[r].overlapped /\ run.outcome = "failed"
      BY <1>2 DEF StageRun, RunTyped, AllFields, GateFields, StageFields
    <2> HIDE DEF run
    <2>3. runs'[r] = run
      BY <2>1, OneRun
    <2>4. StageOwns(r)'
      BY <1>1, <1>2, <2>2, <2>3 DEF StageOwns, StageRun
    <2>5. QED
      BY <1>1, <2>1, <2>2, <2>4, OwnStageStep DEF StageSteps
  <1>6. QED
    BY <1>3, <1>4, <1>5

LEMMA ReadsAnalysisStep ==
  ASSUME IInv, NEW r \in Phase2Runs, ReadsAnalysis(r)
  PROVE  IInv'
  <1>1. runs[r].pc = "read" /\ InStage(r) /\ unchangedRun /\ UNCHANGED <<analysis, contract, archives, moves>>
    BY DEF ReadsAnalysis, InStage, StageSteps, unchangedRun, unchangedRepo
  <1>2. StageRun(r)
    BY <1>1, InStageKnows
  <1> DEFINE pc == IF analysis = None THEN "finish" ELSE "evidence"
  <1> DEFINE run == [runs[r] EXCEPT !.pc = pc, !.kept = analysis]
  <1>3. SetRun(r, run)
    BY DEF ReadsAnalysis
  <1>4. /\ pc \in {"finish", "evidence"} /\ (pc = "evidence" => analysis # None)
        /\ ~ runs[r].overlapped => pc = "evidence"
    BY <1>1, <1>2 DEF StageRun, StageOwns
  <1> HIDE DEF pc
  <1>5. /\ DOMAIN run = AllFields /\ run.pc = pc /\ run.at = runs[r].at /\ run.seen = runs[r].seen
        /\ run.hash = runs[r].hash /\ run.raced = runs[r].raced /\ run.moved = runs[r].moved
        /\ run.overlapped = runs[r].overlapped /\ run.outcome = runs[r].outcome /\ run.kept = analysis
    BY <1>2 DEF StageRun, RunTyped, AllFields, GateFields, StageFields
  <1> HIDE DEF run
  <1>6. runs'[r] = run
    BY <1>3, OneRun
  <1>7. StageOwns(r)'
    BY <1>1, <1>2, <1>4, <1>5, <1>6 DEF StageOwns, StageRun
  <1>8. QED
    BY <1>1, <1>3, <1>4, <1>5, <1>7, OwnStageStep DEF StageSteps

LEMMA CollectsEvidenceStep ==
  ASSUME IInv, NEW r \in Phase2Runs, CollectsEvidence(r)
  PROVE  IInv'
  <1>1. runs[r].pc = "evidence" /\ InStage(r) /\ unchangedRun /\ UNCHANGED <<analysis, contract, archives, moves>>
    BY DEF CollectsEvidence, InStage, StageSteps, unchangedRun, unchangedRepo
  <1>2. StageRun(r)
    BY <1>1, InStageKnows
  <1>3. CASE analysis = None
    <2> DEFINE run == [runs[r] EXCEPT !.pc = "finish", !.outcome = "no contract"]
    <2>1. SetRun(r, run)
      BY <1>3 DEF CollectsEvidence
    <2>2. /\ DOMAIN run = AllFields /\ run.pc = "finish" /\ run.at = runs[r].at /\ run.seen = runs[r].seen
          /\ run.hash = runs[r].hash /\ run.raced = runs[r].raced /\ run.moved = runs[r].moved
          /\ run.overlapped = runs[r].overlapped
      BY <1>2 DEF StageRun, RunTyped, AllFields, GateFields, StageFields
    <2> HIDE DEF run
    <2>3. runs'[r] = run
      BY <2>1, OneRun
    <2>4. runs[r].overlapped
      BY <1>1, <1>2, <1>3 DEF StageOwns, StageRun
    <2>5. StageOwns(r)'
      BY <1>1, <1>2, <2>2, <2>3, <2>4 DEF StageOwns, StageRun
    <2>6. QED
      BY <1>1, <2>1, <2>2, <2>5, OwnStageStep DEF StageSteps
  <1>4. CASE analysis # None
    <2> DEFINE scripts == repo.scripts
    <2> DEFINE run == [runs[r] EXCEPT !.pc = "build", !.sha = analysis, !.scripts = scripts]
    <2>1. SetRun(r, run)
      BY <1>4 DEF CollectsEvidence, SourceHash
    <2> HIDE DEF scripts
    <2>2. /\ DOMAIN run = AllFields /\ run.pc = "build" /\ run.at = runs[r].at /\ run.seen = runs[r].seen
          /\ run.hash = runs[r].hash /\ run.raced = runs[r].raced /\ run.moved = runs[r].moved
          /\ run.overlapped = runs[r].overlapped /\ run.outcome = runs[r].outcome
          /\ run.sha = analysis /\ run.kept = runs[r].kept
      BY <1>2 DEF StageRun, RunTyped, AllFields, GateFields, StageFields
    <2> HIDE DEF run
    <2>3. runs'[r] = run
      BY <2>1, OneRun
    <2>4. StageOwns(r)'
      BY <1>1, <1>2, <2>2, <2>3 DEF StageOwns, StageRun
    <2>5. QED
      BY <1>1, <2>1, <2>2, <2>4, OwnStageStep DEF StageSteps
  <1>5. QED
    BY <1>3, <1>4

LEMMA BuildsStep ==
  ASSUME IInv, NEW r \in Phase2Runs, Builds(r)
  PROVE  IInv'
  <1>1. runs[r].pc = "build" /\ InStage(r) /\ unchangedRun /\ UNCHANGED <<analysis, contract, archives, moves>>
    BY DEF Builds, InStage, StageSteps, unchangedRun, unchangedRepo
  <1>2. StageRun(r)
    BY <1>1, InStageKnows
  <1> DEFINE built == Projection(runs[r].kept, repo.files, runs[r].scripts)
  <1> DEFINE run == [runs[r] EXCEPT !.pc = "validate", !.built = built]
  <1>3. SetRun(r, run)
    BY DEF Builds
  <1>4. repo' = repo
    BY <1>1 DEF repo
  <1>5. built = Projection(runs[r].kept, repo.files, runs[r].scripts)
    OBVIOUS
  <1> HIDE DEF built
  <1>6. /\ DOMAIN run = AllFields /\ run.pc = "validate" /\ run.at = runs[r].at /\ run.seen = runs[r].seen
        /\ run.hash = runs[r].hash /\ run.raced = runs[r].raced /\ run.moved = runs[r].moved
        /\ run.overlapped = runs[r].overlapped /\ run.outcome = runs[r].outcome
        /\ run.sha = runs[r].sha /\ run.kept = runs[r].kept /\ run.scripts = runs[r].scripts /\ run.built = built
    BY <1>2 DEF StageRun, RunTyped, AllFields, GateFields, StageFields
  <1> HIDE DEF run
  <1>7. runs'[r] = run
    BY <1>3, OneRun
  <1>8. StageOwns(r)'
    BY <1>1, <1>2, <1>4, <1>5, <1>6, <1>7 DEF StageOwns, StageRun
  <1>9. QED
    BY <1>1, <1>3, <1>6, <1>8, OwnStageStep DEF StageSteps

LEMMA ValidatesStep ==
  ASSUME IInv, NEW r \in Phase2Runs, Validates(r)
  PROVE  IInv'
  <1>1. runs[r].pc = "validate" /\ InStage(r) /\ unchangedPhase1 /\ UNCHANGED <<analysis, archives, moves>>
    BY DEF Validates, InStage, StageSteps, unchangedRun, unchangedRepo
  <1>2. StageRun(r)
    BY <1>1, InStageKnows
  <1> DEFINE wrong == ContractProblems(runs[r].built, repo.files, runs[r].scripts, runs[r].sha, runs[r].sha)
  <1> DEFINE outcome == IF wrong THEN "no contract" ELSE runs[r].outcome
  <1> DEFINE run == [runs[r] EXCEPT !.pc = "finish", !.outcome = outcome]
  <1>3. SetRun(r, run)
    BY DEF Validates
  <1>4. wrong => runs[r].moved
    BY <1>1, <1>2, ProjectionValidates DEF StageRun, StageOwns
  <1>5. contract' = IF wrong THEN contract
                    ELSE [says |-> runs[r].built, of |-> runs[r].kept, sha |-> runs[r].sha, by |-> r,
                          overlapped |-> runs[r].overlapped]
    BY DEF Validates
  <1>6. outcome = IF wrong THEN "no contract" ELSE runs[r].outcome
    OBVIOUS
  <1> HIDE DEF wrong, outcome
  <1>7. /\ DOMAIN run = AllFields /\ run.pc = "finish" /\ run.at = runs[r].at /\ run.seen = runs[r].seen
        /\ run.hash = runs[r].hash /\ run.raced = runs[r].raced /\ run.moved = runs[r].moved
        /\ run.overlapped = runs[r].overlapped /\ run.outcome = outcome
    BY <1>2 DEF StageRun, RunTyped, AllFields, GateFields, StageFields
  <1> HIDE DEF run
  <1>8. runs'[r] = run
    BY <1>3, OneRun
  <1>9. RunTyped(r)'
    BY <1>2, <1>7, <1>8 DEF StageRun, RunTyped, StageSteps
  <1>10. ~ wrong => /\ contract'.by = r /\ contract'.of = runs[r].kept /\ contract'.sha = runs[r].sha
                    /\ contract'.overlapped = runs[r].overlapped
    BY <1>5
  <1>11. StageOwns(r)'
    <2>1. CASE wrong
      BY <1>1, <1>2, <1>4, <1>6, <1>7, <1>8, <2>1 DEF StageOwns, StageRun
    <2>2. CASE ~ wrong
      BY <1>1, <1>2, <1>6, <1>7, <1>8, <1>10, <2>2 DEF StageOwns, StageRun
    <2>3. QED
      BY <2>1, <2>2
  <1>12. ContractSourced' /\ contract'.by \in Phase2Runs \cup {None}
    <2>1. CASE wrong
      BY <1>5, <2>1 DEF IInv, TypeOK, ContractSourced
    <2>2. CASE ~ wrong
      BY <1>1, <1>2, <1>10, <2>2 DEF ContractSourced, StageRun, StageOwns
    <2>3. QED
      BY <2>1, <2>2
  <1>13. DOMAIN archives' = Phase2Runs
    BY <1>1 DEF IInv, TypeOK
  <1>14. run.pc \notin GateSteps
    BY <1>7 DEF GateSteps
  <1>15. QED
    BY <1>1, <1>3, <1>7, <1>9, <1>11, <1>12, <1>13, <1>14, StageStep

LEMMA FinishesStep ==
  ASSUME IInv, NEW r \in Phase2Runs, Finishes(r)
  PROVE  IInv'
  <1>1. runs[r].pc = "finish" /\ InStage(r) /\ unchangedPhase1 /\ UNCHANGED <<analysis, contract, moves>>
    BY DEF Finishes, InStage, StageSteps, unchangedRun, unchangedRepo
  <1>2. StageRun(r)
    BY <1>1, InStageKnows
  <1> DEFINE kept == [outcome |-> runs[r].outcome, analysis |-> analysis, contract |-> contract.by]
  <1> DEFINE outcome == runs[r].outcome
  <1> DEFINE moved == runs[r].moved
  <1> DEFINE overlapped == runs[r].overlapped
  <1> DEFINE run == [Waiting EXCEPT !.pc = "done", !.outcome = outcome, !.moved = moved, !.overlapped = overlapped]
  <1>3. SetRun(r, run) /\ archives' = [archives EXCEPT ![r] = kept]
    BY DEF Finishes
  <1>4. moved \in BOOLEAN /\ overlapped \in BOOLEAN
    BY <1>2 DEF StageRun, RunTyped
  <1>5. kept.outcome = outcome /\ kept.contract = contract.by
    OBVIOUS
  <1>6. ~ overlapped => /\ outcome = "completed" => contract.by = r
                        /\ outcome = "no contract" => moved
    BY <1>1, <1>2 DEF StageRun, StageOwns
  <1> HIDE DEF kept, outcome, moved
  <1>7. overlapped = runs[r].overlapped
    OBVIOUS
  <1> HIDE DEF overlapped
  <1>8. /\ DOMAIN run = AllFields /\ run.pc = "done" /\ run.at = Waiting.at /\ run.seen = Waiting.seen
        /\ run.hash = Waiting.hash /\ run.raced = Waiting.raced /\ run.moved = moved
        /\ run.overlapped = overlapped /\ run.outcome = outcome
    BY TypedWaiting DEF AllFields, GateFields, StageFields
  <1> HIDE DEF run
  <1>9. runs'[r] = run
    BY <1>3, OneRun
  <1>10. RunTyped(r)'
    BY <1>4, <1>8, <1>9, TypedWaiting DEF RunTyped
  <1>11. /\ DOMAIN archives' = Phase2Runs /\ archives'[r] = kept
         /\ \A q \in Phase2Runs : q # r => archives'[q] = archives[q]
    BY <1>3 DEF IInv, TypeOK
  <1>12. StageOwns(r)'
    BY <1>1, <1>5, <1>6, <1>8, <1>9, <1>11 DEF StageOwns
  <1>13. ContractSourced' /\ contract'.by \in Phase2Runs \cup {None}
    BY <1>1 DEF IInv, TypeOK, ContractSourced
  <1>14. run.pc \notin GateSteps \cup StageSteps
    BY <1>8 DEF GateSteps, StageSteps
  <1>15. QED
    BY <1>1, <1>3, <1>10, <1>11, <1>12, <1>13, <1>14, StageStep

LEMMA StageDiesStep ==
  ASSUME IInv, NEW r \in Phase2Runs, StageDies(r)
  PROVE  IInv'
  <1>1. InStage(r) /\ unchangedPhase1 /\ UNCHANGED <<analysis, contract, archives, moves>>
    BY DEF StageDies, unchangedGate, unchangedStage
  <1>2. StageRun(r)
    BY <1>1, InStageKnows
  <1> DEFINE run == [Waiting EXCEPT !.pc = "dead"]
  <1>3. SetRun(r, run)
    BY DEF StageDies
  <1>4. /\ DOMAIN run = AllFields /\ run.pc = "dead" /\ run.at = Waiting.at /\ run.seen = Waiting.seen
        /\ run.hash = Waiting.hash /\ run.raced = Waiting.raced /\ run.moved = Waiting.moved
        /\ run.overlapped = Waiting.overlapped /\ run.outcome = ""
    BY WaitingTyped DEF AllFields, GateFields, StageFields
  <1> HIDE DEF run
  <1>5. runs'[r] = run
    BY <1>3, OneRun
  <1>6. RunTyped(r)'
    BY <1>4, <1>5, TypedWaiting DEF RunTyped
  <1>7. StageOwns(r)'
    BY <1>1, <1>2, <1>4, <1>5 DEF StageOwns, StageRun
  <1>8. ContractSourced' /\ contract'.by \in Phase2Runs \cup {None} /\ DOMAIN archives' = Phase2Runs
    BY <1>1 DEF IInv, TypeOK, ContractSourced
  <1>9. run.pc \notin GateSteps \cup StageSteps
    BY <1>4 DEF GateSteps, StageSteps
  <1>10. QED
    BY <1>1, <1>3, <1>6, <1>7, <1>8, <1>9, StageStep

-----------------------------------------------------------------------------
(* The stage: steps that every run takes notice of. *)

\* What any such step leaves of the Phase 1 side and of the gate.
LEMMA AllRunsStep ==
  ASSUME IInv, unchangedPhase1, UNCHANGED <<contract, archives>>, DOMAIN runs' = Phase2Runs,
         \A r \in Phase2Runs : RunTyped(r)' /\ GateSees(r)' /\ StageOwns(r)',
         OverlapSeen'
  PROVE  IInv'
  <1> USE DEF unchangedPhase1
  <1>1. VersionsKnown' /\ ApproverSees' /\ ApprovalRests' /\ ContractSourced'
    BY DEF IInv, VersionsKnown, ApproverSees, ApprovalRests, ContractSourced
  <1>2. TypeOK'
    BY DEF IInv, TypeOK, RunTyped, AllFields
  <1>3. QED
    BY <1>1, <1>2 DEF IInv

LEMMA StageStartsStep ==
  ASSUME IInv, NEW r \in Phase2Runs, StageStarts(r)
  PROVE  IInv'
  <1>1. runs[r].pc = "open" /\ unchangedPhase1 /\ UNCHANGED <<contract, archives, moves>> /\ analysis' = None
    BY DEF StageStarts, unchangedRun, unchangedRepo
  <1>2. DOMAIN runs' = Phase2Runs
    BY DEF StageStarts
  <1> DEFINE others == \E p \in Phase2Runs : InStage(p)
  <1>3. runs'[r] = [Waiting EXCEPT !.pc = "attempt", !.attempt = 1, !.overlapped = others]
    BY DEF StageStarts
  <1>4. others \in BOOLEAN /\ (\A p \in Phase2Runs : InStage(p) => others)
    OBVIOUS
  <1> HIDE DEF others
  <1>5. /\ DOMAIN runs'[r] = AllFields /\ runs'[r].pc = "attempt" /\ runs'[r].at = Waiting.at
              /\ runs'[r].seen = Waiting.seen
        /\ runs'[r].hash = Waiting.hash /\ runs'[r].raced = Waiting.raced /\ runs'[r].moved = Waiting.moved
        /\ runs'[r].overlapped = others /\ runs'[r].outcome = ""
    BY <1>3, WaitingTyped DEF AllFields, GateFields, StageFields
  <1>6. RunTyped(r)' /\ GateSees(r)'
    <2>1. RunTyped(r)'
      BY <1>4, <1>5, TypedWaiting DEF RunTyped, StageSteps
    <2>2. GateSees(r)'
      BY <1>5 DEF GateSees
    <2>3. QED
      BY <2>1, <2>2
  <1>7. StageOwns(r)'
    <2>1. archives[r] = None
      BY <1>1 DEF IInv, StageOwns
    <2>2. QED
      BY <1>1, <1>5, <2>1 DEF StageOwns
  <1>8. ASSUME NEW q \in Phase2Runs, q # r
        PROVE  /\ RunTyped(q)' /\ SameGate(q) /\ SameStage(q)
               /\ runs'[q].raced = runs[q].raced /\ runs'[q].moved = runs[q].moved
               /\ InStage(q) => runs'[q].overlapped
               /\ ~ InStage(q) => runs'[q].overlapped = runs[q].overlapped
    <2>1. RunTyped(q)
      BY TypedRuns
    <2> DEFINE yes == runs[q].overlapped \/ InStage(q)
    <2>2. runs'[q] = [runs[q] EXCEPT !.overlapped = yes]
      BY <1>8 DEF StageStarts
    <2>3. yes \in BOOLEAN /\ (InStage(q) => yes)
      BY <2>1 DEF RunTyped, InStage
    <2>4. ~ InStage(q) => yes = runs[q].overlapped
      BY <2>1 DEF RunTyped
    <2> HIDE DEF yes
    <2>5. DOMAIN runs'[q] = AllFields /\ runs'[q].overlapped = yes
      BY <2>1, <2>2 DEF RunTyped, AllFields, StageFields
    <2>6. SameGate(q) /\ SameStage(q) /\ runs'[q].moved = runs[q].moved /\ runs'[q].raced = runs[q].raced
      BY <2>1, <2>2 DEF RunTyped, AllFields, GateFields, StageFields, SameGate, SameStage
    <2>7. QED
      BY <2>1, <2>3, <2>4, <2>5, <2>6 DEF RunTyped, SameGate
  <1>9. ASSUME NEW q \in Phase2Runs, q # r
        PROVE  GateSees(q)' /\ StageOwns(q)'
    <2>1. GateSees(q)'
      BY <1>1, <1>8, <1>9, GateKept DEF IInv, unchangedPhase1
    <2>2. StageOwns(q)
      BY DEF IInv
    <2>3. CASE InStage(q)
      <3>1. StageOwns(q)'
        BY <1>1, <1>8, <1>9, <2>2, <2>3 DEF StageOwns, SameStage, repo
      <3>2. QED
        BY <2>1, <3>1
    <2>4. CASE ~ InStage(q)
      <3>1. StageOwns(q)'
        BY <1>1, <1>8, <1>9, <2>2, <2>4 DEF StageOwns, SameStage, repo, InStage, StageSteps
      <3>2. QED
        BY <2>1, <3>1
    <2>5. QED
      BY <2>3, <2>4
  <1>10. OverlapSeen'
    <2>1. SUFFICES ASSUME NEW p \in Phase2Runs, NEW q \in Phase2Runs, p # q, InStage(p)', InStage(q)'
                   PROVE  runs'[p].overlapped /\ runs'[q].overlapped
      BY DEF OverlapSeen
    <2>2. \A x \in Phase2Runs : x # r /\ InStage(x)' => InStage(x) /\ runs'[x].overlapped
      BY <1>8 DEF InStage, SameStage
    <2>3. (\E x \in Phase2Runs : x # r /\ InStage(x)') => runs'[r].overlapped
      BY <1>4, <1>5, <2>2
    <2>4. QED
      BY <2>1, <2>2, <2>3
  <1>11. QED
    BY <1>1, <1>2, <1>6, <1>7, <1>8, <1>9, <1>10, AllRunsStep

LEMMA AgentWritesStep ==
  ASSUME IInv, NEW r \in Phase2Runs, NEW a \in Analyses, AgentWrites(r, a)
  PROVE  IInv'
  <1>1. runs[r].pc = "attempt" /\ InStage(r) /\ unchangedPhase1 /\ UNCHANGED <<contract, archives, moves>>
    BY DEF AgentWrites, unchangedRun, unchangedRepo, InStage, StageSteps
  <1>2. DOMAIN runs' = Phase2Runs
    BY DEF AgentWrites
  <1>3. ASSUME NEW q \in Phase2Runs
        PROVE  /\ RunTyped(q)' /\ SameGate(q) /\ SameStage(q)
               /\ runs'[q].raced = runs[q].raced /\ runs'[q].moved = runs[q].moved
                     /\ runs'[q].overlapped = runs[q].overlapped
    <2>1. RunTyped(q)
      BY TypedRuns
    <2> DEFINE fresh == runs[q].pc = "attempt"
    <2>2. runs'[q] = [runs[q] EXCEPT !.fresh = fresh]
      BY DEF AgentWrites
    <2> HIDE DEF fresh
    <2>3. DOMAIN runs'[q] = AllFields
      BY <2>1, <2>2 DEF RunTyped
    <2>4. SameGate(q) /\ SameStage(q) /\ runs'[q].moved = runs[q].moved /\ runs'[q].raced = runs[q].raced
          /\ runs'[q].overlapped = runs[q].overlapped
      BY <2>1, <2>2 DEF RunTyped, AllFields, GateFields, StageFields, SameGate, SameStage
    <2>5. QED
      BY <2>1, <2>3, <2>4 DEF RunTyped, SameGate
  <1>4. ASSUME NEW q \in Phase2Runs
        PROVE  GateSees(q)' /\ StageOwns(q)'
    <2>1. GateSees(q)'
      BY <1>1, <1>3, GateKept DEF IInv, unchangedPhase1
    <2>2. StageOwns(q)
      BY DEF IInv
    <2>3. StageOwns(q)'
      <3>1. CASE q = r
        BY <1>1, <1>3, <2>2, <3>1 DEF StageOwns, SameStage, repo
      <3>2. CASE q # r /\ InStage(q)
        <4>1. runs[q].overlapped
          BY <1>1, <3>2, InStageKnows DEF StageRun
        <4>2. QED
          BY <1>1, <1>3, <2>2, <4>1 DEF StageOwns, SameStage, repo
      <3>3. CASE ~ InStage(q)
        BY <1>1, <1>3, <2>2, <3>3 DEF StageOwns, SameStage, repo, InStage, StageSteps
      <3>4. QED
        BY <3>1, <3>2, <3>3
    <2>4. QED
      BY <2>1, <2>3
  <1>5. OverlapSeen'
    BY <1>3 DEF IInv, OverlapSeen, InStage, SameStage
  <1>6. QED
    BY <1>1, <1>2, <1>3, <1>4, <1>5, AllRunsStep

LEMMA RepoMovesStep ==
  ASSUME IInv, RepoMoves
  PROVE  IInv'
  <1>1. unchangedPhase1 /\ UNCHANGED <<analysis, contract, archives>>
    BY DEF RepoMoves
  <1>2. DOMAIN runs' = Phase2Runs
    BY DEF RepoMoves
  <1>3. ASSUME NEW q \in Phase2Runs
        PROVE  /\ RunTyped(q)' /\ SameGate(q) /\ SameStage(q)
               /\ runs'[q].raced = runs[q].raced /\ runs'[q].overlapped = runs[q].overlapped
               /\ runs[q].moved \/ runs[q].pc \in {"build", "validate"} => runs'[q].moved
    <2>1. RunTyped(q)
      BY TypedRuns
    <2> DEFINE yes == runs[q].moved \/ runs[q].pc \in {"build", "validate"}
    <2>2. runs'[q] = [runs[q] EXCEPT !.moved = yes]
      BY DEF RepoMoves
    <2>3. yes \in BOOLEAN /\ (runs[q].moved \/ runs[q].pc \in {"build", "validate"} => yes)
      BY <2>1 DEF RunTyped
    <2> HIDE DEF yes
    <2>4. DOMAIN runs'[q] = AllFields /\ runs'[q].moved = yes
      BY <2>1, <2>2 DEF RunTyped, AllFields, StageFields
    <2>5. SameGate(q) /\ SameStage(q) /\ runs'[q].raced = runs[q].raced /\ runs'[q].overlapped = runs[q].overlapped
      BY <2>1, <2>2 DEF RunTyped, AllFields, GateFields, StageFields, SameGate, SameStage
    <2>6. QED
      BY <2>1, <2>3, <2>4, <2>5 DEF RunTyped, SameGate
  <1>4. ASSUME NEW q \in Phase2Runs
        PROVE  GateSees(q)' /\ StageOwns(q)'
    <2>1. GateSees(q)'
      BY <1>1, <1>3, GateKept DEF IInv, unchangedPhase1
    <2>2. StageOwns(q)
      BY DEF IInv
    <2>3. StageOwns(q)'
      <3>1. CASE runs[q].pc = "validate"
        <4>1. runs'[q].moved
          BY <1>3, <3>1
        <4>2. QED
          BY <1>1, <1>3, <2>2, <3>1, <4>1 DEF StageOwns, SameStage
      <3>2. CASE runs[q].pc # "validate"
        <4>1. runs[q].moved => runs'[q].moved
          BY <1>3
        <4>2. runs'[q].pc # "validate" /\ runs'[q].overlapped = runs[q].overlapped /\ SameStage(q)
          BY <1>3, <3>2 DEF SameStage
        <4>3. QED
          BY <1>1, <2>2, <4>1, <4>2 DEF StageOwns, SameStage
      <3>3. QED
        BY <3>1, <3>2
    <2>4. QED
      BY <2>1, <2>3
  <1>5. OverlapSeen'
    BY <1>3 DEF IInv, OverlapSeen, InStage, SameStage
  <1>6. QED
    BY <1>1, <1>2, <1>3, <1>4, <1>5, AllRunsStep

-----------------------------------------------------------------------------
(* The invariant holds, and what follows from it. *)

LEMMA InitIInv == Init => IInv
  <1> SUFFICES ASSUME Init PROVE IInv
    OBVIOUS
  <1> USE DEF Init
  <1>1. \A f \in Files : disk[f] = [v |-> 1, is |-> "clean"]
    OBVIOUS
  <1>2. [v |-> 1, is |-> "clean"] \in Contents
    BY DEF Contents, Kinds
  <1>3. disk \in [Files -> Contents] /\ version \in Nat
    BY <1>2
  <1>4. \A r \in Phase2Runs : runs[r] = Waiting /\ archives[r] = None
    OBVIOUS
  <1>5. phase1 \in [pc : {"idle", "archive", "stages"}, at : 1..6]
    <2>1. 1 \in 1..6
      OBVIOUS
    <2>2. QED
      BY <2>1
  <1>6. contract.by = None
    BY DEF NoContract
  <1>7. /\ approval \in {None, Torn} \cup Approvals
        /\ approval \notin {None, Torn} => \A f \in Files : approval.hash[f] = 1
    <2>1. CASE gateOnly
      BY <2>1
    <2>2. CASE ~ gateOnly
      <3>1. approval = [hash |-> [f \in Files |-> 1], accepted |-> {}, accept |-> FALSE, raced |-> FALSE]
        BY <2>2
      <3>2. [f \in Files |-> 1] \in [Files -> Nat]
        OBVIOUS
      <3>3. approval \in Approvals
        <4> DEFINE hash == [f \in Files |-> 1]
        <4> DEFINE no == FALSE
        <4>1. approval = [hash |-> hash, accepted |-> {}, accept |-> no, raced |-> no] /\ hash \in [Files -> Nat]
                 /\ no \in BOOLEAN
          BY <3>1, <3>2
        <4> HIDE DEF hash, no
        <4>2. QED
          BY <4>1 DEF Approvals
      <3>4. \A f \in Files : approval.hash[f] = 1
        BY <3>1
      <3>5. QED
        BY <3>3, <3>4
    <2>3. QED
      BY <2>1, <2>2
  <1>8. \A r \in Phase2Runs : RunTyped(r)
    BY <1>4, TypedWaiting DEF RunTyped
  <1>9. TypeOK
    BY <1>3, <1>5, <1>6, <1>7, <1>8, RestingTyped DEF TypeOK, RunTyped, AllFields
  <1>10. VersionsKnown
    <2>1. \A f \in Files : approver.hash[f] = 0
      BY RestingTyped DEF Unhashed
    <2>2. QED
      BY <1>1, <1>7, <2>1 DEF VersionsKnown
  <1>11. ApproverSees
    BY RestingTyped DEF ApproverSees
  <1>12. ApprovalRests
    BY <1>1, <1>7 DEF ApprovalRests
  <1>13. OverlapSeen /\ ContractSourced
    BY <1>4, <1>6, WaitingTyped DEF OverlapSeen, ContractSourced, InStage, StageSteps
  <1>14. \A r \in Phase2Runs : GateSees(r) /\ StageOwns(r)
    BY <1>4, WaitingTyped DEF GateSees, StageOwns
  <1>15. QED
    BY <1>9, <1>10, <1>11, <1>12, <1>13, <1>14 DEF IInv

LEMMA StutterIInv == IInv /\ UNCHANGED vars => IInv'
  <1> SUFFICES ASSUME IInv, UNCHANGED vars PROVE IInv'
    OBVIOUS
  <1> USE DEF vars
  <1>1. \A r \in Phase2Runs : GateSees(r)' /\ StageOwns(r)'
    BY GateKept, StageKept DEF IInv, SameGate, SameStage
  <1>2. VersionsKnown' /\ ApproverSees' /\ ApprovalRests' /\ ContractSourced' /\ OverlapSeen'
    BY DEF IInv, VersionsKnown, ApproverSees, ApprovalRests, ContractSourced, OverlapSeen, InStage
  <1>3. TypeOK'
    BY DEF IInv, TypeOK
  <1>4. QED
    BY <1>1, <1>2, <1>3 DEF IInv

LEMMA NextIInv == IInv /\ [Next]_vars => IInv'
  <1> SUFFICES ASSUME IInv, [Next]_vars PROVE IInv'
    OBVIOUS
  <1>1. CASE UNCHANGED vars
    BY <1>1, StutterIInv
  <1>2. CASE (\E f \in Files : WriteFile(f)) \/ (\E from \in FromStages : Phase1Archives(from))
             \/ Phase1ArchivesApproval \/ Phase1Stage \/ Phase1Ends
    BY <1>2, WriteFileStep, Phase1ArchivesStep, Phase1ArchivesApprovalStep, Phase1StageStep, Phase1EndsStep
  <1>3. CASE (\E accept \in BOOLEAN : ApproveStarts(accept)) \/ ApproveReads \/ ApproveJudges \/ ApproveHashes
             \/ ApproveWrites \/ ApproveDies
    BY <1>3, ApproveStartsStep, ApproveReadsStep, ApproveJudgesStep, ApproveHashesStep, ApproveWritesStep,
       ApproveDiesStep
  <1>4. ASSUME NEW r \in Phase2Runs,
               GateStarts(r) \/ GateReads(r) \/ GateJudges(r) \/ GateReadsApproval(r) \/ GateHashes(r)
               \/ GateDecides(r) \/ GateOnly(r)
        PROVE  IInv'
    BY <1>4, GateStartsStep, GateReadsStep, GateJudgesStep, GateReadsApprovalStep, GateHashesStep, GateDecidesStep,
       GateOnlyStep
  <1>5. ASSUME NEW r \in Phase2Runs,
               StageStarts(r) \/ AttemptEnds(r) \/ ReadsAnalysis(r) \/ CollectsEvidence(r) \/ Builds(r)
                  \/ Validates(r)
               \/ Finishes(r) \/ StageDies(r) \/ (\E a \in Analyses : AgentWrites(r, a))
        PROVE  IInv'
    BY <1>5, StageStartsStep, AttemptEndsStep, ReadsAnalysisStep, CollectsEvidenceStep, BuildsStep, ValidatesStep,
       FinishesStep, StageDiesStep, AgentWritesStep
  <1>6. CASE RepoMoves
    BY <1>6, RepoMovesStep
  <1>7. QED
    BY <1>1, <1>2, <1>3, <1>4, <1>5, <1>6 DEF Next

\* Whatever is written, approved, checked and projected in whatever order, whoever was not
\* disturbed knows what is on disk and in the approval, and a run alone in its stage finds its
\* own analysis (phase1-gate.ts, qa-approve.mjs, qa-automation.mjs).
THEOREM GateInvariant == Spec => []IInv
  <1>1. Init => IInv
    BY InitIInv
  <1>2. IInv /\ [Next]_vars => IInv'
    BY NextIInv
  <1>3. QED
    BY <1>1, <1>2, PTL DEF Spec

\* Phase 2 starts only on the bytes of an approval, none of them structurally unsound, as long
\* as nothing was written while the gate looked (phase1-gate.ts 230-315).
THEOREM ApprovedBytesOnly == Spec => []OnlyApprovedBytes
  <1>1. IInv => OnlyApprovedBytes
    <2>1. SUFFICES ASSUME IInv, NEW r \in Phase2Runs, runs[r].pc = "open", ~ runs[r].raced
                   PROVE  /\ approval \notin {None, Torn}
                          /\ \A f \in Files : approval.hash[f] = disk[f].v
                          /\ Inspection(disk).invalid = {} /\ Inspection(disk).automates
                          /\ approval.raced \/ Inspection(disk).missing = {}
      BY DEF OnlyApprovedBytes
    <2>2. GateSees(r)
      BY <2>1 DEF IInv
    <2>3. /\ approval \notin {None, Torn} /\ LetsIn(Inspection(disk)) /\ Inspection(disk).automates
          /\ \A f \in Files : approval.hash[f] = disk[f].v
      BY <2>1, <2>2 DEF GateSees
    <2>4. Inspection(disk).invalid = {}
      BY <2>3 DEF LetsIn
    <2>5. approval.raced \/ Inspection(disk).missing = {}
      <3>1. SUFFICES ASSUME ~ approval.raced PROVE Inspection(disk).missing = {}
        OBVIOUS
      <3>2. \A f \in Locked : disk[f].v # 0
        BY <2>1, <2>3, <3>1 DEF IInv, ApprovalRests, Files
      <3>3. \A f \in Locked : disk[f].is # "missing"
        BY <2>1, <3>2 DEF IInv, VersionsKnown, Files
      <3>4. QED
        BY <3>3 DEF Inspection
    <2>6. QED
      BY <2>3, <2>4, <2>5
  <1>2. QED
    BY <1>1, GateInvariant, PTL

\* What inspection finds in a file Phase 2 starts on was accepted by the person who approved
\* it, unless files were written during the approval or the gate's check (qa-approve.mjs).
THEOREM OnlyAcceptedFindings == Spec => []FindingsWereAccepted
  <1>1. IInv => FindingsWereAccepted
    <2>1. SUFFICES ASSUME IInv, NEW r \in Phase2Runs, runs[r].pc = "open", ~ runs[r].raced, ~ approval.raced,
                          NEW f \in Inspection(disk).findings
                   PROVE  f \in IF approval.accept THEN approval.accepted ELSE {}
      BY DEF FindingsWereAccepted
    <2>2. GateSees(r)
      BY <2>1 DEF IInv
    <2>3. approval \notin {None, Torn} /\ \A g \in Files : approval.hash[g] = disk[g].v
      BY <2>1, <2>2 DEF GateSees
    <2>4. f \in Files /\ disk[f].is = "findings"
      BY <2>1, FindingsAre DEF IInv, TypeOK
    <2>5. QED
      BY <2>1, <2>3, <2>4 DEF IInv, ApprovalRests
  <1>2. QED
    BY <1>1, GateInvariant, PTL

\* The contract carries the hash of the analysis it was projected from, and a run that ends
\* with a contract archives its own, unless two Phase 2 runs overlapped (qa-automation.mjs 180-294).
THEOREM ContractIsTraced == Spec => []ContractTraced
  <1>1. IInv => ContractTraced
    <2>1. ASSUME IInv PROVE contract.by # None /\ ~ contract.overlapped => contract.sha = contract.of
      BY <2>1 DEF IInv, ContractSourced
    <2>2. ASSUME IInv, NEW r \in Phase2Runs, archives[r] # None, ~ runs[r].overlapped, archives[r].outcome = "completed"
          PROVE  archives[r].contract = r
      BY <2>2 DEF IInv, StageOwns
    <2>3. QED
      BY <2>1, <2>2 DEF ContractTraced
  <1>2. QED
    BY <1>1, GateInvariant, PTL

\* A contract just built is refused by its own validation only when the repository changed
\* between the two or another run interfered (automation-contract.ts).
THEOREM ProjectionIsSound == Spec => []ProjectionHolds
  <1>1. IInv => ProjectionHolds
    BY DEF IInv, ProjectionHolds, StageOwns
  <1>2. QED
    BY <1>1, GateInvariant, PTL
=============================================================================
