----------------------------- MODULE Traceability -----------------------------
(***************************************************************************)
(* The artifacts of Phase 1 as they are written one after the other, each  *)
(* judged against those on disk, changed by people, partly regenerated, and *)
(* finally inspected (src/scripts/qa-manual.mjs, src/src/lib/qa-artifacts.ts, *)
(* src/src/lib/phase1-gate.ts).  The rules are those of EvidenceRules; what *)
(* the host reads from a browser of its own is BrowserEvidence.            *)
(*                                                                         *)
(* The content an agent or a person may submit is any member of a set of   *)
(* candidates, right and wrong ones; the host accepts what its rules let   *)
(* in.  Identifiers are the same in every run, as in the code: a later run *)
(* says something else of behavior B1.                                     *)
(*                                                                         *)
(* A person who edits a bug report by hand changes its status here and not *)
(* its text: nothing downstream rests on what a report says.               *)
(***************************************************************************)
EXTENDS EvidenceRules, BrowserEvidence

CONSTANTS
  Contexts,        \* coverage mode, documentation and live results a run may be given
  Discoveries,     \* what Product Discovery may have written
  Analyses, Suites, Prioritizations, DefectFindings,  \* what an agent may submit
  HandEdits,       \* analyses a person may put on disk with an editor
  Visits,          \* what the browser may show where the collector goes: sequences of visits
  Nothing          \* no artifact

\* The empty discovery the host records when the interface is not explored.
Unexplored == [b \in {} |-> Nothing]

\* What is submitted has passed its schema, and is a finite array where the
\* schema asks for one; what is said of an operation starts with its request.
ASSUME CandidateAssumption ==
  /\ Nothing # Unexplored
  /\ \A S \in {Discoveries, Analyses, HandEdits, Suites, Prioritizations} : Nothing \notin S
  /\ \A c \in Contexts :
       /\ IsContext(c)
       /\ \A o \in c.docs : IsText(ToldBy[o]) /\ [as |-> "REQUEST", what |-> RequestOf[o]] \in ToldBy[o]
  /\ \A d \in Discoveries : \A b \in DOMAIN d : IsBehavior(d[b])
  /\ \A a \in Analyses \cup HandEdits : \A r \in DOMAIN a.items : IsRequirement(a.items[r])
  /\ \A s \in Suites : \A tc \in s : IsCase(tc)
  /\ \A p \in Prioritizations : IsFiniteSet(p) /\ \A e \in p : IsEntry(e)
  /\ \A f \in DefectFindings :
       /\ f \in Seq({f[i] : i \in DOMAIN f})
       /\ \A i \in DOMAIN f : IsFinding(f[i])
  /\ \A w \in Visits :
       /\ w \in Seq({w[i] : i \in DOMAIN w})
       /\ \A i \in DOMAIN w : IsVisit(w[i])

VARIABLES
  ctx,             \* run-config, api-discovery and api-validation
  disc, analysis, suite, prio, defects,   \* the artifacts PHASE1_LOCKED names
  visited,         \* the visits discovery-evidence.json on disk was made of
  bugs,            \* the files under bugs/
  fanned,          \* a defect analysis whose reports are written and that is not
  plan             \* the stages the run has still to do, <<>> when none runs

artifacts == <<disc, analysis, suite, prio, defects>>
vars == <<ctx, disc, analysis, suite, prio, defects, visited, bugs, fanned, plan>>

Stages == <<"discovery", "analysis", "design", "prioritization", "defects">>

At(stage) == plan # <<>> /\ Head(plan) = stage

NoBugs == <<>>

Evidence == BuildEvidence(visited)

Requests == visited # Nothing /\ SawRequests(Evidence)

Known == DefectBehaviors(disc, ctx)

TypeOK ==
  /\ ctx \in Contexts
  /\ disc \in Discoveries \cup {Nothing, Unexplored}
  /\ analysis \in Analyses \cup HandEdits \cup {Nothing}
  /\ suite \in Suites \cup {Nothing}
  /\ prio \in Prioritizations \cup {Nothing}
  /\ visited \in Visits \cup {Nothing}
  /\ plan \in {SubSeq(Stages, i, 5) : i \in 1 .. 6}

-----------------------------------------------------------------------------
(* What the write tool answers: semanticErrorsFor, by artifact.            *)

RequirementsVerdict(a) ==
  IF disc = Nothing THEN {} ELSE AnalysisErrors(disc, a, ctx)

\* A suite is not built on an analysis that no longer fits the discovery.
SuiteVerdict(s) ==
  IF analysis = Nothing THEN Err("MISSING_UPSTREAM", {"$"})
  ELSE IF AnalysisErrors(disc, analysis, ctx) # {} THEN Err("UPSTREAM_INVALID", {"$"})
  ELSE TestCasesErrors(disc, analysis, s, ctx)

PrioritizationVerdict(p) ==
  IF suite = Nothing THEN Err("MISSING_UPSTREAM", {"$"})
  ELSE PrioritizationErrors(disc, analysis, suite, p, ObservedCapabilities(analysis, Requests, ctx), ctx)

\* As the file is re-read: every report it names must be there and hold.
DefectVerdict(found, files) ==
  IF disc = Nothing \/ analysis = Nothing THEN Err("MISSING_UPSTREAM", {"$"})
  ELSE DefectAnalysisErrors(Known, analysis, suite, found, ctx)
       \cup (UNION {IF n \in DOMAIN files
                    THEN BugReportErrors(Known, analysis, suite, files[n], ctx)
                    ELSE Err("INCOMPLETE_DEFECT", {n}) :
                      n \in DOMAIN ReportsOf(found)})

-----------------------------------------------------------------------------
(* Runs.                                                                   *)

Init ==
  /\ ctx \in Contexts
  /\ disc = Nothing /\ analysis = Nothing /\ suite = Nothing
  /\ prio = Nothing /\ defects = Nothing
  /\ visited = Nothing
  /\ bugs = NoBugs /\ fanned = Nothing /\ plan = <<>>

Position(stage) == CHOOSE i \in 1 .. 5 : Stages[i] = stage

\* The artifact of a planned stage is moved into the archive.
Kept(first, stage, artifact) ==
  IF Position(stage) >= Position(first) THEN Nothing ELSE artifact

\* A run starts at a stage whose earlier artifacts are there.  From discovery,
\* or with a coverage flag on its command line, it is configured afresh; in
\* API-only mode it stops without documentation.  The interface is skipped in
\* API-only mode, and in AUTOMATIC mode when there is documentation to go by
\* and the application does not answer: the host then records an empty
\* discovery and moves the earlier browser evidence aside.
StartRun(first) ==
  /\ plan = <<>>
  /\ Position(first) > 1 => disc # Nothing
  /\ Position(first) > 2 => analysis # Nothing
  /\ Position(first) > 3 => suite # Nothing
  /\ Position(first) > 4 => prio # Nothing
  /\ \E c \in Contexts, skip \in BOOLEAN :
       /\ c.mode = "API_ONLY" => c.docs # {}
       /\ skip => first = "discovery" /\ c.docs # {}
       /\ c.mode = "API_ONLY" /\ first = "discovery" => skip
       /\ ctx' = c
       /\ disc' = IF skip THEN Unexplored ELSE Kept(first, "discovery", disc)
       /\ visited' = IF skip THEN Nothing ELSE visited
       /\ plan' = SubSeq(Stages, Position(first) + (IF skip THEN 1 ELSE 0), 5)
  /\ analysis' = Kept(first, "analysis", analysis)
  /\ suite' = Kept(first, "design", suite)
  /\ prio' = Kept(first, "prioritization", prio)
  /\ defects' = Kept(first, "defects", defects)
  /\ bugs' = NoBugs
  /\ UNCHANGED fanned

\* A stage's agent submits its artifact, any number of times.  Whether a
\* discovery is complete is the subject of module Discovery.
WriteDiscovery ==
  /\ At("discovery")
  /\ disc' \in Discoveries
  /\ UNCHANGED <<ctx, analysis, suite, prio, defects, visited, bugs, fanned, plan>>

WriteAnalysis ==
  /\ At("analysis")
  /\ analysis' \in {a \in Analyses : RequirementsVerdict(a) = {}}
  /\ UNCHANGED <<ctx, disc, suite, prio, defects, visited, bugs, fanned, plan>>

WriteSuite ==
  /\ At("design")
  /\ suite' \in {s \in Suites : SuiteVerdict(s) = {}}
  /\ UNCHANGED <<ctx, disc, analysis, prio, defects, visited, bugs, fanned, plan>>

WritePrioritization ==
  /\ At("prioritization")
  /\ prio' \in {p \in Prioritizations : PrioritizationVerdict(p) = {}}
  /\ UNCHANGED <<ctx, disc, analysis, suite, defects, visited, bugs, fanned, plan>>

\* What may be persisted of a submitted defect analysis: its host-owned fields
\* recomputed, every report checked before any file is touched.  The schema of
\* a report asks for a behavior.
Accepted(found) ==
  LET n == Normalised(Known, analysis, found)
  IN /\ DefectAnalysisErrors(Known, analysis, suite, n, ctx) = {}
     /\ \A i \in DOMAIN ReportsOf(n) :
          /\ BugReportErrors(Known, analysis, suite, ReportsOf(n)[i], ctx) = {}
          /\ ReportsOf(n)[i].finding.behaviors # {}

\* The reports replace those under bugs/; the artifact follows.
FanOut ==
  /\ At("defects") /\ fanned = Nothing
  /\ fanned' \in {Normalised(Known, analysis, f) : f \in {g \in DefectFindings : Accepted(g)}}
  /\ bugs' = ReportsOf(fanned')
  /\ UNCHANGED <<ctx, disc, analysis, suite, prio, defects, visited, plan>>

PersistDefects ==
  /\ fanned # Nothing
  /\ defects' = fanned
  /\ fanned' = Nothing
  /\ UNCHANGED <<ctx, disc, analysis, suite, prio, visited, bugs, plan>>

\* A stage has passed when its artifact, written during the stage, validates
\* from disk.
StagePasses(stage) ==
  CASE stage = "analysis" -> analysis # Nothing /\ RequirementsVerdict(analysis) = {}
    [] stage = "design" -> suite # Nothing /\ SuiteVerdict(suite) = {}
    [] stage = "prioritization" -> prio # Nothing /\ PrioritizationVerdict(prio) = {}
    [] stage = "defects" -> /\ defects # Nothing /\ fanned = Nothing
                            /\ DefectVerdict(defects, bugs) = {}

NextStage ==
  /\ plan # <<>> /\ ~At("discovery")
  /\ StagePasses(Head(plan))
  /\ plan' = Tail(plan)
  /\ UNCHANGED <<ctx, disc, analysis, suite, prio, defects, visited, bugs, fanned>>

\* After discovery the host collects the browser's evidence.  Without a browser,
\* without a location to go to, or when its session fails, it does not: that is
\* never fatal, and what is on disk then stays.
DiscoveryDone ==
  /\ At("discovery") /\ disc # Nothing
  /\ visited' \in Visits \cup {visited}
  /\ plan' = Tail(plan)
  /\ UNCHANGED <<ctx, disc, analysis, suite, prio, defects, bugs, fanned>>

\* The run fails, is cancelled or is killed, between any two writes.
Stop ==
  /\ plan # <<>>
  /\ plan' = <<>> /\ fanned' = Nothing
  /\ UNCHANGED <<ctx, disc, analysis, suite, prio, defects, visited, bugs>>

-----------------------------------------------------------------------------
(* People, between runs.                                                   *)

\* A reviewed change is applied: leaving a requirement uncovered is a person's
\* call, nothing else is.
ReplaceAllows == {"UNCOVERED_ACCEPTANCE_POINT"}

ReplaceTestCases ==
  /\ plan = <<>> /\ suite # Nothing
  /\ suite' \in {s \in Suites : \A e \in SuiteVerdict(s) : e[1] \in ReplaceAllows}
  /\ UNCHANGED <<ctx, disc, analysis, prio, defects, visited, bugs, fanned, plan>>

\* The operator's own edit of the file, which no rule is asked about.
EditAnalysis ==
  /\ plan = <<>> /\ analysis # Nothing
  /\ analysis' \in HandEdits
  /\ UNCHANGED <<ctx, disc, suite, prio, defects, visited, bugs, fanned, plan>>

\* A reviewer downgrades a confirmed report; what is written is checked like
\* an artifact.
Downgrade ==
  /\ plan = <<>>
  /\ \E n \in DOMAIN bugs :
       LET bug == [bugs[n] EXCEPT !.status = "POTENTIAL"]
       IN /\ bugs[n].status = "CONFIRMED"
          /\ BugReportErrors(Known, analysis, suite, bug, ctx) = {}
          /\ bugs' = [bugs EXCEPT ![n] = bug]
  /\ UNCHANGED <<ctx, disc, analysis, suite, prio, defects, visited, fanned, plan>>

\* The operator writes a status into a report's file.
EditBug ==
  /\ plan = <<>>
  /\ \E n \in DOMAIN bugs, status \in {"CONFIRMED", "POTENTIAL"} :
       bugs' = [bugs EXCEPT ![n].status = status]
  /\ UNCHANGED <<ctx, disc, analysis, suite, prio, defects, visited, fanned, plan>>

Next ==
  \/ \E i \in 1 .. 5 : StartRun(Stages[i])
  \/ WriteDiscovery \/ WriteAnalysis \/ WriteSuite \/ WritePrioritization
  \/ FanOut \/ PersistDefects
  \/ DiscoveryDone \/ NextStage \/ Stop
  \/ ReplaceTestCases \/ EditAnalysis \/ Downgrade \/ EditBug

Spec == Init /\ [][Next]_vars

-----------------------------------------------------------------------------
(* The approval's inspection.                                              *)

Missing == {i \in 1 .. 5 : artifacts[i] = Nothing}

\* The strategies are not held against what the run observed.
Findings ==
  AnalysisErrors(disc, analysis, ctx)
  \cup TestCasesErrors(disc, analysis, suite, ctx)
  \cup PrioritizationErrors(disc, analysis, suite, prio, Anything, ctx)
  \cup DefectVerdict(defects, bugs)
  \cup Err("INCOMPLETE_DEFECT", DOMAIN bugs \ DOMAIN ReportsOf(defects))

\* A result that can be approved without accepting anything.
Clean == Missing = {} /\ Findings = {}

-----------------------------------------------------------------------------
(* Properties.                                                             *)

\* A result the inspection finds nothing in is traceable end to end, whatever
\* agents submitted, people changed and runs regenerated in between: each
\* behavior discovered is the ground of a requirement or was set aside, and a
\* suspected issue is spoken of in the defect analysis; each requirement this
\* run can test is demonstrated by a case that shares its ground; each case
\* reaches, at most through a requirement, something observed or documented of
\* its own level; and each has exactly one entry in the plan of automation,
\* which never drives a case at API level through a browser
\* (semantic-validate.ts:1198-2138, phase1-gate.ts:147).
CleanIsTraceable ==
  Clean =>
    LET items == analysis.items
        ops   == ApiOperations(ctx)
    IN /\ \A b \in DOMAIN disc :
            /\ b \in analysis.excluded <=> \A r \in DOMAIN items : b \notin items[r].evidence
            /\ disc[b].suspected => \E i \in DOMAIN defects : b \in defects[i].behaviors
       /\ \A r \in DOMAIN items :
            items[r].testable /\ (ctx.mode = "API_ONLY" => items[r].evidence \cap ops # {})
              => \E tc \in suite :
                   /\ r \in tc.covers
                   /\ (tc.evidence \cup RestsOn(analysis, tc)) \cap items[r].evidence # {}
       /\ \A tc \in suite :
            /\ RestsOn(analysis, tc) \cap (IF tc.level = "API" THEN ops ELSE DOMAIN disc) # {}
            /\ \E e \in prio :
                 /\ e.case = tc.id
                 /\ \A f \in prio : f.case = tc.id => f = e
                 /\ tc.level = "API" /\ e.mode = "AUTOMATION" => e.strategy \in {"API", "UNKNOWN", "NONE"}

\* In such a result a bug report that says CONFIRMED, as the analyzer wrote it
\* or a person left it, shows something a run observed of the product and
\* contradicts a requirement that is more than that observation said again:
\* one resting on something confirmed or documented, or on another observation
\* that is not suspect itself (defects.ts:196, defects.ts:360).
ConfirmedIsIndependent ==
  Clean => \A n \in DOMAIN bugs :
    LET f == bugs[n].finding IN
    bugs[n].status = "CONFIRMED" =>
      /\ \E b \in f.behaviors : Known[b].status = "OBSERVED" /\ ~Known[b].aux
      /\ \E r \in f.requirements : \E e \in analysis.items[r].evidence :
           \/ Known[e].status = "CONFIRMED"
           \/ Known[e].status = "OBSERVED" /\ ~Known[e].suspected /\ e \notin f.behaviors

\* What this run was told of the product: by discovery, the documentation and
\* the API's own answers.
Sources ==
  {disc[b].says : b \in DOMAIN disc} \cup {ToldBy[e] : e \in ApiOperations(ctx) \cup AnsweredProbes(ctx)}

Declared == {RequestOf[o] : o \in ApiOperations(ctx)}

Grounded(m) ==
  IF m.as # "REQUEST" THEN m.what \in What(UNION Sources) \cup Routes(Corpus(Sources, {}))
  ELSE IF m.what.path \in {q.path : q \in Declared} THEN m.what \in Declared
  ELSE m.what.path \in Routes(Corpus(Sources, {}))

Hard(text) == {m \in text : m.as \in {"ROUTE", "REQUEST", "FEATURE", "EMAIL"}}

\* Nothing hard is made up on the way: in a result without findings each route,
\* request, feature and account that a requirement, a case or a bug report names
\* was named by discovery, the documentation or a live result, though each is
\* only held up against its neighbours; so is each route and account of a
\* prioritization's reasons, of which no more is asked (semantic-validate.ts:2115),
\* and each text a case claims to read on screen; and no case denies what
\* discovery saw for certain.
\* Names of controls are not included: the plain words of a requirement, which
\* no rule looks at, are enough to back one (semantic-validate.ts:511).
NothingInvented ==
  Clean =>
    LET asked  == UNION {analysis.items[r].says : r \in DOMAIN analysis.items}
        cases  == UNION {tc.says : tc \in suite}
        reported == UNION {bugs[n].finding.expected \cup bugs[n].finding.actual : n \in DOMAIN bugs}
    IN /\ \A m \in Hard(asked \cup cases \cup reported) : Grounded(m)
       /\ \A m \in {x \in asked \cup cases : x.as = "WORDING"} : Grounded(m)
       /\ \A e \in prio : \A m \in {x \in e.says : x.as \in {"ROUTE", "EMAIL"}} : Grounded(m)
       /\ \A m \in asked \cup cases :
            m.as = "LACKS" => \A b \in DOMAIN disc :
              m.what \in What(disc[b].says) => disc[b].status = "INFERRED" \/ ~disc[b].sure

\* An answer in full to what a stage asks, as plain as it can be: a requirement
\* for each operation and each behavior that is evidence by itself, which says
\* the same again; a case for each requirement the run can test, at the level
\* of its ground; an entry for each case that leaves the route open; and one
\* finding that sets every suspicion down as undecided.
Restated(text) == {m \in text : m.as \in {"WORD", "NAME", "FEATURE", "EMAIL"}}

FullAnalysis ==
  LET ops   == ApiOperations(ctx)
      solid == {b \in DOMAIN disc : ~disc[b].suspected /\ disc[b].status # "INFERRED"}
  IN [items |-> [e \in solid \cup ops |->
                   [evidence |-> {e}, testable |-> TRUE, type |-> "UNKNOWN",
                    says |-> Restated(IF e \in solid THEN disc[e].says ELSE ToldBy[e])]],
      excluded |-> DOMAIN disc \ (solid \cup ops)]

FullSuite ==
  {[id |-> r, covers |-> {r}, evidence |-> {r}, types |-> {"positive"}, says |-> analysis.items[r].says,
    level |-> IF analysis.items[r].evidence \cap ApiOperations(ctx) = {} THEN "UI" ELSE "API"] :
     r \in TestableRequirements(analysis, ctx)}

FullPrioritization ==
  {[case |-> tc.id, mode |-> "AUTOMATION", priority |-> "MEDIUM", strategy |-> "UNKNOWN", says |-> {}] :
     tc \in suite}

FullDefects ==
  <<[behaviors |-> {b \in DOMAIN Known : Known[b].suspected}, requirements |-> {}, cases |-> {},
     class |-> "INSUFFICIENT_EVIDENCE", expected |-> {}, actual |-> {}]>>

\* No rule asks for what another forbids: whenever an agent's turn comes and
\* what it builds on is in order, an answer in full is accepted, in every
\* coverage mode and for whatever was accepted before it (qa-artifacts.ts:296).
Answerable ==
  fanned = Nothing =>
    /\ At("analysis") => RequirementsVerdict(FullAnalysis) = {}
    /\ At("design") /\ AnalysisErrors(disc, analysis, ctx) = {} => SuiteVerdict(FullSuite) = {}
    /\ At("prioritization") => PrioritizationVerdict(FullPrioritization) = {}
    /\ At("defects") => Accepted(FullDefects)

\* What a visit told: the requests and loads that failed, the console messages
\* that are no noise, and among these the browser's echoes of a failed request.
FailedIn(v) == {k \in DOMAIN v.network : ~v.network[k].ok}

SpokenIn(v) == {k \in DOMAIN v.console : v.console[k].level # "INFO"}

EchoesIn(v) ==
  {k \in DOMAIN v.console :
     /\ v.console[k].level = "ERROR" /\ v.console[k].text = EchoText
     /\ \E f \in FailedIn(v) : v.network[f].url = v.console[k].source}

Told(v) ==
  CASE v.outcome = "OFF_ORIGIN" -> 0
    [] v.outcome = "UNREACHABLE" -> 1
    [] v.outcome = "HALF_READ" -> Cardinality(SpokenIn(v))
    [] v.outcome = "READ" -> Cardinality(FailedIn(v)) + Cardinality(SpokenIn(v) \ EchoesIn(v))

AllTold(visits) == FoldLeft(LAMBDA n, v : n + Told(v), 0, visits)

\* The evidence on disk loses nothing the browser reported, however pages
\* repeat, echo and overflow: every location asked for is listed, every failed
\* load, failed request and reportable message is an occurrence on the one row
\* of its kind or counted as overflow, only the browser's echo of a recorded
\* request is neither, and something is refused only when a location's rows or
\* all rows are taken (browser-evidence.ts:337, evidence.mjs:57).
EvidenceAccounted ==
  visited # Nothing =>
    LET made == Evidence
        rows == made.findings
    IN /\ \A i, j \in DOMAIN rows : Fingerprint(rows[i].fact) = Fingerprint(rows[j].fact) => i = j
       /\ {made.locations[i].requestedUrl : i \in DOMAIN made.locations}
            = {visited[i].loc : i \in DOMAIN visited}
       /\ AllTold(visited) = TotalFor(made, EvidenceTypes) + made.overflow
       /\ made.overflow > 0 =>
            \/ Len(rows) = MaxFindings
            \/ \E i \in DOMAIN rows :
                 Cardinality({j \in DOMAIN rows : rows[j].fact.loc = rows[i].fact.loc})
                   = MaxFindingsPerLocation

\* The evidence policy of semantic-validate.ts:1261: "suspected issues and
\* inferences never become expected behavior on their own".  A requirement of
\* a result without findings rests on something that is neither.
SolidGround ==
  Clean => \A r \in DOMAIN analysis.items : \E e \in analysis.items[r].evidence :
    Known[e].status # "INFERRED" /\ ~Known[e].suspected

\* qa-artifacts.ts:517: "so the directory always matches the analysis".  The
\* reports of a result without findings are the reports of its analysis.
ReportsMatch ==
  Clean => \A n \in DOMAIN bugs : bugs[n].finding = ReportsOf(defects)[n].finding

-----------------------------------------------------------------------------
(* The inductive invariant: what is on disk, what of a report a person     *)
(* cannot have changed, and that a stage finds what it builds on.          *)

IsPersisted(found) ==
  /\ found \in Seq({found[i] : i \in DOMAIN found})
  /\ \A i \in DOMAIN found : IsText(found[i].expected \cup found[i].actual)

IsReport(bug) ==
  /\ DOMAIN bug = {"status", "finding"}
  /\ IsText(bug.finding.expected \cup bug.finding.actual)

Upstream ==
  \A i \in 1 .. 5 : plan = SubSeq(Stages, i, 5) => \A k \in 1 .. i - 1 : artifacts[k] # Nothing

IInv ==
  /\ TypeOK
  /\ Upstream
  /\ \A found \in {defects, fanned} : found # Nothing => IsPersisted(found)
  /\ \A n \in DOMAIN bugs : IsReport(bugs[n])
=============================================================================
