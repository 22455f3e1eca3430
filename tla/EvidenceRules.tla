---------------------------- MODULE EvidenceRules ----------------------------
(***************************************************************************)
(* The rules a Phase 1 artifact is judged by against the artifacts it      *)
(* rests on (src/src/lib/semantic-validate.ts, src/src/lib/defects.ts).    *)
(* The rules are pure: each takes artifacts and the coverage context and   *)
(* returns the set of errors found, an error being <<code, place>>.        *)
(*                                                                         *)
(* A discovery is a function from behavior ids to                          *)
(*   [status, suspected, aux, sure, says];                                 *)
(* an analysis is [items, excluded], items a function from requirement ids *)
(* to [evidence, testable, type, says];                                    *)
(* a suite is a set of cases [id, covers, evidence, level, types, says];   *)
(* a prioritization is a set of entries                                    *)
(*   [case, mode, priority, strategy, says];                               *)
(* a defect analysis is a sequence of findings [behaviors, requirements,   *)
(*   cases, class, expected, actual] with a basis once normalised;         *)
(* a context is [mode, docs, probes, violations]: the operations the       *)
(* documentation declares, the probes the API answered and those of them   *)
(* that contradicted the documentation.                                    *)
(*                                                                         *)
(* What an artifact says in prose is a text of TextRules; the texts of one *)
(* item are taken together (a behavior's with its area's name and routes,  *)
(* a case's title with its steps and its data, a report's title and steps  *)
(* with what it says happened).  Risks, open questions and an area's notes *)
(* are left out.  Acceptance points and business rules are both            *)
(* requirements.                                                           *)
(***************************************************************************)
EXTENDS Naturals, Sequences, TextRules

IsBehavior(b) ==
  /\ DOMAIN b = {"status", "suspected", "aux", "sure", "says"}
  /\ b.status \in {"CONFIRMED", "OBSERVED", "INFERRED"}
  /\ {b.suspected, b.aux, b.sure} \subseteq BOOLEAN
  /\ IsText(b.says)

\* An item without a type is undecided, which is allowed.
IsRequirement(r) ==
  /\ DOMAIN r = {"evidence", "testable", "type", "says"}
  /\ r.testable \in BOOLEAN
  /\ r.type \in {"UI", "API", "VISUAL", "CONTRACT", "MANUAL", "UNKNOWN", "NONE"}
  /\ IsText(r.says)

IsCase(tc) ==
  /\ DOMAIN tc = {"id", "covers", "evidence", "level", "types", "says"}
  /\ tc.level \in {"UI", "API", "NONE"}
  /\ IsText(tc.says)

\* How a case would be automated, as distinct from whether and when.
IsEntry(e) ==
  /\ DOMAIN e = {"case", "mode", "priority", "strategy", "says"}
  /\ e.mode \in {"AUTOMATION", "MANUAL"}
  /\ e.priority \in {"HIGH", "MEDIUM", "LOW", "NONE"}
  /\ e.strategy \in {"UI", "API", "UI_API", "VISUAL", "MANUAL", "UNKNOWN", "NONE"}
  /\ IsText(e.says)

Classifications == {"CONFIRMED_DEFECT", "POTENTIAL_DEFECT", "NOT_A_DEFECT", "INSUFFICIENT_EVIDENCE"}

IsFinding(f) ==
  /\ DOMAIN f = {"behaviors", "requirements", "cases", "class", "expected", "actual"}
  /\ f.class \in Classifications
  /\ IsText(f.expected \cup f.actual)

IsContext(c) ==
  /\ c.mode \in {"AUTOMATIC", "UI_ONLY", "API_ONLY"}
  /\ c.violations \subseteq c.probes
  /\ c.docs = {} => c.probes = {}

UsesApiDocs(mode) == mode # "UI_ONLY"

\* The documented operations a run may cite as evidence.
ApiOperations(ctx) == IF UsesApiDocs(ctx.mode) THEN ctx.docs ELSE {}

AllowedTestLevels(mode) ==
  CASE mode = "UI_ONLY" -> {"UI"}
    [] mode = "API_ONLY" -> {"API"}
    [] OTHER -> {"UI", "API"}

\* A case that states no level is UI.
TestLevelOf(tc) == IF tc.level = "API" THEN "API" ELSE "UI"

\* The probes the API answered, where there is documentation for them.
AnsweredProbes(ctx) == IF ApiOperations(ctx) = {} THEN {} ELSE ctx.probes

NoItems == [r \in {} |-> {}]

\* What was observed, documented and answered, what requirements were derived
\* from it, and further texts a rule allows.
BuildCorpus(d, items, extra, ctx) ==
  Corpus({d[b].says : b \in DOMAIN d} \cup {items[r].says : r \in DOMAIN items} \cup extra
           \cup {ToldBy[e] : e \in ApiOperations(ctx) \cup AnsweredProbes(ctx)},
         ApiOperations(ctx))

-----------------------------------------------------------------------------
(* Requirements against discovery.                                         *)

Cited(analysis) == UNION {analysis.items[r].evidence : r \in DOMAIN analysis.items}

\* A suspected issue or an inference never becomes expected behavior on its
\* own; a documented operation is its own support.
NotEvidence(d, r, ctx) ==
  LET seen == r.evidence \cap DOMAIN d
  IN /\ seen # {}
     /\ r.evidence \cap ApiOperations(ctx) = {}
     /\ \/ \A b \in seen : d[b].suspected
        \/ \A b \in seen : d[b].status = "INFERRED"

\* A requirement's statement: on the subject of what it cites, and naming
\* nothing discovery or the documentation does not.
MutantStatementErrors(d, r, ctx) ==
  LET cited == {d[e].says : e \in r.evidence \cap DOMAIN d}
               \cup {ToldBy[e] : e \in r.evidence \cap ApiOperations(ctx)}
      own   == BuildCorpus(d, [i \in {"own"} |-> r], {}, ctx)
  IN (IF SaysNothingOf(r.says, cited) THEN {"EVIDENCE_MISMATCH"} ELSE {})
     \cup Invented(r.says, own)
     \cup (IF Contradicts(r.says, d) THEN {"CONTRADICTS_UPSTREAM"} ELSE {})

StatementErrors(d, r, ctx) ==
  LET cited == {d[e].says : e \in r.evidence \cap DOMAIN d}
               \cup {ToldBy[e] : e \in r.evidence \cap ApiOperations(ctx)}
  IN (IF SaysNothingOf(r.says, cited) THEN {"EVIDENCE_MISMATCH"} ELSE {})
     \cup Invented(r.says, BuildCorpus(d, NoItems, {}, ctx))
     \cup (IF Contradicts(r.says, d) THEN {"CONTRADICTS_UPSTREAM"} ELSE {})

RequirementErrors(d, r, ctx) ==
  Err("UNKNOWN_EVIDENCE_ID", r.evidence \ (DOMAIN d \cup ApiOperations(ctx)))
  \cup (IF r.evidence = {} THEN Err("MISSING_EVIDENCE", {"evidenceIds"}) ELSE {})
  \cup (IF NotEvidence(d, r, ctx) THEN Err("NOT_EVIDENCE", {"evidenceIds"}) ELSE {})
  \cup (IF ~r.testable /\ r.type \notin {"MANUAL", "UNKNOWN", "NONE"}
        THEN Err("CONTRADICTORY_VALIDATION_TYPE", {"validationType"}) ELSE {})
  \cup {<<code, "statement">> : code \in StatementErrors(d, r, ctx)}

\* Completeness: no discovered behavior may vanish.
Vanished(d, analysis) == DOMAIN d \ (Cited(analysis) \cup analysis.excluded)

AnalysisErrors(d, analysis, ctx) ==
  (UNION {RequirementErrors(d, analysis.items[r], ctx) : r \in DOMAIN analysis.items})
  \cup Err("UNKNOWN_BEHAVIOR_REFERENCE",
           (analysis.excluded \ DOMAIN d) \cup (analysis.excluded \cap Cited(analysis)))
  \cup Err("UNANALYZED_BEHAVIOR", Vanished(d, analysis))

-----------------------------------------------------------------------------
(* The suite against requirements and discovery.                           *)

\* Can this run's coverage mode test the requirement at all?
MutantInCoverageScope(r, ctx) == TRUE

InCoverageScope(r, ctx) ==
  ctx.mode = "API_ONLY" => r.evidence \cap ApiOperations(ctx) # {}

TestableRequirements(analysis, ctx) ==
  {r \in DOMAIN analysis.items :
     analysis.items[r].testable /\ InCoverageScope(analysis.items[r], ctx)}

\* What a case ultimately rests on: what it cites, and what the
\* requirements it cites rest on.
RestsOn(analysis, tc) ==
  UNION {IF e \in DOMAIN analysis.items THEN analysis.items[e].evidence ELSE {e} :
           e \in tc.evidence}

\* A claim of coverage that is asserted and not traceable.
MutantNotEvidenced(analysis, tc) ==
  {r \in tc.covers \cap DOMAIN analysis.items : tc.evidence = {}}

NotEvidenced(analysis, tc) ==
  {r \in tc.covers \cap DOMAIN analysis.items :
     r \notin tc.evidence /\ tc.evidence \cap analysis.items[r].evidence = {}}

LevelErrors(d, analysis, tc, ctx) ==
  LET onApi      == RestsOn(analysis, tc) \cap ApiOperations(ctx) # {}
      onBehavior == RestsOn(analysis, tc) \cap DOMAIN d # {}
      level      == TestLevelOf(tc)
  IN IF level \notin AllowedTestLevels(ctx.mode) THEN {"TEST_LEVEL_OUT_OF_MODE"}
     ELSE IF IF level = "API" THEN ~onApi ELSE onApi /\ ~onBehavior
     THEN {"UNSUPPORTED_TEST_LEVEL"}
     ELSE {}

\* The texts a case's evidence speaks with: the requirements and what they
\* rest on, behaviors and operations.
EvidenceTexts(d, analysis, tc, ctx) ==
  {analysis.items[r].says : r \in tc.evidence \cap DOMAIN analysis.items}
  \cup {d[b].says : b \in RestsOn(analysis, tc) \cap DOMAIN d}
  \cup {ToldBy[o] : o \in RestsOn(analysis, tc) \cap ApiOperations(ctx)}

CaseTextErrors(d, analysis, tc, ctx) ==
  (IF SaysNothingOf(tc.says, EvidenceTexts(d, analysis, tc, ctx)) THEN {"EVIDENCE_MISMATCH"} ELSE {})
  \cup Invented(tc.says, BuildCorpus(d, analysis.items, {}, ctx))
  \cup (IF Contradicts(tc.says, d) THEN {"CONTRADICTS_UPSTREAM"} ELSE {})

CaseErrors(d, analysis, tc, ctx) ==
  {<<code, tc.id>> : code \in
     LevelErrors(d, analysis, tc, ctx) \cup CaseTextErrors(d, analysis, tc, ctx)
     \cup (IF tc.covers = {} THEN {"MISSING_COVERAGE"} ELSE {})
     \cup (IF tc.covers \subseteq DOMAIN analysis.items THEN {} ELSE {"UNKNOWN_COVERAGE_ID"})
     \cup (IF NotEvidenced(analysis, tc) = {} THEN {} ELSE {"COVERAGE_NOT_EVIDENCED"})
     \cup (IF tc.evidence = {} THEN {"MISSING_EVIDENCE"} ELSE {})
     \cup (IF tc.evidence \subseteq DOMAIN analysis.items \cup DOMAIN d \cup ApiOperations(ctx)
           THEN {} ELSE {"UNKNOWN_EVIDENCE_ID"})}

Uncovered(analysis, suite, ctx) ==
  TestableRequirements(analysis, ctx) \ (UNION {tc.covers : tc \in suite})

\* The same scenario written once per level.
AcrossLevels(suite, ctx) ==
  {tc.id : tc \in {t \in suite :
     /\ Cardinality(AllowedTestLevels(ctx.mode)) > 1
     /\ t.covers # {}
     /\ \E u \in suite : /\ u.covers = t.covers /\ u.types = t.types
                         /\ TestLevelOf(u) # TestLevelOf(t)}}

DuplicateIds(suite) ==
  {tc.id : tc \in {t \in suite : \E u \in suite : u.id = t.id /\ u # t}}

TestCasesErrors(d, analysis, suite, ctx) ==
  (UNION {CaseErrors(d, analysis, tc, ctx) : tc \in suite})
  \cup Err("DUPLICATE_ID", DuplicateIds(suite))
  \cup Err("UNCOVERED_ACCEPTANCE_POINT", Uncovered(analysis, suite, ctx))
  \cup Err("DUPLICATE_ACROSS_LEVELS", AcrossLevels(suite, ctx))

-----------------------------------------------------------------------------
(* The automation prioritization against the suite.                        *)

\* Which automation routes the run has seen evidence for; requests says
\* whether the browser's evidence on disk recorded an HTTP request.
ObservedCapabilities(analysis, requests, ctx) ==
  LET typed == {analysis.items[r].type : r \in DOMAIN analysis.items}
  IN [api |-> /\ ctx.mode # "UI_ONLY"
              /\ \/ typed \cap {"API", "CONTRACT"} # {}
                 \/ requests
                 \/ ApiOperations(ctx) # {},
      visual |-> "VISUAL" \in typed]

StrategyConflicts ==
  [MANUAL |-> {"UI", "API", "UI_API", "VISUAL"}, AUTOMATION |-> {"MANUAL"}]

LevelConflicts == [API |-> {"UI", "UI_API", "VISUAL"}, UI |-> {"API"}, NONE |-> {}]

\* The level a case states; a suite from before levels states none.
StatedLevel(suite, id) ==
  IF \E tc \in suite : tc.id = id THEN (CHOOSE tc \in suite : tc.id = id).level ELSE "NONE"

EntryErrors(suite, e, able) ==
  {<<code, e.case>> : code \in
     (IF \E tc \in suite : tc.id = e.case THEN {} ELSE {"UNKNOWN_TEST_CASE"})
     \cup (IF \/ e.mode = "MANUAL" /\ e.priority = "HIGH"
              \/ e.mode = "AUTOMATION" /\ e.priority = "NONE"
           THEN {"INCONSISTENT_PRIORITY"} ELSE {})
     \cup (IF \/ e.strategy \in StrategyConflicts[e.mode]
              \/ /\ e.mode = "AUTOMATION"
                 /\ e.strategy \in LevelConflicts[StatedLevel(suite, e.case)]
           THEN {"CONTRADICTORY_STRATEGY"} ELSE {})
     \cup (IF \/ e.strategy \in {"API", "UI_API"} /\ ~able.api
              \/ e.strategy = "VISUAL" /\ ~able.visual
           THEN {"UNSUPPORTED_STRATEGY"} ELSE {})}

EntriesOf(prio, id) == {e \in prio : e.case = id}

\* A caller that did not work the capabilities out skips their check.
Anything == [api |-> TRUE, visual |-> TRUE]

\* Reasons are judgements: an invented route or account is wrong all the same.
ReasonErrors(d, analysis, suite, e, ctx) ==
  {<<code, e.case>> : code \in
     InventedHardFact(e.says, BuildCorpus(d, analysis.items, {tc.says : tc \in suite}, ctx))}

PrioritizationErrors(d, analysis, suite, prio, able, ctx) ==
  (UNION {EntryErrors(suite, e, able) \cup ReasonErrors(d, analysis, suite, e, ctx) : e \in prio})
  \cup Err("DUPLICATE_PRIORITIZATION",
           {tc.id : tc \in {t \in suite : Cardinality(EntriesOf(prio, t.id)) > 1}})
  \cup Err("MISSING_PRIORITIZATION",
           {tc.id : tc \in {t \in suite : EntriesOf(prio, t.id) = {}}})

-----------------------------------------------------------------------------
(* Defect findings and bug reports.                                        *)

IsDefect(class) == class \in {"CONFIRMED_DEFECT", "POTENTIAL_DEFECT"}

\* What a finding may cite as behavior: what discovery saw, each documented
\* operation as a confirmed behavior, each answered probe as an observed one.
DefectBehaviors(d, ctx) ==
  LET ops == ApiOperations(ctx)
      Api(b, status) == [status |-> status, suspected |-> b \in ctx.violations, aux |-> FALSE,
                         sure |-> TRUE, says |-> ToldBy[b]]
  IN [b \in DOMAIN d \cup ops \cup AnsweredProbes(ctx) |->
        IF b \in DOMAIN d THEN d[b]
        ELSE Api(b, IF b \in ops THEN "CONFIRMED" ELSE "OBSERVED")]

\* What the expectation of a finding rests on, derived by the host.
MutantExpectedBasisOf(known, analysis, f) ==
  LET reqs    == f.requirements \cap DOMAIN analysis.items
      support == (UNION {analysis.items[r].evidence : r \in reqs}) \cap DOMAIN known
  IN IF reqs = {} THEN "NONE"
     ELSE IF \E b \in support : known[b].status = "CONFIRMED" THEN "CONFIRMED_REQUIREMENT"
     ELSE IF \E b \in support : known[b].status = "OBSERVED" /\ ~known[b].suspected
          THEN "EVIDENCED_REQUIREMENT"
     ELSE "INFERRED"

ExpectedBasisOf(known, analysis, f) ==
  LET reqs    == f.requirements \cap DOMAIN analysis.items
      support == (UNION {analysis.items[r].evidence : r \in reqs}) \cap DOMAIN known
  IN IF reqs = {} THEN "NONE"
     ELSE IF \E b \in support : known[b].status = "CONFIRMED" THEN "CONFIRMED_REQUIREMENT"
     ELSE IF \E b \in support : /\ known[b].status = "OBSERVED" /\ ~known[b].suspected
                                /\ b \notin f.behaviors
          THEN "EVIDENCED_REQUIREMENT"
     ELSE "INFERRED"

SupportedBasis == {"CONFIRMED_REQUIREMENT", "EVIDENCED_REQUIREMENT"}

SourceErrors(known, analysis, suite, f) ==
  Err("UNKNOWN_EVIDENCE_ID", (f.behaviors \ DOMAIN known)
                             \cup (f.requirements \ DOMAIN analysis.items))
  \cup Err("UNKNOWN_TEST_CASE", f.cases \ {tc.id : tc \in suite})

\* Does a defect have a product actual, and does the evidence allow its class?
ThresholdErrors(known, analysis, f, confirmed, ctx) ==
  LET observed == {b \in f.behaviors \cap DOMAIN known : known[b].status = "OBSERVED"}
      probes   == f.behaviors \cap ctx.probes
  IN {<<code, f.behaviors>> : code \in
        (IF observed = {} THEN {"UNOBSERVED_ACTUAL"} ELSE {})
        \cup (IF observed # {} /\ \A b \in observed : known[b].aux
              THEN {"AUXILIARY_AS_PRODUCT"} ELSE {})
        \cup (IF /\ confirmed
                 /\ \/ /\ probes # {}
                       /\ Cardinality(probes) = Cardinality(observed)
                       /\ probes \cap ctx.violations = {}
                    \/ ExpectedBasisOf(known, analysis, f) \notin SupportedBasis
              THEN {"UNSUPPORTED_EXPECTED"} ELSE {})}

\* Expected against actual: each on its subject, not the same, and neither
\* naming anything the evidence and the cited cases do not.
DefectTextErrors(known, analysis, suite, f, ctx) ==
  LET cases   == {tc.says : tc \in {t \in suite : t.id \in f.cases}}
      actuals == {known[b].says : b \in {c \in f.behaviors \cap DOMAIN known :
                                           known[c].status = "OBSERVED" /\ ~known[c].aux}}
      asked   == {analysis.items[r].says : r \in f.requirements \cap DOMAIN analysis.items}
  IN {<<code, f.behaviors>> : code \in
        Invented(f.expected \cup f.actual, BuildCorpus(known, analysis.items, cases, ctx))
        \cup (IF \/ SaysNothingOf(f.actual, actuals)
                 \/ ExpectedBasisOf(known, analysis, f) \in SupportedBasis
                    /\ SaysNothingOf(f.expected, asked)
              THEN {"EVIDENCE_MISMATCH"} ELSE {})
        \cup (IF f.expected = f.actual THEN {"INCOMPLETE_DEFECT"} ELSE {})}

\* Two defects that cite one observed behavior are one defect.
DuplicateDefects(known, found) ==
  {j \in 1 .. Len(found) :
     /\ IsDefect(found[j].class)
     /\ \E i \in 1 .. j - 1 :
          /\ IsDefect(found[i].class)
          /\ \E b \in found[i].behaviors \cap found[j].behaviors \cap DOMAIN known :
               known[b].status = "OBSERVED"}

\* Nothing discovery flagged may be quietly dropped.
Unanalyzed(known, found) ==
  {b \in DOMAIN known : known[b].suspected} \ (UNION {found[i].behaviors : i \in 1 .. Len(found)})

Normalised(known, analysis, found) ==
  [i \in 1 .. Len(found) |->
     [class |-> found[i].class, behaviors |-> found[i].behaviors,
      requirements |-> found[i].requirements, cases |-> found[i].cases,
      expected |-> found[i].expected, actual |-> found[i].actual,
      basis |-> ExpectedBasisOf(known, analysis, found[i])]]

FindingErrors(known, analysis, suite, f, ctx) ==
  SourceErrors(known, analysis, suite, f)
  \cup (IF f.behaviors = {} /\ f.class # "INSUFFICIENT_EVIDENCE"
        THEN Err("MISSING_EVIDENCE", {"sourceBehaviorIds"}) ELSE {})
  \cup (IF IsDefect(f.class)
        THEN ThresholdErrors(known, analysis, f, f.class = "CONFIRMED_DEFECT", ctx)
             \cup DefectTextErrors(known, analysis, suite, f, ctx) ELSE {})
  \cup (IF IF IsDefect(f.class) THEN {} \in {f.expected, f.actual}
           ELSE f.expected \cup f.actual # {}
        THEN Err("INCOMPLETE_DEFECT", {f.behaviors}) ELSE {})
  \cup (IF f.basis # ExpectedBasisOf(known, analysis, f)
        THEN Err("EVIDENCE_MISMATCH", {"expectedBasis"}) ELSE {})

\* A normalised analysis, as written and as re-read from disk.
DefectAnalysisErrors(known, analysis, suite, found, ctx) ==
  (UNION {FindingErrors(known, analysis, suite, found[i], ctx) : i \in 1 .. Len(found)})
  \cup Err("DUPLICATE_DEFECT", DuplicateDefects(known, found))
  \cup Err("UNANALYZED_SUSPECTED_ISSUE", Unanalyzed(known, found))

\* The number a finding's report is given: reports are numbered in finding order.
ReportNumber(found, i) == Cardinality({j \in 1 .. i : IsDefect(found[j].class)})

ReportsOf(found) ==
  LET defects == {i \in 1 .. Len(found) : IsDefect(found[i].class)}
  IN [n \in 1 .. Cardinality(defects) |->
        LET f == found[CHOOSE i \in defects : ReportNumber(found, i) = n]
        IN [status |-> IF f.class = "CONFIRMED_DEFECT" THEN "CONFIRMED" ELSE "POTENTIAL",
            finding |-> f]]

\* A bug report on its own, as written or after a person edited it.
BugReportErrors(known, analysis, suite, bug, ctx) ==
  SourceErrors(known, analysis, suite, bug.finding)
  \cup ThresholdErrors(known, analysis, bug.finding, bug.status = "CONFIRMED", ctx)
  \cup DefectTextErrors(known, analysis, suite, bug.finding, ctx)
  \cup (IF bug.finding.basis # ExpectedBasisOf(known, analysis, bug.finding)
        THEN Err("EVIDENCE_MISMATCH", {"expectedBasis"}) ELSE {})
=============================================================================
