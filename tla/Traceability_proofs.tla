-------------------------- MODULE Traceability_proofs --------------------------
(***************************************************************************)
(* Proofs about the artifacts of Phase 1, for any candidates that pass     *)
(* their schemas.  What a result without findings shows follows from what  *)
(* it means for each rule to find nothing, whatever was written, changed   *)
(* or regenerated on the way; IInv adds that texts are what extraction     *)
(* makes of them, which a person's edit of a report cannot change.  What   *)
(* the collector makes of a browser's logs is the invariant of two folds.  *)
(***************************************************************************)
EXTENDS Traceability, FiniteSetTheorems, FunctionTheorems, SequenceTheorems, TLAPS

-----------------------------------------------------------------------------
(* Texts: what it means for the rules of TextRules to find nothing.        *)

LEMMA SupportedMeans ==
  ASSUME NEW m, NEW corpus, Supported(m, corpus)
  PROVE  /\ m.as \in {"NAME", "SECRET", "EMAIL", "FEATURE"} => Heard(m.what, corpus)
         /\ m.as = "WORDING" => WasQuoted(m.what, corpus)
         /\ m.as = "ROUTE" => m.what \in Routes(corpus)
         /\ m.as = "REQUEST" => m.what.path \in Routes(corpus) /\ MethodDeclared(m.what, corpus)
  BY DEF Supported

LEMMA NothingMadeUp ==
  ASSUME NEW text, NEW corpus, Invented(text, corpus) = {}
  PROVE  \A m \in text : Supported(m, corpus)
  BY DEF Invented

LEMMA NothingHardMadeUp ==
  ASSUME NEW text, NEW corpus, InventedHardFact(text, corpus) = {}
  PROVE  \A m \in text : /\ m.as = "EMAIL" => Heard(m.what, corpus)
                         /\ m.as = "ROUTE" => m.what \in Routes(corpus)
  BY DEF InventedHardFact

\* A denial that contradicts nothing denies nothing seen for certain.
LEMMA NothingDenied ==
  ASSUME NEW text, NEW d, ~Contradicts(text, d),
         NEW m \in text, m.as = "LACKS", NEW b \in DOMAIN d, m.what \in What(d[b].says)
  PROVE  d[b].status = "INFERRED" \/ ~d[b].sure
  <1> SUFFICES ASSUME d[b].status # "INFERRED", d[b].sure PROVE FALSE
    OBVIOUS
  <1>1. PICK x \in d[b].says : m.what = x.what
    BY DEF What
  <1>2. x \in UNION {d[c].says : c \in {e \in DOMAIN d : d[e].status # "INFERRED" /\ d[e].sure}}
    OBVIOUS
  <1>3. QED
    BY <1>1, <1>2 DEF Contradicts, Observations, What

\* The hard facts of a text; a case's wording is none, having rules of its own.
HardForms == {"ROUTE", "REQUEST", "FEATURE", "EMAIL"}

\* A corpus made of another one and of texts that were themselves held up
\* against that one: what it backs of hard facts the other backs.
Extends(wide, base, texts) ==
  /\ wide.said \subseteq base.said \cup UNION texts
  /\ wide.requests = base.requests
  /\ \A t \in texts : IsText(t) /\ \A x \in t : x.as \in HardForms => Supported(x, base)

LEMMA RoutesCarried ==
  ASSUME NEW base, NEW wide, NEW texts, Extends(wide, base, texts)
  PROVE  Routes(wide) \subseteq Routes(base)
  <1> SUFFICES ASSUME NEW route \in Routes(wide) PROVE route \in Routes(base)
    OBVIOUS
  <1>1. CASE \E q \in wide.requests : route = q.path
    BY <1>1 DEF Extends, Routes
  <1>2. CASE \E x \in wide.said : \/ x.as = "ROUTE" /\ route = x.what
                                  \/ x.as = "REQUEST" /\ route = x.what.path
    <2>1. PICK x \in wide.said : \/ x.as = "ROUTE" /\ route = x.what
                                 \/ x.as = "REQUEST" /\ route = x.what.path
      BY <1>2
    <2>2. CASE x \in base.said
      BY <2>1, <2>2 DEF Routes
    <2>3. CASE \E t \in texts : x \in t
      <3>1. Supported(x, base)
        BY <2>1, <2>3 DEF Extends, HardForms
      <3>2. QED
        BY <2>1, <3>1, SupportedMeans
    <2>4. QED
      BY <2>2, <2>3 DEF Extends
  <1>3. QED
    BY <1>1, <1>2 DEF Routes

LEMMA HeardCarried ==
  ASSUME NEW base, NEW wide, NEW texts, Extends(wide, base, texts),
         NEW what, what \in Features \cup Addresses, Heard(what, wide)
  PROVE  Heard(what, base)
  <1>1. PICK x \in wide.said : x.what = what
    BY DEF Heard, What
  <1>2. CASE x \in base.said
    BY <1>1, <1>2 DEF Heard, What
  <1>3. CASE \E t \in texts : x \in t
    <2>1. PICK t \in texts : x \in t
      BY <1>3
    <2>2. PICK form \in {"FEATURE", "EMAIL"} : [as |-> form, what |-> what] \in t
      BY <1>1, <2>1 DEF Extends, IsText, FoundAs
    <2>3. Supported([as |-> form, what |-> what], base)
      BY <2>1, <2>2 DEF Extends, HardForms
    <2>4. QED
      BY <2>2, <2>3, SupportedMeans
  <1>4. QED
    BY <1>1, <1>2, <1>3 DEF Extends

LEMMA HardCarried ==
  ASSUME NEW base, NEW wide, NEW texts, Extends(wide, base, texts),
         NEW text, IsText(text), NEW m \in text, m.as \in HardForms, Supported(m, wide)
  PROVE  Supported(m, base)
  <1>1. CASE m.as \in {"FEATURE", "EMAIL"}
    <2>1. m.what \in Features \cup Addresses
      BY <1>1 DEF IsText, FoundAs
    <2>2. Heard(m.what, base)
      BY <1>1, <2>1, HeardCarried, SupportedMeans
    <2>3. QED
      BY <1>1, <2>2 DEF Supported
  <1>2. CASE m.as = "ROUTE"
    <2>1. m.what \in Routes(base)
      BY <1>2, RoutesCarried, SupportedMeans
    <2>2. QED
      BY <1>2, <2>1 DEF Supported
  <1>3. CASE m.as = "REQUEST"
    <2>1. m.what.path \in Routes(base)
      BY <1>3, RoutesCarried, SupportedMeans
    <2>2. MethodDeclared(m.what, base)
      BY <1>3, SupportedMeans DEF MethodDeclared, Extends
    <2>3. QED
      BY <1>3, <2>1, <2>2 DEF Supported
  <1>4. QED
    BY <1>1, <1>2, <1>3 DEF HardForms

\* Wording needs a quotation, and what is quoted in a text that is itself
\* supported is at least spoken of in what supports it.
LEMMA WordingCarried ==
  ASSUME NEW base, NEW wide, NEW texts, wide.said \subseteq base.said \cup UNION texts,
         \A t \in texts : \A x \in t : Supported(x, base),
         NEW m, m.as = "WORDING", Supported(m, wide)
  PROVE  Heard(m.what, base)
  <1>1. PICK x \in wide.said : x.what = m.what /\ x.as \in Quoted
    BY SupportedMeans DEF WasQuoted
  <1>2. CASE x \in base.said
    BY <1>1, <1>2 DEF Heard, What
  <1>3. CASE \E t \in texts : x \in t
    <2>1. Supported(x, base)
      BY <1>3
    <2>2. CASE x.as = "WORDING"
      <3>1. PICK y \in base.said : y.what = x.what
        BY <2>1, <2>2, SupportedMeans DEF WasQuoted
      <3>2. QED
        BY <1>1, <3>1 DEF Heard, What
    <2>3. CASE x.as \in {"NAME", "SECRET"}
      BY <1>1, <2>1, <2>3, SupportedMeans
    <2>4. QED
      BY <1>1, <2>2, <2>3 DEF Quoted
  <1>4. QED
    BY <1>2, <1>3

-----------------------------------------------------------------------------
(* The corpora of the rules.  Base is what a run was told of the product.  *)

Base(d, c) == BuildCorpus(d, NoItems, {}, c)

Statements(items) == {items[r].says : r \in DOMAIN items}

LEMMA CorpusSays ==
  ASSUME NEW d, NEW items, NEW extra, NEW c
  PROVE  BuildCorpus(d, items, extra, c).said
           = UNION ({d[b].says : b \in DOMAIN d} \cup Statements(items) \cup extra
                    \cup {ToldBy[e] : e \in ApiOperations(c) \cup AnsweredProbes(c)})
  BY DEF BuildCorpus, Corpus, Statements

LEMMA CorpusRequests ==
  ASSUME NEW d, NEW items, NEW extra, NEW c
  PROVE  BuildCorpus(d, items, extra, c).requests = {RequestOf[o] : o \in ApiOperations(c)}
  BY DEF BuildCorpus, Corpus

LEMMA BaseSays ==
  ASSUME NEW d, NEW c
  PROVE  Base(d, c).said = UNION ({d[b].says : b \in DOMAIN d}
                                  \cup {ToldBy[e] : e \in ApiOperations(c) \cup AnsweredProbes(c)})
  <1>1. Statements(NoItems) = {}
    BY DEF Statements, NoItems
  <1>2. QED
    BY <1>1, CorpusSays DEF Base

LEMMA SameRequests ==
  ASSUME NEW d, NEW known, NEW items, NEW extra, NEW c
  PROVE  BuildCorpus(known, items, extra, c).requests = Base(d, c).requests
  <1>1. BuildCorpus(known, items, extra, c).requests = {RequestOf[o] : o \in ApiOperations(c)}
    BY CorpusRequests
  <1>2. Base(d, c).requests = {RequestOf[o] : o \in ApiOperations(c)}
    BY CorpusRequests DEF Base
  <1>3. QED
    BY <1>1, <1>2

LEMMA WiderCorpus ==
  ASSUME NEW d, NEW items, NEW extra, NEW c
  PROVE  /\ BuildCorpus(d, items, extra, c).said
              \subseteq Base(d, c).said \cup UNION (Statements(items) \cup extra)
         /\ BuildCorpus(d, items, extra, c).requests = Base(d, c).requests
  <1> DEFINE seen == {d[b].says : b \in DOMAIN d}
             told == {ToldBy[e] : e \in ApiOperations(c) \cup AnsweredProbes(c)}
  <1>1. BuildCorpus(d, items, extra, c).said = UNION (seen \cup Statements(items) \cup extra \cup told)
    BY CorpusSays
  <1>2. Base(d, c).said = UNION (seen \cup told)
    BY BaseSays
  <1>3. BuildCorpus(d, items, extra, c).requests = Base(d, c).requests
    BY SameRequests
  <1> HIDE DEF seen, told
  <1>4. QED
    BY <1>1, <1>2, <1>3

\* What a finding may cite says nothing else than what the run was told.
LEMMA KnownCorpus ==
  ASSUME NEW d, NEW items, NEW extra, NEW c
  PROVE  /\ BuildCorpus(DefectBehaviors(d, c), items, extra, c).said
              \subseteq Base(d, c).said \cup UNION (Statements(items) \cup extra)
         /\ BuildCorpus(DefectBehaviors(d, c), items, extra, c).requests = Base(d, c).requests
  <1> DEFINE known == DefectBehaviors(d, c)
  <1>1. DOMAIN known = DOMAIN d \cup ApiOperations(c) \cup AnsweredProbes(c)
    BY DEF DefectBehaviors
  <1>2. \A b \in DOMAIN known : \/ b \in DOMAIN d /\ known[b].says = d[b].says
                                \/ b \in ApiOperations(c) \cup AnsweredProbes(c) /\ known[b].says = ToldBy[b]
    BY DEF DefectBehaviors
  <1> HIDE DEF known
  <1>3. UNION {known[b].says : b \in DOMAIN known} \subseteq Base(d, c).said
    BY <1>2, BaseSays
  <1> DEFINE told == {ToldBy[e] : e \in ApiOperations(c) \cup AnsweredProbes(c)}
             spoken == {known[b].says : b \in DOMAIN known}
  <1>4. UNION told \subseteq Base(d, c).said
    BY BaseSays
  <1>5. BuildCorpus(known, items, extra, c).said = UNION (spoken \cup Statements(items) \cup extra \cup told)
    BY CorpusSays
  <1>6. UNION spoken \subseteq Base(d, c).said
    BY <1>3
  <1> HIDE DEF told, spoken
  <1>7. BuildCorpus(known, items, extra, c).said \subseteq Base(d, c).said \cup UNION (Statements(items) \cup extra)
    BY <1>4, <1>5, <1>6
  <1>8. QED
    BY <1>7, SameRequests DEF known

-----------------------------------------------------------------------------
(* What it means for a rule to find nothing.                               *)

LEMMA NoneOfThree == \A A, B, C : A \cup B \cup C = {} => A = {} /\ B = {} /\ C = {}
  OBVIOUS

LEMMA ErrEmpty == \A code, S : Err(code, S) = {} => S = {}
  BY DEF Err

LEMMA SoundRequirement ==
  ASSUME NEW d, NEW r, NEW c, RequirementErrors(d, r, c) = {}
  PROVE  /\ r.evidence # {}
         /\ r.evidence \subseteq DOMAIN d \cup ApiOperations(c)
         /\ \A m \in r.says : Supported(m, Base(d, c))
         /\ ~Contradicts(r.says, d)
  <1>1. r.evidence # {}
    BY ErrEmpty DEF RequirementErrors
  <1>2. r.evidence \ (DOMAIN d \cup ApiOperations(c)) = {}
    BY ErrEmpty DEF RequirementErrors
  <1>3. StatementErrors(d, r, c) = {}
    BY DEF RequirementErrors
  <1>4. Invented(r.says, Base(d, c)) = {} /\ ~Contradicts(r.says, d)
    BY <1>3 DEF StatementErrors, Base
  <1>5. QED
    BY <1>1, <1>2, <1>4, NothingMadeUp

LEMMA SoundAnalysis ==
  ASSUME NEW d, NEW a, NEW c, AnalysisErrors(d, a, c) = {}
  PROVE  /\ \A r \in DOMAIN a.items : RequirementErrors(d, a.items[r], c) = {}
         /\ \A b \in DOMAIN d : b \in a.excluded <=> b \notin Cited(a)
  <1> DEFINE strange == (a.excluded \ DOMAIN d) \cup (a.excluded \cap Cited(a))
  <1>1. strange = {} /\ Vanished(d, a) = {}
    <2> DEFINE first == UNION {RequirementErrors(d, a.items[r], c) : r \in DOMAIN a.items}
    <2>1. first \cup Err("UNKNOWN_BEHAVIOR_REFERENCE", strange) \cup Err("UNANALYZED_BEHAVIOR", Vanished(d, a)) = {}
      BY DEF AnalysisErrors
    <2> HIDE DEF first, strange
    <2>2. QED
      BY <2>1, NoneOfThree, ErrEmpty
  <1>2. QED
    BY <1>1 DEF AnalysisErrors, Vanished

LEMMA SoundCase ==
  ASSUME NEW d, NEW a, NEW tc, NEW c, CaseErrors(d, a, tc, c) = {}
  PROVE  /\ tc.evidence # {}
         /\ tc.evidence \subseteq DOMAIN a.items \cup DOMAIN d \cup ApiOperations(c)
         /\ NotEvidenced(a, tc) = {}
         /\ LevelErrors(d, a, tc, c) = {}
         /\ \A m \in tc.says : Supported(m, BuildCorpus(d, a.items, {}, c))
         /\ ~Contradicts(tc.says, d)
  <1>1. /\ tc.evidence # {}
        /\ tc.evidence \subseteq DOMAIN a.items \cup DOMAIN d \cup ApiOperations(c)
        /\ NotEvidenced(a, tc) = {}
        /\ LevelErrors(d, a, tc, c) \cup CaseTextErrors(d, a, tc, c) = {}
    BY DEF CaseErrors
  <1>2. Invented(tc.says, BuildCorpus(d, a.items, {}, c)) = {} /\ ~Contradicts(tc.says, d)
    BY <1>1 DEF CaseTextErrors
  <1>3. QED
    BY <1>1, <1>2, NothingMadeUp

LEMMA SoundSuite ==
  ASSUME NEW d, NEW a, NEW s, NEW c, TestCasesErrors(d, a, s, c) = {}
  PROVE  /\ \A tc \in s : CaseErrors(d, a, tc, c) = {}
         /\ \A tc, other \in s : other.id = tc.id => other = tc
         /\ \A r \in TestableRequirements(a, c) : \E tc \in s : r \in tc.covers
  <1>1. \A tc \in s : CaseErrors(d, a, tc, c) = {}
    BY DEF TestCasesErrors
  <1>2. DuplicateIds(s) = {} /\ Uncovered(a, s, c) = {}
    <2> DEFINE first == UNION {CaseErrors(d, a, tc, c) : tc \in s}
               third == Err("UNCOVERED_ACCEPTANCE_POINT", Uncovered(a, s, c))
    <2>1. first \cup Err("DUPLICATE_ID", DuplicateIds(s)) \cup third
            \cup Err("DUPLICATE_ACROSS_LEVELS", AcrossLevels(s, c)) = {}
      BY DEF TestCasesErrors
    <2> HIDE DEF first
    <2>2. QED
      BY <2>1, NoneOfThree, ErrEmpty
  <1>3. QED
    BY <1>1, <1>2 DEF DuplicateIds, Uncovered

LEMMA SoundEntry ==
  ASSUME NEW s, NEW e, NEW able, EntryErrors(s, e, able) = {}
  PROVE  /\ e.strategy \notin StrategyConflicts[e.mode]
         /\ e.mode = "AUTOMATION" => e.strategy \notin LevelConflicts[StatedLevel(s, e.case)]
  BY DEF EntryErrors

LEMMA SoundPrioritization ==
  ASSUME NEW d, NEW a, NEW s, NEW p, NEW able, NEW c, IsFiniteSet(p),
         PrioritizationErrors(d, a, s, p, able, c) = {}
  PROVE  /\ \A e \in p : EntryErrors(s, e, able) = {} /\ ReasonErrors(d, a, s, e, c) = {}
         /\ \A tc \in s : \E e \in p : e.case = tc.id /\ \A f \in p : f.case = tc.id => f = e
  <1>1. /\ \A e \in p : EntryErrors(s, e, able) \cup ReasonErrors(d, a, s, e, c) = {}
        /\ \A tc \in s : ~(Cardinality(EntriesOf(p, tc.id)) > 1) /\ EntriesOf(p, tc.id) # {}
    <2>1. \A e \in p : EntryErrors(s, e, able) \cup ReasonErrors(d, a, s, e, c) = {}
      BY DEF PrioritizationErrors
    <2> DEFINE twice == {tc.id : tc \in {t \in s : Cardinality(EntriesOf(p, t.id)) > 1}}
               never == {tc.id : tc \in {t \in s : EntriesOf(p, t.id) = {}}}
               first == UNION {EntryErrors(s, e, able) \cup ReasonErrors(d, a, s, e, c) : e \in p}
    <2>2. first \cup Err("DUPLICATE_PRIORITIZATION", twice) \cup Err("MISSING_PRIORITIZATION", never) = {}
      BY DEF PrioritizationErrors
    <2> HIDE DEF first, twice, never
    <2>3. twice = {} /\ never = {}
      BY <2>2, NoneOfThree, ErrEmpty
    <2> USE DEF twice, never
    <2>4. QED
      BY <2>1, <2>3
  <1>2. ASSUME NEW tc \in s
        PROVE  \E e \in p : e.case = tc.id /\ \A f \in p : f.case = tc.id => f = e
    <2> DEFINE E == EntriesOf(p, tc.id)
    <2>1. E \subseteq p
      BY DEF EntriesOf
    <2>2. IsFiniteSet(E) /\ Cardinality(E) \in Nat
      BY <2>1, FS_Subset, FS_CardinalityType
    <2>3. Cardinality(E) # 0 /\ ~(Cardinality(E) > 1)
      BY <1>1, <2>2, FS_EmptySet
    <2>4. Cardinality(E) = 1
      BY <2>2, <2>3
    <2>5. PICK e : E = {e}
      BY <2>2, <2>4, FS_Singleton
    <2>6. QED
      BY <2>5 DEF EntriesOf
  <1>3. QED
    BY <1>1, <1>2

LEMMA SoundReport ==
  ASSUME NEW known, NEW a, NEW s, NEW bug, NEW c, BugReportErrors(known, a, s, bug, c) = {}
  PROVE  /\ ThresholdErrors(known, a, bug.finding, bug.status = "CONFIRMED", c) = {}
         /\ \A m \in bug.finding.expected \cup bug.finding.actual :
              Supported(m, BuildCorpus(known, a.items,
                                       {tc.says : tc \in {t \in s : t.id \in bug.finding.cases}}, c))
  <1> DEFINE f == bug.finding
             cases == {tc.says : tc \in {t \in s : t.id \in f.cases}}
  <1>1. ThresholdErrors(known, a, f, bug.status = "CONFIRMED", c) = {} /\ DefectTextErrors(known, a, s, f, c) = {}
    BY DEF BugReportErrors
  <1>2. Invented(f.expected \cup f.actual, BuildCorpus(known, a.items, cases, c)) = {}
    BY <1>1 DEF DefectTextErrors
  <1>3. QED
    BY <1>1, <1>2, NothingMadeUp


\* Everything discovery flagged is spoken of by a finding.
LEMMA SoundDefects ==
  ASSUME NEW known, NEW a, NEW s, NEW found, NEW c, DefectAnalysisErrors(known, a, s, found, c) = {},
         NEW b \in DOMAIN known, known[b].suspected
  PROVE  \E i \in 1 .. Len(found) : b \in found[i].behaviors
  <1> DEFINE first == UNION {FindingErrors(known, a, s, found[i], c) : i \in 1 .. Len(found)}
  <1>1. first \cup Err("DUPLICATE_DEFECT", DuplicateDefects(known, found))
          \cup Err("UNANALYZED_SUSPECTED_ISSUE", Unanalyzed(known, found)) = {}
    BY DEF DefectAnalysisErrors
  <1> HIDE DEF first
  <1>2. Err("UNANALYZED_SUSPECTED_ISSUE", Unanalyzed(known, found)) = {}
    BY <1>1
  <1>3. Unanalyzed(known, found) = {}
    BY <1>2, ErrEmpty
  <1>4. QED
    BY <1>3 DEF Unanalyzed

\* What it means for the inspection to find nothing, rule by rule.
LEMMA CleanMeans ==
  ASSUME Clean
  PROVE  /\ Nothing \notin {disc, analysis, suite, prio, defects}
         /\ AnalysisErrors(disc, analysis, ctx) = {}
         /\ TestCasesErrors(disc, analysis, suite, ctx) = {}
         /\ PrioritizationErrors(disc, analysis, suite, prio, Anything, ctx) = {}
         /\ DefectAnalysisErrors(Known, analysis, suite, defects, ctx) = {}
         /\ DOMAIN bugs = DOMAIN ReportsOf(defects)
         /\ \A n \in DOMAIN bugs : BugReportErrors(Known, analysis, suite, bugs[n], ctx) = {}
  <1>1. Nothing \notin {disc, analysis, suite, prio, defects}
    <2>1. \A i \in 1 .. 5 : artifacts[i] # Nothing
      BY DEF Clean, Missing
    <2>2. QED
      BY <2>1 DEF artifacts
  <1>2. /\ AnalysisErrors(disc, analysis, ctx) = {}
        /\ TestCasesErrors(disc, analysis, suite, ctx) = {}
        /\ PrioritizationErrors(disc, analysis, suite, prio, Anything, ctx) = {}
        /\ DefectVerdict(defects, bugs) = {}
        /\ Err("INCOMPLETE_DEFECT", DOMAIN bugs \ DOMAIN ReportsOf(defects)) = {}
    BY DEF Clean, Findings
  <1> DEFINE Of(n) == IF n \in DOMAIN bugs THEN BugReportErrors(Known, analysis, suite, bugs[n], ctx)
                      ELSE Err("INCOMPLETE_DEFECT", {n})
             reports == UNION {Of(n) : n \in DOMAIN ReportsOf(defects)}
  <1>3. DefectAnalysisErrors(Known, analysis, suite, defects, ctx) \cup reports = {}
    BY <1>1, <1>2 DEF DefectVerdict
  <1>4. \A n \in DOMAIN ReportsOf(defects) : Of(n) = {}
    <2> HIDE DEF Of
    <2>1. reports = {}
      BY <1>3
    <2>2. QED
      BY <2>1
  <1>5. DOMAIN bugs \subseteq DOMAIN ReportsOf(defects)
    BY <1>2, ErrEmpty
  <1>6. ASSUME NEW n \in DOMAIN ReportsOf(defects)
        PROVE  n \in DOMAIN bugs /\ BugReportErrors(Known, analysis, suite, bugs[n], ctx) = {}
    <2>1. Err("INCOMPLETE_DEFECT", {n}) # {}
      BY ErrEmpty
    <2>2. QED
      BY <1>4, <2>1
  <1> HIDE DEF Of
  <1>7. DefectAnalysisErrors(Known, analysis, suite, defects, ctx) = {}
    BY <1>3
  <1>8. QED
    BY <1>1, <1>2, <1>5, <1>6, <1>7

-----------------------------------------------------------------------------
(* What a result without findings shows.  Each argument is one state's: it *)
(* needs of the invariant only the types and the texts.                    *)

LEMMA Candidates ==
  ASSUME TypeOK, Nothing \notin {analysis, suite, prio}
  PROVE  /\ \A r \in DOMAIN analysis.items : IsRequirement(analysis.items[r])
         /\ \A tc \in suite : IsCase(tc)
         /\ IsFiniteSet(prio) /\ \A e \in prio : IsEntry(e)
  BY CandidateAssumption DEF TypeOK

\* Each behavior is the ground of a requirement or set aside, and a suspected
\* one is spoken of.
LEMMA BehaviorsTraced ==
  ASSUME Clean, IInv, NEW b \in DOMAIN disc
  PROVE  /\ b \in analysis.excluded <=> \A r \in DOMAIN analysis.items : b \notin analysis.items[r].evidence
         /\ disc[b].suspected => \E i \in DOMAIN defects : b \in defects[i].behaviors
  <1>1. b \in analysis.excluded <=> b \notin Cited(analysis)
    BY CleanMeans, SoundAnalysis
  <1>2. b \notin Cited(analysis) <=> \A r \in DOMAIN analysis.items : b \notin analysis.items[r].evidence
    BY DEF Cited
  <1>3. ASSUME disc[b].suspected
        PROVE  \E i \in DOMAIN defects : b \in defects[i].behaviors
    <2>1. b \in DOMAIN Known /\ Known[b].suspected
      BY <1>3 DEF Known, DefectBehaviors
    <2>2. \E i \in 1 .. Len(defects) : b \in defects[i].behaviors
      BY <2>1, CleanMeans, SoundDefects
    <2>3. DOMAIN defects = 1 .. Len(defects)
      BY CleanMeans, LenProperties DEF IInv, IsPersisted
    <2>4. QED
      BY <2>2, <2>3
  <1>4. QED
    BY <1>1, <1>2, <1>3

\* Each requirement the run can test has a case that shares its ground.
LEMMA RequirementsTraced ==
  ASSUME Clean, NEW r \in DOMAIN analysis.items, analysis.items[r].testable,
         ctx.mode = "API_ONLY" => analysis.items[r].evidence \cap ApiOperations(ctx) # {}
  PROVE  \E tc \in suite :
           /\ r \in tc.covers
           /\ (tc.evidence \cup RestsOn(analysis, tc)) \cap analysis.items[r].evidence # {}
  <1>1. r \in TestableRequirements(analysis, ctx)
    BY DEF TestableRequirements, InCoverageScope
  <1>2. PICK tc \in suite : r \in tc.covers
    BY <1>1, CleanMeans, SoundSuite
  <1>3. NotEvidenced(analysis, tc) = {}
    BY CleanMeans, SoundSuite, SoundCase
  <1>4. analysis.items[r].evidence # {}
    BY CleanMeans, SoundAnalysis, SoundRequirement
  <1>5. CASE r \in tc.evidence
    <2>1. analysis.items[r].evidence \subseteq RestsOn(analysis, tc)
      BY <1>5 DEF RestsOn
    <2>2. QED
      BY <1>2, <1>4, <2>1
  <1>6. CASE tc.evidence \cap analysis.items[r].evidence # {}
    BY <1>2, <1>6
  <1>7. QED
    BY <1>2, <1>3, <1>5, <1>6 DEF NotEvidenced

\* Each case reaches something of its own level.
LEMMA CasesTraced ==
  ASSUME Clean, NEW tc \in suite
  PROVE  RestsOn(analysis, tc) \cap (IF tc.level = "API" THEN ApiOperations(ctx) ELSE DOMAIN disc) # {}
  <1>1. CaseErrors(disc, analysis, tc, ctx) = {}
    BY CleanMeans, SoundSuite
  <1>2. LevelErrors(disc, analysis, tc, ctx) = {}
    BY <1>1, SoundCase
  <1>3. PICK e \in tc.evidence : e \in DOMAIN analysis.items \cup DOMAIN disc \cup ApiOperations(ctx)
    BY <1>1, SoundCase
  <1>4. RestsOn(analysis, tc) \cap (DOMAIN disc \cup ApiOperations(ctx)) # {}
    <2>1. CASE e \in DOMAIN analysis.items
      <3>1. /\ analysis.items[e].evidence # {}
            /\ analysis.items[e].evidence \subseteq DOMAIN disc \cup ApiOperations(ctx)
        BY <2>1, CleanMeans, SoundAnalysis, SoundRequirement
      <3>2. analysis.items[e].evidence \subseteq RestsOn(analysis, tc)
        BY <2>1 DEF RestsOn
      <3>3. QED
        BY <3>1, <3>2
    <2>2. CASE e \notin DOMAIN analysis.items
      <3>1. e \in RestsOn(analysis, tc)
        BY <2>2 DEF RestsOn
      <3>2. QED
        BY <1>3, <2>2, <3>1
    <2>3. QED
      BY <2>1, <2>2
  <1> DEFINE onApi == RestsOn(analysis, tc) \cap ApiOperations(ctx) # {}
             onBehavior == RestsOn(analysis, tc) \cap DOMAIN disc # {}
  <1>5. IF TestLevelOf(tc) = "API" THEN onApi ELSE ~onApi \/ onBehavior
    BY <1>2 DEF LevelErrors
  <1>6. CASE tc.level = "API"
    BY <1>5, <1>6 DEF TestLevelOf
  <1>7. CASE tc.level # "API"
    BY <1>4, <1>5, <1>7 DEF TestLevelOf
  <1>8. QED
    BY <1>6, <1>7

\* Each case has one entry, which fits its level.
LEMMA EntriesTraced ==
  ASSUME Clean, IInv, NEW tc \in suite
  PROVE  \E e \in prio :
           /\ e.case = tc.id
           /\ \A f \in prio : f.case = tc.id => f = e
           /\ tc.level = "API" /\ e.mode = "AUTOMATION" => e.strategy \in {"API", "UNKNOWN", "NONE"}
  <1>1. IsFiniteSet(prio) /\ \A e \in prio : IsEntry(e)
    BY CleanMeans, Candidates DEF IInv
  <1> DEFINE Sole(e) == e.case = tc.id /\ \A f \in prio : f.case = tc.id => f = e
  <1>p. PrioritizationErrors(disc, analysis, suite, prio, Anything, ctx) = {}
    BY CleanMeans
  <1>2. PICK e \in prio : Sole(e)
    <2>1. \A t \in suite : \E e \in prio : e.case = t.id /\ \A f \in prio : f.case = t.id => f = e
      BY <1>1, <1>p, SoundPrioritization
    <2>2. QED
      BY <2>1
  <1>3. EntryErrors(suite, e, Anything) = {}
    BY <1>1, <1>p, SoundPrioritization
  <1>4. \A x \in suite : x.id = tc.id => x = tc
    BY CleanMeans, SoundSuite
  <1>5. StatedLevel(suite, e.case) = tc.level
    BY <1>2, <1>4 DEF StatedLevel
  <1>6. ASSUME tc.level = "API", e.mode = "AUTOMATION"
        PROVE  e.strategy \in {"API", "UNKNOWN", "NONE"}
    <2>1. e.strategy \notin {"MANUAL"} /\ e.strategy \notin {"UI", "UI_API", "VISUAL"}
      BY <1>3, <1>5, <1>6, SoundEntry DEF StrategyConflicts, LevelConflicts
    <2>2. e.strategy \in {"UI", "API", "UI_API", "VISUAL", "MANUAL", "UNKNOWN", "NONE"}
      BY <1>1 DEF IsEntry
    <2>3. QED
      BY <2>1, <2>2
  <1>7. QED
    BY <1>2, <1>6

LEMMA TraceableState == IInv => CleanIsTraceable
  <1> SUFFICES ASSUME IInv, Clean PROVE CleanIsTraceable
    BY DEF CleanIsTraceable
  <1>1. \A tc \in suite :
          /\ RestsOn(analysis, tc) \cap (IF tc.level = "API" THEN ApiOperations(ctx) ELSE DOMAIN disc) # {}
          /\ \E e \in prio :
               /\ e.case = tc.id
               /\ \A f \in prio : f.case = tc.id => f = e
               /\ tc.level = "API" /\ e.mode = "AUTOMATION" => e.strategy \in {"API", "UNKNOWN", "NONE"}
    BY CasesTraced, EntriesTraced
  <1>2. QED
    BY <1>1, BehaviorsTraced, RequirementsTraced DEF CleanIsTraceable

\* A confirmed report's expectation rests on something other than what it
\* reports.
LEMMA ConfirmedState == ConfirmedIsIndependent
  <1> SUFFICES ASSUME Clean, NEW n \in DOMAIN bugs, bugs[n].status = "CONFIRMED"
               PROVE  LET f == bugs[n].finding IN
                        /\ \E b \in f.behaviors : Known[b].status = "OBSERVED" /\ ~Known[b].aux
                        /\ \E r \in f.requirements : \E e \in analysis.items[r].evidence :
                             \/ Known[e].status = "CONFIRMED"
                             \/ Known[e].status = "OBSERVED" /\ ~Known[e].suspected /\ e \notin f.behaviors
    BY DEF ConfirmedIsIndependent
  <1> DEFINE f == bugs[n].finding
             observed == {b \in f.behaviors \cap DOMAIN Known : Known[b].status = "OBSERVED"}
  <1>1. BugReportErrors(Known, analysis, suite, bugs[n], ctx) = {}
    BY CleanMeans
  <1>2. ThresholdErrors(Known, analysis, f, TRUE, ctx) = {}
    BY <1>1, SoundReport
  <1>3. ExpectedBasisOf(Known, analysis, f) \in SupportedBasis
    BY <1>2 DEF ThresholdErrors
  <1>4. observed # {} /\ ~ \A b \in observed : Known[b].aux
    BY <1>2 DEF ThresholdErrors
  <1>5. \E b \in f.behaviors : Known[b].status = "OBSERVED" /\ ~Known[b].aux
    BY <1>4
  <1> DEFINE reqs == f.requirements \cap DOMAIN analysis.items
             support == (UNION {analysis.items[r].evidence : r \in reqs}) \cap DOMAIN Known
             Good(e) == \/ Known[e].status = "CONFIRMED"
                        \/ Known[e].status = "OBSERVED" /\ ~Known[e].suspected /\ e \notin f.behaviors
  <1>6. \E e \in support : Good(e)
    BY <1>3 DEF ExpectedBasisOf, SupportedBasis
  <1> HIDE DEF Good
  <1>7. \E r \in f.requirements : \E e \in analysis.items[r].evidence : Good(e)
    BY <1>6
  <1>8. QED
    BY <1>5, <1>7 DEF Good

-----------------------------------------------------------------------------
(* Nothing is made up on the way.                                          *)

\* Backed by what the run was told, a mention is grounded: the documentation's
\* text of an operation starts with its request.
LEMMA BackedIsGrounded ==
  ASSUME IInv, NEW m,
         \/ m.as \in HardForms /\ Supported(m, Base(disc, ctx))
         \/ m.as # "REQUEST" /\ Heard(m.what, Base(disc, ctx))
         \/ m.as # "REQUEST" /\ m.what \in Routes(Base(disc, ctx))
  PROVE  Grounded(m)
  <1> DEFINE base == Base(disc, ctx)
             told == Corpus(Sources, {})
  <1>1. base.said = UNION Sources
    BY BaseSays DEF Sources
  <1>2. base.requests = Declared
    BY CorpusRequests DEF Base, Declared
  <1>3. told.said = UNION Sources /\ told.requests = {}
    BY DEF Corpus
  <1>4. \A q \in Declared : [as |-> "REQUEST", what |-> q] \in UNION Sources
    <2>1. ASSUME NEW o \in ApiOperations(ctx)
          PROVE  [as |-> "REQUEST", what |-> RequestOf[o]] \in UNION Sources
      <3>1. o \in ctx.docs
        BY <2>1 DEF ApiOperations
      <3>2. [as |-> "REQUEST", what |-> RequestOf[o]] \in ToldBy[o]
        BY <3>1, CandidateAssumption DEF IInv, TypeOK
      <3>3. ToldBy[o] \in Sources
        BY DEF Sources
      <3>4. QED
        BY <3>2, <3>3
    <2>2. QED
      BY <2>1 DEF Declared
  <1>5. Routes(base) \subseteq Routes(told)
    <2> SUFFICES ASSUME NEW route \in Routes(base) PROVE route \in Routes(told)
      OBVIOUS
    <2>1. CASE \E x \in UNION Sources : \/ x.as = "ROUTE" /\ route = x.what
                                        \/ x.as = "REQUEST" /\ route = x.what.path
      BY <1>3, <2>1 DEF Routes
    <2>2. CASE \E q \in Declared : route = q.path
      <3>1. PICK q \in Declared : route = q.path
        BY <2>2
      <3>2. PICK x \in UNION Sources : x.as = "REQUEST" /\ x.what = q
        BY <1>4
      <3>3. QED
        BY <1>3, <3>1, <3>2 DEF Routes
    <2>3. QED
      BY <1>1, <1>2, <2>1, <2>2 DEF Routes
  <1>6. Heard(m.what, base) => m.what \in What(UNION Sources)
    BY <1>1 DEF Heard
  <1>7. CASE m.as # "REQUEST"
    <2>1. Heard(m.what, base) \/ m.what \in Routes(base)
      BY <1>7, SupportedMeans DEF HardForms
    <2>2. QED
      BY <1>5, <1>6, <1>7, <2>1 DEF Grounded
  <1>8. CASE m.as = "REQUEST"
    <2>1. m.what.path \in Routes(base) /\ MethodDeclared(m.what, base)
      BY <1>8, SupportedMeans
    <2>2. CASE m.what.path \in {q.path : q \in Declared}
      <3>1. PICK q \in Declared : m.what.path = q.path
        BY <2>2
      <3>2. {r \in Declared : r.path = m.what.path} # {}
        BY <3>1
      <3>3. m.what \in Declared
        BY <1>2, <2>1, <3>2 DEF MethodDeclared
      <3>4. QED
        BY <1>8, <3>3 DEF Grounded
    <2>3. CASE m.what.path \notin {q.path : q \in Declared}
      BY <1>5, <1>8, <2>1, <2>3 DEF Grounded
    <2>4. QED
      BY <2>2, <2>3
  <1>9. QED
    BY <1>7, <1>8

LEMMA StatementsBacked ==
  ASSUME Clean, IInv
  PROVE  \A t \in Statements(analysis.items) :
           IsText(t) /\ \A m \in t : Supported(m, Base(disc, ctx))
  <1> SUFFICES ASSUME NEW r \in DOMAIN analysis.items
               PROVE  /\ IsText(analysis.items[r].says)
                      /\ \A m \in analysis.items[r].says : Supported(m, Base(disc, ctx))
    BY DEF Statements
  <1>1. IsText(analysis.items[r].says)
    BY CleanMeans, Candidates DEF IInv, IsRequirement
  <1>2. RequirementErrors(disc, analysis.items[r], ctx) = {}
    BY CleanMeans, SoundAnalysis
  <1>3. QED
    BY <1>1, <1>2, SoundRequirement

\* What a case is held up against, requirements included.
LEMMA CasesBacked ==
  ASSUME Clean, IInv, NEW tc \in suite
  PROVE  /\ IsText(tc.says)
         /\ \A m \in tc.says : m.as \in HardForms => Supported(m, Base(disc, ctx))
         /\ \A m \in tc.says : m.as = "WORDING" => Heard(m.what, Base(disc, ctx))
  <1> DEFINE base == Base(disc, ctx)
             wide == BuildCorpus(disc, analysis.items, {}, ctx)
             asked == Statements(analysis.items)
  <1>1. IsText(tc.says)
    BY CleanMeans, Candidates DEF IInv, IsCase
  <1>2. CaseErrors(disc, analysis, tc, ctx) = {}
    BY CleanMeans, SoundSuite
  <1>3. \A m \in tc.says : Supported(m, wide)
    BY <1>2, SoundCase
  <1>4. /\ wide.said \subseteq base.said \cup UNION (asked \cup {})
        /\ wide.requests = base.requests
    BY WiderCorpus
  <1>5. \A t \in asked : IsText(t) /\ \A m \in t : Supported(m, base)
    BY StatementsBacked
  <1> HIDE DEF base, wide, asked
  <1>6. asked \cup {} = asked
    OBVIOUS
  <1>7. Extends(wide, base, asked)
    BY <1>4, <1>5, <1>6 DEF Extends
  <1>8. \A m \in tc.says : m.as \in HardForms => Supported(m, base)
    BY <1>1, <1>3, <1>7, HardCarried
  <1>9. \A m \in tc.says : m.as = "WORDING" => Heard(m.what, base)
    BY <1>3, <1>4, <1>5, <1>6, WordingCarried
  <1>10. QED
    BY <1>1, <1>8, <1>9 DEF base

\* Whatever draws on requirements and on cases draws on what backs them.
LEMMA UpstreamBacked ==
  ASSUME Clean, IInv, NEW wide, NEW chosen, chosen \subseteq {tc.says : tc \in suite},
         wide.said \subseteq Base(disc, ctx).said \cup UNION (Statements(analysis.items) \cup chosen),
         wide.requests = Base(disc, ctx).requests
  PROVE  Extends(wide, Base(disc, ctx), Statements(analysis.items) \cup chosen)
  BY StatementsBacked, CasesBacked DEF Extends

LEMMA ReasonsBacked ==
  ASSUME Clean, IInv, NEW e \in prio, NEW m \in e.says, m.as \in {"ROUTE", "EMAIL"}
  PROVE  Heard(m.what, Base(disc, ctx)) \/ m.what \in Routes(Base(disc, ctx))
  <1> DEFINE spoken == {tc.says : tc \in suite}
             wide == BuildCorpus(disc, analysis.items, spoken, ctx)
             upstream == Statements(analysis.items) \cup spoken
  <1>1. IsFiniteSet(prio) /\ IsText(e.says)
    BY CleanMeans, Candidates DEF IInv, IsEntry
  <1>2. ReasonErrors(disc, analysis, suite, e, ctx) = {}
    BY <1>1, CleanMeans, SoundPrioritization
  <1>3. InventedHardFact(e.says, wide) = {}
    BY <1>2 DEF ReasonErrors
  <1>4. Extends(wide, Base(disc, ctx), upstream)
    BY WiderCorpus, UpstreamBacked
  <1> HIDE DEF wide, upstream
  <1>5. CASE m.as = "EMAIL"
    <2>1. Heard(m.what, wide)
      BY <1>3, <1>5, NothingHardMadeUp
    <2>2. m.what \in Addresses
      BY <1>1, <1>5 DEF IsText, FoundAs
    <2>3. QED
      BY <1>4, <2>1, <2>2, HeardCarried
  <1>6. CASE m.as = "ROUTE"
    BY <1>3, <1>4, <1>6, NothingHardMadeUp, RoutesCarried
  <1>7. QED
    BY <1>5, <1>6

LEMMA ReportsBacked ==
  ASSUME Clean, IInv, NEW n \in DOMAIN bugs,
         NEW m \in bugs[n].finding.expected \cup bugs[n].finding.actual, m.as \in HardForms
  PROVE  Supported(m, Base(disc, ctx))
  <1> DEFINE f == bugs[n].finding
             chosen == {tc.says : tc \in {t \in suite : t.id \in f.cases}}
             wide == BuildCorpus(Known, analysis.items, chosen, ctx)
  <1>1. BugReportErrors(Known, analysis, suite, bugs[n], ctx) = {}
    BY CleanMeans
  <1>2. Supported(m, wide)
    <2>1. \A x \in f.expected \cup f.actual : Supported(x, wide)
      BY <1>1, SoundReport
    <2> HIDE DEF wide
    <2>2. QED
      BY <2>1
  <1>3. IsText(f.expected \cup f.actual)
    BY DEF IInv, IsReport
  <1>4. Extends(wide, Base(disc, ctx), Statements(analysis.items) \cup chosen)
    <2>1. /\ wide.said \subseteq Base(disc, ctx).said \cup UNION (Statements(analysis.items) \cup chosen)
          /\ wide.requests = Base(disc, ctx).requests
      BY KnownCorpus DEF Known
    <2>2. chosen \subseteq {tc.says : tc \in suite}
      OBVIOUS
    <2> HIDE DEF wide, chosen
    <2>3. QED
      BY <2>1, <2>2, UpstreamBacked
  <1> HIDE DEF wide, chosen
  <1>5. QED
    BY <1>2, <1>3, <1>4, HardCarried

\* No requirement and no case denies what discovery saw for certain.
LEMMA NothingSeenDenied ==
  ASSUME Clean, NEW m \in (UNION {analysis.items[r].says : r \in DOMAIN analysis.items})
                          \cup UNION {tc.says : tc \in suite},
         m.as = "LACKS", NEW b \in DOMAIN disc, m.what \in What(disc[b].says)
  PROVE  disc[b].status = "INFERRED" \/ ~disc[b].sure
  <1>1. CASE \E r \in DOMAIN analysis.items : m \in analysis.items[r].says
    <2>1. PICK r \in DOMAIN analysis.items : m \in analysis.items[r].says
      BY <1>1
    <2>2. ~Contradicts(analysis.items[r].says, disc)
      BY CleanMeans, SoundAnalysis, SoundRequirement
    <2>3. QED
      BY <2>1, <2>2, NothingDenied
  <1>2. CASE \E tc \in suite : m \in tc.says
    <2>1. PICK tc \in suite : m \in tc.says
      BY <1>2
    <2>2. CaseErrors(disc, analysis, tc, ctx) = {}
      BY CleanMeans, SoundSuite
    <2>3. ~Contradicts(tc.says, disc)
      BY <2>2, SoundCase
    <2>4. QED
      BY <2>1, <2>3, NothingDenied
  <1>3. QED
    BY <1>1, <1>2

LEMMA InventedState == IInv => NothingInvented
  <1> SUFFICES ASSUME IInv, Clean PROVE NothingInvented
    BY DEF NothingInvented
  <1> DEFINE asked == UNION {analysis.items[r].says : r \in DOMAIN analysis.items}
             cases == UNION {tc.says : tc \in suite}
             reported == UNION {bugs[n].finding.expected \cup bugs[n].finding.actual : n \in DOMAIN bugs}
             base == Base(disc, ctx)
  <1>1. \A m \in asked : Supported(m, base)
    BY StatementsBacked DEF Statements
  <1>2. \A m \in cases : /\ m.as \in HardForms => Supported(m, base)
                         /\ m.as = "WORDING" => Heard(m.what, base)
    BY CasesBacked
  <1>3. \A m \in reported : m.as \in HardForms => Supported(m, base)
    BY ReportsBacked
  <1> HIDE DEF asked, cases, reported, base
  <1>4. \A m \in Hard(asked \cup cases \cup reported) : Grounded(m)
    <2>1. \A m \in asked \cup cases \cup reported : m.as \in HardForms => Supported(m, base)
      BY <1>1, <1>2, <1>3
    <2>2. QED
      BY <2>1, BackedIsGrounded DEF Hard, HardForms, base
  <1>5. \A m \in {x \in asked \cup cases : x.as = "WORDING"} : Grounded(m)
    <2>1. ASSUME NEW m \in asked, m.as = "WORDING"
          PROVE  Heard(m.what, base)
      <3>1. WasQuoted(m.what, base)
        BY <1>1, <2>1, SupportedMeans
      <3>2. QED
        BY <3>1 DEF WasQuoted, Heard, What
    <2>2. QED
      BY <1>2, <2>1, BackedIsGrounded DEF base
  <1>6. \A e \in prio : \A m \in {x \in e.says : x.as \in {"ROUTE", "EMAIL"}} : Grounded(m)
    BY ReasonsBacked, BackedIsGrounded
  <1>7. \A m \in asked \cup cases :
          m.as = "LACKS" => \A b \in DOMAIN disc :
            m.what \in What(disc[b].says) => disc[b].status = "INFERRED" \/ ~disc[b].sure
    BY NothingSeenDenied DEF asked, cases
  <1>8. QED
    BY <1>4, <1>5, <1>6, <1>7 DEF NothingInvented, asked, cases, reported

-----------------------------------------------------------------------------
(* The reports of an analysis: each is of one of its findings.             *)

Below == OpToRel(<, Nat)

LEMMA LeastNumber ==
  ASSUME NEW S, S \subseteq Nat, S # {}
  PROVE  \E n \in S : \A m \in S : n <= m
  <1>1. IsWellFoundedOn(Below, Nat)
    BY NatLessThanWellFounded DEF Below
  <1>2. \A m, n \in Nat : m < n => <<m, n>> \in Below
    BY DEF OpToRel, Below
  <1>3. PICK n \in S : \A m \in S : ~ (<<m, n>> \in Below)
    BY <1>1, WFMin
  <1>4. ASSUME NEW m \in S PROVE n <= m
    <2>1. m \in Nat /\ n \in Nat /\ ~ (m < n)
      BY <1>2, <1>3
    <2>2. QED
      BY <2>1
  <1>5. QED
    BY <1>4

\* The defects among the first i findings; ReportNumber counts them.
FirstDefects(found, i) == {j \in 1 .. i : IsDefect(found[j].class)}

LEMMA CountFirst ==
  ASSUME NEW found, NEW i \in Nat
  PROVE  /\ IsFiniteSet(FirstDefects(found, i))
         /\ ReportNumber(found, i) = Cardinality(FirstDefects(found, i))
         /\ ReportNumber(found, i) \in Nat
  <1>1. IsFiniteSet(1 .. i) /\ FirstDefects(found, i) \subseteq 1 .. i
    BY FS_Interval DEF FirstDefects
  <1>2. IsFiniteSet(FirstDefects(found, i))
    BY <1>1, FS_Subset
  <1>3. QED
    BY <1>2, FS_CardinalityType DEF ReportNumber, FirstDefects

LEMMA CountNext ==
  ASSUME NEW found, NEW i \in Nat
  PROVE  ReportNumber(found, i + 1)
           = IF IsDefect(found[i + 1].class) THEN ReportNumber(found, i) + 1 ELSE ReportNumber(found, i)
  <1>1. CASE IsDefect(found[i + 1].class)
    <2>1. FirstDefects(found, i + 1) = FirstDefects(found, i) \cup {i + 1}
      BY <1>1 DEF FirstDefects
    <2>2. i + 1 \notin FirstDefects(found, i)
      BY DEF FirstDefects
    <2>3. Cardinality(FirstDefects(found, i) \cup {i + 1}) = Cardinality(FirstDefects(found, i)) + 1
      BY <2>2, CountFirst, FS_AddElement
    <2>4. QED
      BY <1>1, <2>1, <2>3, CountFirst
  <1>2. CASE ~IsDefect(found[i + 1].class)
    <2>1. FirstDefects(found, i + 1) = FirstDefects(found, i)
      BY <1>2 DEF FirstDefects
    <2>2. i + 1 \in Nat
      OBVIOUS
    <2>3. QED
      BY <1>2, <2>1, <2>2, CountFirst
  <1>3. QED
    BY <1>1, <1>2

\* Every number that is given is given to a defect.
LEMMA NumberGiven ==
  ASSUME NEW found, Len(found) \in Nat, NEW n \in 1 .. ReportNumber(found, Len(found))
  PROVE  \E i \in FirstDefects(found, Len(found)) : ReportNumber(found, i) = n
  <1> DEFINE reached == {i \in 1 .. Len(found) : ReportNumber(found, i) >= n}
  <1>1. ReportNumber(found, 0) = 0
    <2>1. FirstDefects(found, 0) = {}
      BY DEF FirstDefects
    <2>2. QED
      BY <2>1, CountFirst, FS_EmptySet
  <1>2. n \in Nat /\ n >= 1 /\ ReportNumber(found, Len(found)) >= n
    BY CountFirst
  <1>3. Len(found) \in reached
    BY <1>1, <1>2
  <1>4. PICK i \in reached : \A m \in reached : i <= m
    <2>1. reached \subseteq Nat /\ reached # {}
      BY <1>3
    <2> HIDE DEF reached
    <2>2. QED
      BY <2>1, LeastNumber
  <1>5. i - 1 \in Nat /\ (i - 1) + 1 = i /\ i \in 1 .. Len(found)
    OBVIOUS
  <1>6. ReportNumber(found, i - 1) < n
    <2>1. CASE i = 1
      BY <1>1, <1>2, <2>1
    <2>2. CASE i # 1
      <3>1. i - 1 \in 1 .. Len(found) /\ i - 1 \notin reached
        BY <1>4, <1>5, <2>2
      <3>2. ReportNumber(found, i - 1) \in Nat
        BY <1>5, CountFirst
      <3>3. QED
        BY <1>2, <3>1, <3>2
    <2>3. QED
      BY <2>1, <2>2
  <1>7. ReportNumber(found, i)
          = IF IsDefect(found[i].class) THEN ReportNumber(found, i - 1) + 1 ELSE ReportNumber(found, i - 1)
    BY <1>5, CountNext
  <1>8. ReportNumber(found, i - 1) \in Nat /\ ReportNumber(found, i) >= n
    BY <1>5, CountFirst
  <1>9. IsDefect(found[i].class) /\ ReportNumber(found, i) = n
    BY <1>2, <1>6, <1>7, <1>8
  <1>10. QED
    BY <1>5, <1>9 DEF FirstDefects

LEMMA ReportsAre ==
  ASSUME NEW found, IsPersisted(found), NEW n \in DOMAIN ReportsOf(found)
  PROVE  IsReport(ReportsOf(found)[n])
  <1> DEFINE defects1 == FirstDefects(found, Len(found))
             i == CHOOSE j \in defects1 : ReportNumber(found, j) = n
  <1>1. Len(found) \in Nat /\ DOMAIN found = 1 .. Len(found)
    BY LenProperties DEF IsPersisted
  <1>2. defects1 = {j \in 1 .. Len(found) : IsDefect(found[j].class)}
    BY DEF FirstDefects
  <1>3. n \in 1 .. Cardinality(defects1)
    BY DEF ReportsOf, FirstDefects
  <1>4. Cardinality(defects1) = ReportNumber(found, Len(found))
    BY <1>1, CountFirst
  <1>5. \E j \in defects1 : ReportNumber(found, j) = n
    BY <1>1, <1>3, <1>4, NumberGiven
  <1>6. i \in DOMAIN found
    BY <1>1, <1>2, <1>5
  <1>7. ReportsOf(found)[n]
          = [status |-> IF found[i].class = "CONFIRMED_DEFECT" THEN "CONFIRMED" ELSE "POTENTIAL",
             finding |-> found[i]]
    BY DEF ReportsOf, FirstDefects
  <1>8. IsText(found[i].expected \cup found[i].actual)
    BY <1>6 DEF IsPersisted
  <1> HIDE DEF i
  <1>9. QED
    BY <1>7, <1>8 DEF IsReport

LEMMA NormalisedIs ==
  ASSUME NEW known, NEW a, NEW f \in DefectFindings
  PROVE  IsPersisted(Normalised(known, a, f))
  <1> DEFINE N == Normalised(known, a, f)
  <1>1. Len(f) \in Nat /\ DOMAIN f = 1 .. Len(f) /\ \A i \in DOMAIN f : IsFinding(f[i])
    BY CandidateAssumption, LenProperties
  <1>2. DOMAIN N = 1 .. Len(f)
    BY DEF Normalised
  <1>3. \A i \in DOMAIN N : N[i].expected = f[i].expected /\ N[i].actual = f[i].actual
    BY DEF Normalised
  <1>4. N = [i \in 1 .. Len(f) |-> N[i]]
    BY DEF Normalised
  <1> HIDE DEF N
  <1>5. N \in [1 .. Len(f) -> {N[i] : i \in DOMAIN N}]
    BY <1>2, <1>4
  <1>6. N \in Seq({N[i] : i \in DOMAIN N})
    BY <1>1, <1>5, SeqDef
  <1>7. \A i \in DOMAIN N : IsText(N[i].expected \cup N[i].actual)
    BY <1>1, <1>2, <1>3 DEF IsFinding
  <1>8. QED
    BY <1>6, <1>7 DEF IsPersisted, N

-----------------------------------------------------------------------------
(* The stages a run has still to do.                                       *)

Rest(i) == SubSeq(Stages, i, 5)

StageNames == {Stages[k] : k \in 1 .. 5}

LEMMA RestHas ==
  ASSUME NEW i \in 1 .. 6
  PROVE  /\ Rest(i) \in Seq(StageNames)
         /\ Len(Rest(i)) = 6 - i
         /\ \A k \in 1 .. 6 - i : Rest(i)[k] = Stages[i + k - 1]
  <1>1. \A k \in 1 .. 5 : Stages[k] \in StageNames
    BY DEF StageNames
  <1>2. i \in Int /\ 5 \in Int /\ \A k \in i .. 5 : Stages[k] \in StageNames
    BY <1>1
  <1>3. /\ Rest(i) \in Seq(StageNames)
        /\ Len(Rest(i)) = IF i <= 5 THEN 5 - i + 1 ELSE 0
        /\ \A k \in 1 .. 5 - i + 1 : Rest(i)[k] = Stages[i + k - 1]
    BY <1>2, SubSeqProperties DEF Rest
  <1>4. 5 - i + 1 = 6 - i /\ (~(i <= 5) => 6 - i = 0)
    OBVIOUS
  <1>5. QED
    BY <1>3, <1>4

LEMMA RestDistinct == \A i, j \in 1 .. 6 : Rest(i) = Rest(j) => i = j
  <1>1. \A i \in 1 .. 6 : Len(Rest(i)) = 6 - i
    BY RestHas
  <1>2. QED
    BY <1>1

LEMMA RestIs ==
  /\ Rest(6) = <<>>
  /\ \A i \in 1 .. 5 : Rest(i) # <<>> /\ Tail(Rest(i)) = Rest(i + 1) /\ Head(Rest(i)) = Stages[i]
  <1>3. Rest(6) = <<>>
    <2>1. Rest(6) \in Seq(StageNames) /\ Len(Rest(6)) = 0
      BY RestHas
    <2>2. QED
      BY <2>1, EmptySeq
  <1>4. ASSUME NEW i \in 1 .. 5
        PROVE  Rest(i) # <<>> /\ Tail(Rest(i)) = Rest(i + 1) /\ Head(Rest(i)) = Stages[i]
    <2> DEFINE r == Rest(i)
               n == Rest(i + 1)
    <2>1. /\ r \in Seq(StageNames) /\ Len(r) = 6 - i
          /\ \A k \in 1 .. 6 - i : r[k] = Stages[i + k - 1]
      <3>1. i \in 1 .. 6
        OBVIOUS
      <3>2. QED
        BY RestHas, <3>1
    <2>2. /\ n \in Seq(StageNames) /\ Len(n) = 5 - i
          /\ \A k \in 1 .. 5 - i : n[k] = Stages[i + 1 + k - 1]
      <3>1. i + 1 \in 1 .. 6 /\ 6 - (i + 1) = 5 - i
        OBVIOUS
      <3>2. QED
        BY RestHas, <3>1
    <2> HIDE DEF r, n
    <2>3. r # <<>>
      <3>1. Len(r) # 0
        BY <2>1
      <3>2. QED
        BY <3>1, EmptySeq
    <2>4. /\ Tail(r) \in Seq(StageNames) /\ Len(Tail(r)) = Len(r) - 1
          /\ \A k \in 1 .. Len(Tail(r)) : Tail(r)[k] = r[k + 1]
      BY <2>1, <2>3, HeadTailProperties
    <2>5. Len(Tail(r)) = Len(n)
      BY <2>1, <2>2, <2>4
    <2>6. ASSUME NEW k \in 1 .. Len(Tail(r))
          PROVE  Tail(r)[k] = n[k]
      <3>1. k \in 1 .. 5 - i /\ k + 1 \in 1 .. 6 - i /\ i + (k + 1) - 1 = i + 1 + k - 1
        BY <2>1, <2>4
      <3>2. Tail(r)[k] = r[k + 1]
        BY <2>4
      <3>3. r[k + 1] = Stages[i + (k + 1) - 1] /\ n[k] = Stages[i + 1 + k - 1]
        BY <2>1, <2>2, <3>1
      <3>4. QED
        BY <3>1, <3>2, <3>3
    <2>7. Tail(r) = n
      BY <2>2, <2>4, <2>5, <2>6, SeqEqual
    <2>8. Head(r) = Stages[i]
      <3>1. r[1] = Stages[i + 1 - 1] /\ i + 1 - 1 = i
        BY <2>1
      <3>2. QED
        BY <2>1, <2>3, <3>1
    <2>9. QED
      BY <2>3, <2>7, <2>8 DEF r, n
  <1>5. QED
    BY <1>3, <1>4

\* The stage a run is at, by number.
LEMMA StageAt ==
  ASSUME TypeOK, plan # <<>>
  PROVE  \E i \in 1 .. 5 : plan = Rest(i) /\ Head(plan) = Stages[i] /\ Tail(plan) = Rest(i + 1)
  <1>1. PICK i \in 1 .. 6 : plan = Rest(i)
    BY DEF TypeOK, Rest
  <1>2. i \in 1 .. 5
    BY <1>1, RestIs
  <1>3. QED
    BY <1>1, <1>2, RestIs

\* Every artifact of an earlier stage is there.
LEMMA UpstreamIs ==
  ASSUME Upstream, NEW i \in 1 .. 5, plan = Rest(i), NEW k \in 1 .. i - 1
  PROVE  artifacts[k] # Nothing
  BY DEF Upstream, Rest

LEMMA ArtifactsAre ==
  /\ artifacts[1] = disc /\ artifacts[2] = analysis /\ artifacts[3] = suite
  /\ artifacts[4] = prio /\ artifacts[5] = defects
  BY DEF artifacts

LEMMA StagesAre ==
  /\ Stages[1] = "discovery" /\ Stages[2] = "analysis" /\ Stages[3] = "design"
  /\ Stages[4] = "prioritization" /\ Stages[5] = "defects"
  BY DEF Stages

Plans == {SubSeq(Stages, i, 5) : i \in 1 .. 6}

LEMMA PlansClosed ==
  /\ <<>> \in Plans
  /\ \A p \in Plans : p # <<>> => Tail(p) \in Plans
  <1>1. <<>> \in Plans
    BY RestIs DEF Plans, Rest
  <1>2. ASSUME NEW p \in Plans, p # <<>> PROVE Tail(p) \in Plans
    <2>1. PICK i \in 1 .. 6 : p = Rest(i)
      BY DEF Plans, Rest
    <2>2. i \in 1 .. 5
      BY <1>2, <2>1, RestIs
    <2>3. Tail(Rest(i)) = Rest(i + 1)
      BY <2>2, RestIs
    <2>4. i + 1 \in 1 .. 6
      BY <2>2
    <2>5. QED
      BY <2>1, <2>3, <2>4 DEF Plans, Rest
  <1>3. QED
    BY <1>1, <1>2

LEMMA PositionIs ==
  ASSUME NEW i \in 1 .. 5
  PROVE  Position(Stages[i]) = i
  <1>1. \A j \in 1 .. 5 : Stages[j] = Stages[i] => j = i
    BY DEF Stages
  <1>2. QED
    BY <1>1 DEF Position

-----------------------------------------------------------------------------
(* The invariant is inductive.                                             *)

\* At the start nothing is on disk.
LEMMA InitIInv == Init => IInv
  <1> SUFFICES ASSUME Init PROVE IInv
    OBVIOUS
  <1>1. TypeOK
    BY PlansClosed DEF Init, TypeOK, Plans
  <1>2. DOMAIN bugs = {}
    BY DEF Init, NoBugs
  <1>3. Upstream
    BY RestIs DEF Init, Upstream, Rest
  <1>4. QED
    BY <1>1, <1>2, <1>3 DEF Init, IInv

\* Starting archives artifacts and removes the reports.
LEMMA StartKeeps ==
  ASSUME IInv, NEW i \in 1 .. 5, StartRun(Stages[i])
  PROVE  IInv'
  <1> DEFINE first == Stages[i]
  <1>1. PICK c \in Contexts, skip \in BOOLEAN :
          /\ ctx' = c
          /\ disc' = IF skip THEN Unexplored ELSE Kept(first, "discovery", disc)
          /\ visited' = IF skip THEN Nothing ELSE visited
          /\ plan' = Rest(i + (IF skip THEN 1 ELSE 0))
          /\ skip => i = 1
    <2>1. Position(first) = i
      BY PositionIs
    <2>2. first = "discovery" => i = 1
      BY DEF Stages
    <2>3. QED
      BY <2>1, <2>2 DEF StartRun, Rest
  <1>2. plan' \in Plans
    BY <1>1 DEF Plans, Rest
  <1>3. \A stage, artifact : Kept(first, stage, artifact) \in {artifact, Nothing}
    BY DEF Kept
  <1>4. TypeOK'
    <2>1. /\ analysis' \in {analysis, Nothing} /\ suite' \in {suite, Nothing} /\ prio' \in {prio, Nothing}
          /\ disc' \in {disc, Nothing, Unexplored} /\ visited' \in {visited, Nothing} /\ ctx' \in Contexts
      BY <1>1, <1>3 DEF StartRun
    <2>2. QED
      BY <1>2, <2>1 DEF IInv, TypeOK, Plans
  <1>5. DOMAIN bugs' = {}
    BY DEF StartRun, NoBugs
  <1>6. defects' \in {defects, Nothing} /\ fanned' = fanned
    BY <1>3 DEF StartRun
  <1>7. Upstream'
    <2> SUFFICES ASSUME NEW j \in 1 .. 5, plan' = Rest(j), NEW k \in 1 .. j - 1
                 PROVE  artifacts'[k] # Nothing
      BY DEF Upstream, Rest
    <2>1. j = i + (IF skip THEN 1 ELSE 0)
      <3>1. i + (IF skip THEN 1 ELSE 0) \in 1 .. 6 /\ j \in 1 .. 6
        OBVIOUS
      <3>2. Rest(j) = Rest(i + (IF skip THEN 1 ELSE 0))
        BY <1>1
      <3>3. QED
        BY <3>1, <3>2, RestDistinct
    <2>2. CASE skip
      <3>1. k = 1
        BY <1>1, <2>1, <2>2
      <3>2. QED
        BY <1>1, <2>2, <3>1, CandidateAssumption DEF artifacts
    <2>3. CASE ~skip
      <3>1. k \in 1 .. 4 /\ k < i /\ Position(first) = i /\ Position(Stages[k]) = k
        BY <2>1, <2>3, PositionIs
      <3>2. \A artifact : Kept(first, Stages[k], artifact) = artifact
        BY <3>1 DEF Kept
      <3>3. CASE k = 1
        BY <1>1, <2>3, <3>1, <3>2, <3>3, StagesAre DEF StartRun, artifacts
      <3>4. CASE k = 2
        BY <3>1, <3>2, <3>4, StagesAre DEF StartRun, artifacts
      <3>5. CASE k = 3
        BY <3>1, <3>2, <3>5, StagesAre DEF StartRun, artifacts
      <3>6. CASE k = 4
        BY <3>1, <3>2, <3>6, StagesAre DEF StartRun, artifacts
      <3>7. QED
        BY <3>1, <3>3, <3>4, <3>5, <3>6
    <2>4. QED
      BY <2>2, <2>3
  <1>8. QED
    BY <1>4, <1>5, <1>6, <1>7 DEF IInv

\* A stage that is under way keeps what it builds on.
LEMMA UpstreamKept ==
  ASSUME Upstream,
         \/ UNCHANGED plan /\ \A k \in 1 .. 4 : artifacts[k] # Nothing => artifacts'[k] # Nothing
         \/ plan' = <<>>
  PROVE  Upstream'
  <1> SUFFICES ASSUME NEW j \in 1 .. 5, plan' = Rest(j), NEW k \in 1 .. j - 1
               PROVE  artifacts'[k] # Nothing
    BY DEF Upstream, Rest
  <1>1. plan' # <<>>
    BY RestIs
  <1>2. k \in 1 .. 4
    OBVIOUS
  <1>3. QED
    BY <1>1, <1>2, UpstreamIs

\* What an agent or a person submits is one of the candidates.
LEMMA WritesKeep ==
  ASSUME IInv,
         WriteDiscovery \/ WriteAnalysis \/ WriteSuite \/ WritePrioritization
         \/ ReplaceTestCases \/ EditAnalysis
  PROVE  IInv'
  <1>1. UNCHANGED <<ctx, defects, visited, bugs, fanned, plan>>
    BY DEF WriteDiscovery, WriteAnalysis, WriteSuite, WritePrioritization, ReplaceTestCases, EditAnalysis
  <1>2. /\ disc' \in Discoveries \cup {disc}
        /\ analysis' \in Analyses \cup HandEdits \cup {analysis}
        /\ suite' \in Suites \cup {suite}
        /\ prio' \in Prioritizations \cup {prio}
    BY DEF WriteDiscovery, WriteAnalysis, WriteSuite, WritePrioritization, ReplaceTestCases, EditAnalysis
  <1>3. TypeOK'
    BY <1>1, <1>2 DEF IInv, TypeOK
  <1>4. Upstream'
    <2>1. \A k \in 1 .. 4 : artifacts[k] # Nothing => artifacts'[k] # Nothing
      <3>1. /\ disc # Nothing => disc' # Nothing
            /\ analysis # Nothing => analysis' # Nothing
            /\ suite # Nothing => suite' # Nothing
            /\ prio # Nothing => prio' # Nothing
        BY <1>2, CandidateAssumption
      <3>2. QED
        BY <3>1 DEF artifacts
    <2>2. QED
      BY <1>1, <2>1, UpstreamKept DEF IInv
  <1>5. QED
    BY <1>1, <1>3, <1>4 DEF IInv

\* The host's copies of the findings, and their reports.
LEMMA FanOutKeeps ==
  ASSUME IInv, FanOut
  PROVE  IInv'
  <1>1. PICK f \in DefectFindings : fanned' = Normalised(Known, analysis, f)
    BY DEF FanOut
  <1>2. IsPersisted(fanned')
    BY <1>1, NormalisedIs
  <1>3. \A n \in DOMAIN bugs' : IsReport(bugs'[n])
    BY <1>2, ReportsAre DEF FanOut
  <1>4. TypeOK'
    BY DEF FanOut, IInv, TypeOK
  <1>5. defects' = defects
    BY DEF FanOut
  <1>6. Upstream'
    BY UpstreamKept DEF FanOut, IInv, artifacts
  <1>7. QED
    BY <1>2, <1>3, <1>4, <1>5, <1>6 DEF IInv

\* The host going on, and a run ending.
LEMMA StagesKeep ==
  ASSUME IInv, PersistDefects \/ DiscoveryDone \/ NextStage \/ Stop
  PROVE  IInv'
  <1>1. UNCHANGED <<ctx, disc, analysis, suite, prio, bugs>>
    BY DEF PersistDefects, DiscoveryDone, NextStage, Stop
  <1>2. visited' \in Visits \cup {visited}
    BY DEF PersistDefects, DiscoveryDone, NextStage, Stop
  <1>3. plan' \in Plans
    <2>1. plan \in Plans
      BY DEF IInv, TypeOK, Plans
    <2>2. CASE PersistDefects
      BY <2>1, <2>2 DEF PersistDefects
    <2>3. CASE DiscoveryDone \/ NextStage
      <3>1. plan # <<>> /\ plan' = Tail(plan)
        BY <2>3 DEF DiscoveryDone, NextStage, At
      <3>2. QED
        BY <2>1, <3>1, PlansClosed
    <2>4. CASE Stop
      BY <2>4, PlansClosed DEF Stop
    <2>5. QED
      BY <2>2, <2>3, <2>4
  <1>4. TypeOK'
    BY <1>1, <1>2, <1>3 DEF IInv, TypeOK, Plans
  <1>5. defects' \in {defects, fanned} /\ fanned' \in {fanned, Nothing}
    BY DEF PersistDefects, DiscoveryDone, NextStage, Stop
  <1>6. Upstream'
    <2>1. \A k \in 1 .. 4 : artifacts'[k] = artifacts[k]
      BY <1>1 DEF artifacts
    <2>2. CASE PersistDefects \/ Stop
      <3>1. UNCHANGED plan \/ plan' = <<>>
        BY <2>2 DEF PersistDefects, Stop
      <3>2. QED
        BY <2>1, <3>1, UpstreamKept DEF IInv
    <2>3. CASE DiscoveryDone \/ NextStage
      <3>1. plan # <<>> /\ plan' = Tail(plan)
        BY <2>3 DEF DiscoveryDone, NextStage, At
      <3>2. PICK i \in 1 .. 5 : plan = Rest(i) /\ Head(plan) = Stages[i] /\ Tail(plan) = Rest(i + 1)
        BY <3>1, StageAt DEF IInv
      <3>3. i # 5 => artifacts[i] # Nothing
        <4>1. CASE DiscoveryDone
          <5>1. disc # Nothing /\ Stages[i] = "discovery"
            BY <3>2, <4>1 DEF DiscoveryDone, At
          <5>2. i = 1
            BY <5>1 DEF Stages
          <5>3. QED
            BY <5>1, <5>2, ArtifactsAre
        <4>2. CASE NextStage
          <5>1. StagePasses(Stages[i]) /\ Stages[i] # "discovery"
            BY <3>2, <4>2 DEF NextStage, At
          <5>2. i # 1 /\ i \in 1 .. 5
            BY <5>1, StagesAre
          <5>3. CASE i = 2
            BY <5>1, <5>3, StagesAre, ArtifactsAre DEF StagePasses
          <5>4. CASE i = 3
            BY <5>1, <5>4, StagesAre, ArtifactsAre DEF StagePasses
          <5>5. CASE i = 4
            BY <5>1, <5>5, StagesAre, ArtifactsAre DEF StagePasses
          <5>6. QED
            BY <5>2, <5>3, <5>4, <5>5
        <4>3. QED
          BY <2>3, <4>1, <4>2
      <3>4. SUFFICES ASSUME NEW j \in 1 .. 5, plan' = Rest(j), NEW k \in 1 .. j - 1
                     PROVE  artifacts'[k] # Nothing
        BY DEF Upstream, Rest
      <3>5. j = i + 1
        <4>1. Rest(j) = Rest(i + 1) /\ i + 1 \in 1 .. 6 /\ j \in 1 .. 6
          BY <3>1, <3>2, <3>4
        <4>2. QED
          BY <4>1, RestDistinct
      <3>6. k \in 1 .. 4 /\ (k = i \/ k \in 1 .. i - 1)
        BY <3>5
      <3>7. artifacts[k] # Nothing
        BY <3>2, <3>3, <3>6, UpstreamIs DEF IInv
      <3>8. QED
        BY <2>1, <3>6, <3>7
    <2>4. QED
      BY <2>2, <2>3
  <1>7. QED
    BY <1>1, <1>4, <1>5, <1>6 DEF IInv

\* A person changes a report's status and nothing else of it.
LEMMA StatusKeeps ==
  ASSUME IInv, Downgrade \/ EditBug
  PROVE  IInv'
  <1>1. UNCHANGED <<ctx, disc, analysis, suite, prio, defects, visited, fanned, plan>>
    BY DEF Downgrade, EditBug
  <1>2. PICK n \in DOMAIN bugs, status \in {"CONFIRMED", "POTENTIAL"} :
                bugs' = [bugs EXCEPT ![n] = [bugs[n] EXCEPT !.status = status]]
    BY DEF Downgrade, EditBug
  <1>3. DOMAIN bugs' = DOMAIN bugs
    BY <1>2
  <1>4. ASSUME NEW k \in DOMAIN bugs PROVE IsReport(bugs'[k])
    <2>1. IsReport(bugs[k])
      BY DEF IInv
    <2>2. CASE k = n
      <3>1. bugs'[k] = [bugs[k] EXCEPT !.status = status]
        BY <1>2, <2>2
      <3>2. DOMAIN bugs'[k] = DOMAIN bugs[k] /\ bugs'[k].finding = bugs[k].finding
        BY <2>1, <3>1 DEF IsReport
      <3>3. QED
        BY <2>1, <3>2 DEF IsReport
    <2>3. CASE k # n
      BY <1>2, <2>1, <2>3
    <2>4. QED
      BY <2>2, <2>3
  <1>5. TypeOK'
    BY <1>1 DEF IInv, TypeOK
  <1>6. Upstream'
    BY <1>1, UpstreamKept DEF IInv, artifacts
  <1>7. QED
    BY <1>1, <1>3, <1>4, <1>5, <1>6 DEF IInv

LEMMA StepIInv == IInv /\ [Next]_vars => IInv'
  <1> SUFFICES ASSUME IInv, [Next]_vars PROVE IInv'
    OBVIOUS
  <1>1. CASE UNCHANGED vars
    BY <1>1 DEF vars, IInv, TypeOK, Upstream, artifacts
  <1>2. CASE \E i \in 1 .. 5 : StartRun(Stages[i])
    BY <1>2, StartKeeps
  <1>3. CASE WriteDiscovery \/ WriteAnalysis \/ WriteSuite \/ WritePrioritization
             \/ ReplaceTestCases \/ EditAnalysis
    BY <1>3, WritesKeep
  <1>4. CASE FanOut
    BY <1>4, FanOutKeeps
  <1>5. CASE PersistDefects \/ DiscoveryDone \/ NextStage \/ Stop
    BY <1>5, StagesKeep
  <1>6. CASE Downgrade \/ EditBug
    BY <1>6, StatusKeeps
  <1>7. QED
    BY <1>1, <1>2, <1>3, <1>4, <1>5, <1>6 DEF Next

-----------------------------------------------------------------------------
(* An answer in full is accepted.                                          *)

LEMMA NoErr == \A code : Err(code, {}) = {}
  BY DEF Err

\* A text of plain mentions that some evidence makes is backed by it.
LEMMA RestatedIsBacked ==
  ASSUME NEW d, NEW c, NEW text, text \subseteq Base(d, c).said
  PROVE  /\ \A m \in Restated(text) : Supported(m, Base(d, c))
         /\ Invented(Restated(text), Base(d, c)) = {}
         /\ ~Contradicts(Restated(text), d)
  <1>1. \A m \in Restated(text) : Supported(m, Base(d, c))
    <2> SUFFICES ASSUME NEW m \in Restated(text) PROVE Supported(m, Base(d, c))
      OBVIOUS
    <2>1. Heard(m.what, Base(d, c))
      BY DEF Restated, Heard, What
    <2>2. m.as \in {"WORD", "NAME", "FEATURE", "EMAIL"}
      BY DEF Restated
    <2>3. QED
      BY <2>1, <2>2 DEF Supported
  <1>2. Invented(Restated(text), Base(d, c)) = {}
    BY <1>1 DEF Invented
  <1>3. ~Contradicts(Restated(text), d)
    BY DEF Contradicts, Restated
  <1>4. QED
    BY <1>1, <1>2, <1>3

\* A claim made of what it cites speaks of it.
LEMMA OwnWordsMeet ==
  ASSUME NEW claim, NEW text, NEW cited, claim \subseteq text, text \in cited
  PROVE  ~SaysNothingOf(claim, cited)
  <1> SUFFICES ASSUME claim # {} PROVE What(claim) \cap What(UNION cited) # {}
    BY DEF SaysNothingOf
  <1>1. PICK m \in claim : TRUE
    OBVIOUS
  <1>2. m \in claim /\ m \in UNION cited
    BY <1>1
  <1>3. m.what \in What(claim) /\ m.what \in What(UNION cited)
    BY <1>2 DEF What
  <1>4. QED
    BY <1>3

LEMMA FullAnalysisAccepted ==
  ASSUME IInv, disc # Nothing
  PROVE  RequirementsVerdict(FullAnalysis) = {}
  <1> DEFINE ops == ApiOperations(ctx)
             solid == {b \in DOMAIN disc : ~disc[b].suspected /\ disc[b].status # "INFERRED"}
             source(e) == IF e \in solid THEN disc[e].says ELSE ToldBy[e]
             a == FullAnalysis
  <1>1. /\ DOMAIN a.items = solid \cup ops
        /\ a.excluded = DOMAIN disc \ (solid \cup ops)
        /\ \A e \in solid \cup ops :
             a.items[e] = [evidence |-> {e}, testable |-> TRUE, type |-> "UNKNOWN", says |-> Restated(source(e))]
    BY DEF FullAnalysis
  <1> HIDE DEF a
  <1>2. ASSUME NEW e \in solid \cup ops
        PROVE  RequirementErrors(disc, a.items[e], ctx) = {}
    <2> DEFINE r == a.items[e]
               cited == {disc[x].says : x \in r.evidence \cap DOMAIN disc}
                        \cup {ToldBy[x] : x \in r.evidence \cap ApiOperations(ctx)}
    <2>1. /\ r.evidence = {e} /\ r.testable = TRUE /\ r.type = "UNKNOWN"
          /\ r.says = Restated(source(e))
      <3> HIDE DEF solid, ops, source
      <3>1. r = [evidence |-> {e}, testable |-> TRUE, type |-> "UNKNOWN", says |-> Restated(source(e))]
        BY <1>1
      <3>2. QED
        BY <3>1
    <2>2. e \in solid \/ (e \in ops /\ e \notin solid)
      OBVIOUS
    <2>3. source(e) \in cited
      BY <2>1, <2>2
    <2>4. source(e) \subseteq Base(disc, ctx).said
      <3>1. \/ e \in DOMAIN disc /\ source(e) = disc[e].says
            \/ e \in ApiOperations(ctx) /\ source(e) = ToldBy[e]
        BY <2>2
      <3>2. source(e) \in {disc[b].says : b \in DOMAIN disc}
                          \cup {ToldBy[o] : o \in ApiOperations(ctx) \cup AnsweredProbes(ctx)}
        BY <3>1
      <3>3. QED
        BY <3>2, BaseSays
    <2>5. StatementErrors(disc, r, ctx) = {}
      <3>1. Restated(source(e)) \subseteq source(e)
        BY DEF Restated
      <3> HIDE DEF r, cited, source
      <3>2. ~SaysNothingOf(r.says, cited)
        BY <2>1, <2>3, <3>1, OwnWordsMeet
      <3>3. Invented(r.says, BuildCorpus(disc, NoItems, {}, ctx)) = {} /\ ~Contradicts(r.says, disc)
        BY <2>1, <2>4, RestatedIsBacked DEF Base
      <3>4. QED
        BY <3>2, <3>3 DEF StatementErrors, cited
    <2>6. ~NotEvidence(disc, r, ctx)
      BY <2>1, <2>2 DEF NotEvidence
    <2>7. r.evidence \ (DOMAIN disc \cup ApiOperations(ctx)) = {} /\ r.evidence # {}
      BY <2>1, <2>2
    <2> HIDE DEF r
    <2>8. QED
      BY <2>1, <2>5, <2>6, <2>7, NoErr DEF RequirementErrors, r
  <1>3. Cited(a) = solid \cup ops
    <2> HIDE DEF solid, ops, source
    <2>1. ASSUME NEW e \in solid \cup ops PROVE a.items[e].evidence = {e}
      <3>1. a.items[e] = [evidence |-> {e}, testable |-> TRUE, type |-> "UNKNOWN", says |-> Restated(source(e))]
        BY <1>1
      <3>2. QED
        BY <3>1
    <2>2. QED
      BY <1>1, <2>1 DEF Cited
  <1>4. /\ (a.excluded \ DOMAIN disc) \cup (a.excluded \cap Cited(a)) = {}
        /\ Vanished(disc, a) = {}
    BY <1>1, <1>3 DEF Vanished
  <1>5. (UNION {RequirementErrors(disc, a.items[r], ctx) : r \in DOMAIN a.items}) = {}
    BY <1>1, <1>2
  <1>6. AnalysisErrors(disc, a, ctx) = {}
    BY <1>4, <1>5, NoErr DEF AnalysisErrors
  <1>7. QED
    BY <1>6 DEF RequirementsVerdict, a

\* What a requirement says its case may say: it is itself evidence by then.
LEMMA CaseMaySay ==
  ASSUME NEW d, NEW a, NEW c, NEW r \in DOMAIN a.items, RequirementErrors(d, a.items[r], c) = {}
  PROVE  Invented(a.items[r].says, BuildCorpus(d, a.items, {}, c)) = {}
  <1> DEFINE text == a.items[r].says
             base == Base(d, c)
             wide == BuildCorpus(d, a.items, {}, c)
  <1>1. \A m \in text : Supported(m, base)
    BY SoundRequirement
  <1>2. base.said \subseteq wide.said /\ wide.requests = base.requests
    <2>1. base.said \subseteq wide.said
      <3> DEFINE seen == {d[b].says : b \in DOMAIN d}
                 told == {ToldBy[e] : e \in ApiOperations(c) \cup AnsweredProbes(c)}
      <3>1. wide.said = UNION (seen \cup Statements(a.items) \cup {} \cup told)
        BY CorpusSays
      <3>2. base.said = UNION (seen \cup told)
        BY BaseSays
      <3> HIDE DEF seen, told, wide, base
      <3>3. QED
        BY <3>1, <3>2
    <2>2. QED
      BY <2>1, SameRequests
  <1> HIDE DEF base, wide
  <1>3. Routes(base) \subseteq Routes(wide)
    BY <1>2 DEF Routes
  <1>4. ASSUME NEW m \in text PROVE Supported(m, wide)
    <2>1. Supported(m, base)
      BY <1>1
    <2>2. CASE m.as \in {"NAME", "SECRET", "EMAIL", "FEATURE"}
      <3>1. Heard(m.what, base)
        BY <2>1, <2>2, SupportedMeans
      <3>2. Heard(m.what, wide)
        BY <1>2, <3>1 DEF Heard, What
      <3>3. QED
        BY <2>2, <3>2 DEF Supported
    <2>3. CASE m.as = "WORDING"
      <3>1. WasQuoted(m.what, base)
        BY <2>1, <2>3, SupportedMeans
      <3>2. WasQuoted(m.what, wide)
        BY <1>2, <3>1 DEF WasQuoted
      <3>3. QED
        BY <2>3, <3>2 DEF Supported
    <2>4. CASE m.as = "ROUTE"
      <3>1. m.what \in Routes(wide)
        BY <1>3, <2>1, <2>4, SupportedMeans
      <3>2. QED
        BY <2>4, <3>1 DEF Supported
    <2>5. CASE m.as = "REQUEST"
      <3>1. m.what.path \in Routes(wide) /\ MethodDeclared(m.what, base)
        BY <1>3, <2>1, <2>5, SupportedMeans
      <3>2. MethodDeclared(m.what, wide)
        BY <1>2, <3>1 DEF MethodDeclared
      <3>3. QED
        BY <2>5, <3>1, <3>2 DEF Supported
    <2>6. CASE m.as \notin {"NAME", "SECRET", "EMAIL", "FEATURE", "WORDING", "ROUTE", "REQUEST"}
      BY <2>6 DEF Supported
    <2>7. QED
      BY <2>2, <2>3, <2>4, <2>5, <2>6
  <1>5. QED
    BY <1>4 DEF Invented, wide

LEMMA FullSuiteAccepted ==
  ASSUME IInv, disc # Nothing, analysis # Nothing, AnalysisErrors(disc, analysis, ctx) = {}
  PROVE  SuiteVerdict(FullSuite) = {}
  <1> DEFINE items == analysis.items
             wanted == TestableRequirements(analysis, ctx)
             For(r) == [id |-> r, covers |-> {r}, evidence |-> {r}, types |-> {"positive"}, says |-> items[r].says,
                        level |-> IF items[r].evidence \cap ApiOperations(ctx) = {} THEN "UI" ELSE "API"]
  <1>1. FullSuite = {For(r) : r \in wanted}
    BY DEF FullSuite
  <1>2. wanted \subseteq DOMAIN items
    BY DEF TestableRequirements
  <1>3. ASSUME NEW r \in wanted
        PROVE  CaseErrors(disc, analysis, For(r), ctx) = {}
    <2> DEFINE tc == For(r)
    <2>1. /\ tc.id = r /\ tc.covers = {r} /\ tc.evidence = {r} /\ tc.says = items[r].says
          /\ tc.level = IF items[r].evidence \cap ApiOperations(ctx) = {} THEN "UI" ELSE "API"
      OBVIOUS
    <2> HIDE DEF tc
    <2>2. RequirementErrors(disc, items[r], ctx) = {} /\ r \in DOMAIN items
      BY <1>2, SoundAnalysis
    <2>3. RestsOn(analysis, tc) = items[r].evidence
      BY <2>1, <2>2 DEF RestsOn
    <2>4. items[r].evidence # {} /\ items[r].evidence \subseteq DOMAIN disc \cup ApiOperations(ctx)
      BY <2>2, SoundRequirement
    <2>5. LevelErrors(disc, analysis, tc, ctx) = {}
      <3>1. CASE items[r].evidence \cap ApiOperations(ctx) = {}
        <4>1. TestLevelOf(tc) = "UI"
          BY <2>1, <3>1 DEF TestLevelOf
        <4>2. ctx.mode # "API_ONLY"
          BY <3>1 DEF TestableRequirements, InCoverageScope
        <4>3. "UI" \in AllowedTestLevels(ctx.mode)
          BY <4>2 DEF AllowedTestLevels
        <4>4. QED
          BY <2>3, <3>1, <4>1, <4>3 DEF LevelErrors
      <3>2. CASE items[r].evidence \cap ApiOperations(ctx) # {}
        <4>1. TestLevelOf(tc) = "API"
          BY <2>1, <3>2 DEF TestLevelOf
        <4>2. ctx.mode # "UI_ONLY"
          BY <3>2 DEF ApiOperations, UsesApiDocs
        <4>3. "API" \in AllowedTestLevels(ctx.mode)
          BY <4>2 DEF AllowedTestLevels
        <4>4. QED
          BY <2>3, <3>2, <4>1, <4>3 DEF LevelErrors
      <3>3. QED
        BY <3>1, <3>2
    <2>6. CaseTextErrors(disc, analysis, tc, ctx) = {}
      <3>1. items[r].says \in EvidenceTexts(disc, analysis, tc, ctx)
        BY <2>1, <2>2 DEF EvidenceTexts
      <3>2. ~SaysNothingOf(tc.says, EvidenceTexts(disc, analysis, tc, ctx))
        BY <2>1, <3>1, OwnWordsMeet
      <3>3. Invented(tc.says, BuildCorpus(disc, analysis.items, {}, ctx)) = {}
        BY <2>1, <2>2, CaseMaySay
      <3>4. ~Contradicts(tc.says, disc)
        BY <2>1, <2>2, SoundRequirement
      <3>5. QED
        BY <3>2, <3>3, <3>4 DEF CaseTextErrors
    <2>7. NotEvidenced(analysis, tc) = {}
      BY <2>1 DEF NotEvidenced
    <2>8. tc.covers \subseteq DOMAIN items /\ tc.evidence \subseteq DOMAIN items /\ tc.covers # {} /\ tc.evidence # {}
      BY <2>1, <2>2
    <2>9. CaseErrors(disc, analysis, tc, ctx) = {}
      BY <2>5, <2>6, <2>7, <2>8 DEF CaseErrors
    <2>10. QED
      BY <2>9 DEF tc
  <1>4. \A r \in wanted : For(r).id = r /\ For(r).covers = {r}
    OBVIOUS
  <1> HIDE DEF wanted, For
  <1>5. DuplicateIds(FullSuite) = {}
    BY <1>1, <1>4 DEF DuplicateIds
  <1>6. Uncovered(analysis, FullSuite, ctx) = {}
    BY <1>1, <1>4 DEF Uncovered, wanted
  <1>7. AcrossLevels(FullSuite, ctx) = {}
    <2>1. \A t, u \in FullSuite : u.covers = t.covers => u = t
      BY <1>1, <1>4
    <2>2. QED
      BY <2>1 DEF AcrossLevels
  <1>8. (UNION {CaseErrors(disc, analysis, tc, ctx) : tc \in FullSuite}) = {}
    BY <1>1, <1>3
  <1>9. TestCasesErrors(disc, analysis, FullSuite, ctx) = {}
    BY <1>5, <1>6, <1>7, <1>8, NoErr DEF TestCasesErrors
  <1>10. QED
    BY <1>9 DEF SuiteVerdict

LEMMA FullPrioritizationAccepted ==
  ASSUME IInv, suite # Nothing
  PROVE  PrioritizationVerdict(FullPrioritization) = {}
  <1> DEFINE able == ObservedCapabilities(analysis, Requests, ctx)
             p == FullPrioritization
             For(id) == [case |-> id, mode |-> "AUTOMATION", priority |-> "MEDIUM", strategy |-> "UNKNOWN", says |-> {}]
  <1>1. p = {For(tc.id) : tc \in suite}
    BY DEF FullPrioritization
  <1>2. \A id : /\ For(id).case = id /\ For(id).mode = "AUTOMATION" /\ For(id).priority = "MEDIUM"
                /\ For(id).strategy = "UNKNOWN" /\ For(id).says = {}
    OBVIOUS
  <1> HIDE DEF able, p, For
  <1>3. ASSUME NEW tc \in suite
        PROVE  /\ EntryErrors(suite, For(tc.id), able) = {}
               /\ ReasonErrors(disc, analysis, suite, For(tc.id), ctx) = {}
               /\ EntriesOf(p, tc.id) = {For(tc.id)}
    <2> DEFINE e == For(tc.id)
    <2>1. /\ e.case = tc.id /\ e.mode = "AUTOMATION" /\ e.priority = "MEDIUM"
          /\ e.strategy = "UNKNOWN" /\ e.says = {}
      BY <1>2
    <2> HIDE DEF e
    <2>2. e.strategy \notin StrategyConflicts[e.mode]
      BY <2>1 DEF StrategyConflicts
    <2>3. e.strategy \notin LevelConflicts[StatedLevel(suite, e.case)]
      <3>1. StatedLevel(suite, e.case) \in {"UI", "API", "NONE"}
        <4>1. \A t \in suite : t.level \in {"UI", "API", "NONE"}
          BY CandidateAssumption DEF IInv, TypeOK, IsCase
        <4>2. QED
          BY <4>1 DEF StatedLevel
      <3>2. \A level \in {"UI", "API", "NONE"} : "UNKNOWN" \notin LevelConflicts[level]
        BY DEF LevelConflicts
      <3>3. QED
        BY <2>1, <3>1, <3>2
    <2>4. EntryErrors(suite, e, able) = {}
      BY <2>1, <2>2, <2>3 DEF EntryErrors
    <2>5. ReasonErrors(disc, analysis, suite, e, ctx) = {}
      BY <2>1 DEF ReasonErrors, InventedHardFact
    <2>6. EntriesOf(p, tc.id) = {e}
      BY <1>1, <1>2 DEF EntriesOf, e
    <2>7. QED
      BY <2>4, <2>5, <2>6 DEF e
  <1>4. \A tc \in suite : Cardinality(EntriesOf(p, tc.id)) = 1 /\ EntriesOf(p, tc.id) # {}
    BY <1>3, FS_Singleton
  <1>5. {tc.id : tc \in {t \in suite : Cardinality(EntriesOf(p, t.id)) > 1}} = {}
    BY <1>4
  <1>6. {tc.id : tc \in {t \in suite : EntriesOf(p, t.id) = {}}} = {}
    BY <1>4
  <1>7. (UNION {EntryErrors(suite, e, able) \cup ReasonErrors(disc, analysis, suite, e, ctx) : e \in p}) = {}
    BY <1>1, <1>3
  <1>8. PrioritizationErrors(disc, analysis, suite, p, able, ctx) = {}
    BY <1>5, <1>6, <1>7, NoErr DEF PrioritizationErrors
  <1>9. QED
    BY <1>8 DEF PrioritizationVerdict, p, able

LEMMA FullDefectsAccepted ==
  ASSUME IInv
  PROVE  Accepted(FullDefects)
  <1> DEFINE flagged == {b \in DOMAIN Known : Known[b].suspected}
             n == Normalised(Known, analysis, FullDefects)
             f == n[1]
  <1>1. Len(FullDefects) = 1
    BY DEF FullDefects
  <1>2. Len(n) = 1
    BY <1>1 DEF Normalised
  <1>3. /\ f.behaviors = flagged /\ f.requirements = {} /\ f.cases = {} /\ f.class = "INSUFFICIENT_EVIDENCE"
        /\ f.expected = {} /\ f.actual = {}
    BY <1>1 DEF Normalised, FullDefects
  <1>4. f.basis = ExpectedBasisOf(Known, analysis, f)
    <2>1. \A g : g.requirements = {} => ExpectedBasisOf(Known, analysis, g) = "NONE"
      BY DEF ExpectedBasisOf
    <2>2. FullDefects[1].requirements = {}
      BY DEF FullDefects
    <2>4. f.basis = ExpectedBasisOf(Known, analysis, FullDefects[1])
      BY <1>1 DEF Normalised
    <2> HIDE DEF f
    <2>3. QED
      BY <1>3, <2>1, <2>2, <2>4
  <1> HIDE DEF n, f
  <1>5. ~IsDefect(f.class)
    BY <1>3 DEF IsDefect
  <1>6. SourceErrors(Known, analysis, suite, f) = {}
    BY <1>3, NoErr DEF SourceErrors
  <1>7. FindingErrors(Known, analysis, suite, f, ctx) = {}
    BY <1>3, <1>4, <1>5, <1>6 DEF FindingErrors
  <1>8. DuplicateDefects(Known, n) = {}
    BY <1>2, <1>5 DEF DuplicateDefects, f
  <1>9. Unanalyzed(Known, n) = {}
    BY <1>2, <1>3 DEF Unanalyzed, f
  <1>10. (UNION {FindingErrors(Known, analysis, suite, n[i], ctx) : i \in 1 .. Len(n)}) = {}
    BY <1>2, <1>7 DEF f
  <1>11. DefectAnalysisErrors(Known, analysis, suite, n, ctx) = {}
    BY <1>8, <1>9, <1>10, NoErr DEF DefectAnalysisErrors
  <1>12. DOMAIN ReportsOf(n) = {}
    <2>1. {i \in 1 .. Len(n) : IsDefect(n[i].class)} = {}
      BY <1>2, <1>5 DEF f
    <2>2. DOMAIN ReportsOf(n) = 1 .. Cardinality({i \in 1 .. Len(n) : IsDefect(n[i].class)})
      BY DEF ReportsOf
    <2>3. 1 .. 0 = {}
      OBVIOUS
    <2>4. QED
      BY <2>1, <2>2, <2>3, FS_EmptySet
  <1>13. QED
    BY <1>11, <1>12 DEF Accepted, n

LEMMA RestatedIsText ==
  ASSUME NEW text, IsText(text)
  PROVE  IsText(Restated(text))
  BY DEF IsText, FoundAs, Restated

\* The answers are such as pass their schemas.
LEMMA FullAnswersTyped ==
  ASSUME IInv
  PROVE  /\ disc # Nothing => \A r \in DOMAIN FullAnalysis.items : IsRequirement(FullAnalysis.items[r])
         /\ analysis # Nothing => \A tc \in FullSuite : IsCase(tc)
         /\ \A e \in FullPrioritization : IsEntry(e)
         /\ \A i \in DOMAIN FullDefects : IsFinding(FullDefects[i])
  <1>0. IsText({})
    BY DEF IsText, FoundAs
  <1>1. ASSUME disc # Nothing, NEW r \in DOMAIN FullAnalysis.items
        PROVE  IsRequirement(FullAnalysis.items[r])
    <2> DEFINE solid == {b \in DOMAIN disc : ~disc[b].suspected /\ disc[b].status # "INFERRED"}
               text == IF r \in solid THEN disc[r].says ELSE ToldBy[r]
    <2>1. r \in solid \cup ApiOperations(ctx)
      BY <1>1 DEF FullAnalysis
    <2>2. \A b \in DOMAIN disc : IsText(disc[b].says)
      BY <1>1, CandidateAssumption DEF IInv, TypeOK, Unexplored, IsBehavior
    <2>3. \A o \in ApiOperations(ctx) : IsText(ToldBy[o])
      BY CandidateAssumption DEF IInv, TypeOK, ApiOperations
    <2>4. IsText(text)
      BY <2>1, <2>2, <2>3
    <2>5. FullAnalysis.items[r]
            = [evidence |-> {r}, testable |-> TRUE, type |-> "UNKNOWN", says |-> Restated(text)]
      BY <2>1 DEF FullAnalysis
    <2> HIDE DEF text
    <2>6. QED
      BY <2>4, <2>5, RestatedIsText DEF IsRequirement
  <1>2. ASSUME analysis # Nothing, NEW tc \in FullSuite
        PROVE  IsCase(tc)
    <2>1. \A r \in DOMAIN analysis.items : IsText(analysis.items[r].says)
      BY <1>2, CandidateAssumption DEF IInv, TypeOK, IsRequirement
    <2>2. QED
      BY <2>1 DEF FullSuite, TestableRequirements, IsCase
  <1>3. \A e \in FullPrioritization : IsEntry(e)
    BY <1>0 DEF FullPrioritization, IsEntry
  <1>4. \A i \in DOMAIN FullDefects : IsFinding(FullDefects[i])
    <2>1. DOMAIN FullDefects = {1}
      BY DEF FullDefects
    <2>2. {} \cup {} = {}
      OBVIOUS
    <2>3. IsFinding(FullDefects[1])
      BY <1>0, <2>2 DEF FullDefects, IsFinding, Classifications
    <2>4. QED
      BY <2>1, <2>3
  <1>5. QED
    BY <1>1, <1>2, <1>3, <1>4

LEMMA AnswerableState == IInv => Answerable
  <1> SUFFICES ASSUME IInv, NEW stage \in {"analysis", "design", "prioritization", "defects"}, At(stage)
               PROVE  /\ stage = "analysis" => RequirementsVerdict(FullAnalysis) = {}
                      /\ stage = "design" /\ AnalysisErrors(disc, analysis, ctx) = {} => SuiteVerdict(FullSuite) = {}
                      /\ stage = "prioritization" => PrioritizationVerdict(FullPrioritization) = {}
                      /\ stage = "defects" => Accepted(FullDefects)
    BY DEF Answerable
  <1>1. PICK i \in 1 .. 5 : plan = Rest(i) /\ Stages[i] = stage
    BY StageAt DEF At, IInv
  <1>2. \A k \in 1 .. i - 1 : artifacts[k] # Nothing
    BY <1>1, UpstreamIs DEF IInv
  <1>3. CASE stage = "analysis"
    <2>1. i = 2
      BY <1>1, <1>3, StagesAre
    <2>2. disc # Nothing
      BY <1>2, <2>1, ArtifactsAre
    <2>3. QED
      BY <1>3, <2>2, FullAnalysisAccepted
  <1>4. CASE stage = "design"
    <2>1. i = 3
      BY <1>1, <1>4, StagesAre
    <2>2. disc # Nothing /\ analysis # Nothing
      BY <1>2, <2>1, ArtifactsAre
    <2>3. QED
      BY <1>4, <2>2, FullSuiteAccepted
  <1>5. CASE stage = "prioritization"
    <2>1. i = 4
      BY <1>1, <1>5, StagesAre
    <2>2. suite # Nothing
      BY <1>2, <2>1, ArtifactsAre
    <2>3. QED
      BY <1>5, <2>2, FullPrioritizationAccepted
  <1>6. CASE stage = "defects"
    BY <1>6, FullDefectsAccepted
  <1>7. QED
    BY <1>3, <1>4, <1>5, <1>6

-----------------------------------------------------------------------------
(* Folds.  A fold over a sequence is the last of its partial results.      *)

\* What holds of 0 and passes from each number to the next holds up to n.
LEMMA UpTo ==
  ASSUME NEW n \in Nat, NEW S, 0 \in S, \A k \in 0 .. n - 1 : k \in S => k + 1 \in S
  PROVE  \A k \in 0 .. n : k \in S
  <1> DEFINE left == {k \in 0 .. n : k \notin S}
  <1> SUFFICES ASSUME left # {} PROVE FALSE
    OBVIOUS
  <1>1. PICK k \in left : \A j \in left : k <= j
    <2>1. left \subseteq Nat
      OBVIOUS
    <2> HIDE DEF left
    <2>2. QED
      BY <2>1, LeastNumber
  <1>2. k - 1 \in 0 .. n - 1 /\ k - 1 \notin left /\ (k - 1) + 1 = k
    BY <1>1
  <1>3. QED
    BY <1>1, <1>2

\* The greatest of some of the first numbers.
LEMMA GreatestOf ==
  ASSUME NEW n \in Nat, NEW s \in SUBSET (1 .. n), s # {}
  PROVE  Max(s) \in s /\ \A y \in s : Max(s) >= y
  <1> DEFINE bounds == {b \in Nat : \A y \in s : b >= y}
  <1>1. PICK b \in bounds : \A c \in bounds : b <= c
    <2>1. n \in bounds
      OBVIOUS
    <2>2. bounds \subseteq Nat /\ bounds # {}
      BY <2>1
    <2> HIDE DEF bounds
    <2>3. QED
      BY <2>2, LeastNumber
  <1>2. b \in s
    <2> SUFFICES ASSUME b \notin s PROVE FALSE
      OBVIOUS
    <2>0. \A y \in s : y \in 1 .. n
      OBVIOUS
    <2>1. b \in Nat /\ \A y \in s : b >= y
      BY <1>1
    <2>2. \A y \in s : b - 1 >= y /\ b >= 1
      <3> TAKE y \in s
      <3>1. y # b /\ y \in 1 .. n /\ b >= y
        BY <2>0, <2>1
      <3>2. QED
        BY <2>1, <3>1
    <2>3. b >= 1
      BY <2>2
    <2>4. b - 1 \in Nat /\ \A y \in s : b - 1 >= y
      BY <2>1, <2>2, <2>3
    <2>5. QED
      BY <1>1, <2>1, <2>4
  <1>3. \E x \in s : \A y \in s : x >= y
    BY <1>1, <1>2
  <1>4. QED
    BY <1>3 DEF Max

\* The four folds of the evidence: facts into rows, visits into rows,
\* occurrences into a total, and what the visits told into another.
FoldStep(kind, a, x) ==
  IF kind = "facts" THEN AccumulateOne(a, x)
  ELSE IF kind = "visits" THEN VisitOne(a, x)
  ELSE IF kind = "told" THEN a + Told(x)
  ELSE IF x.fact.type \in EvidenceTypes THEN a + x.occurrences ELSE a

\* The result of a fold by way of its partial results on sets of indices.
FoldedAt(kind, base, seq, g, s) ==
  IF s = {} THEN base ELSE FoldStep(kind, g[s \ {Max(s)}], seq[Max(s)])

IsFold(kind, base, seq, n, g) == g = [s \in SUBSET (1 .. n) |-> FoldedAt(kind, base, seq, g, s)]

LEMMA FoldExists ==
  ASSUME NEW kind, NEW base, NEW seq, NEW n \in Nat
  PROVE  \E g : IsFold(kind, base, seq, n, g)
  <1> DEFINE Folded(g, s) == FoldedAt(kind, base, seq, g, s)
             S == {k \in 0 .. n : \E g : \A s \in SUBSET (1 .. k) : g[s] = Folded(g, s)}
  <1>1. 0 \in S
    <2> DEFINE h == [t \in {{}} |-> base]
    <2>1. \A s \in SUBSET (1 .. 0) : s = {}
      OBVIOUS
    <2>2. h[{}] = base /\ Folded(h, {}) = base
      BY DEF FoldedAt
    <2> HIDE DEF h, Folded
    <2>3. \A s \in SUBSET (1 .. 0) : h[s] = Folded(h, s)
      BY <2>1, <2>2
    <2>4. QED
      BY <2>3
  <1>2. ASSUME NEW k \in 0 .. n - 1, k \in S PROVE k + 1 \in S
    <2>1. PICK g : \A s \in SUBSET (1 .. k) : g[s] = Folded(g, s)
      BY <1>2
    <2> DEFINE h == [s \in SUBSET (1 .. k + 1) |-> Folded(g, s)]
    <2>2. ASSUME NEW s \in SUBSET (1 .. k + 1) PROVE h[s] = Folded(h, s)
      <3>1. CASE s = {}
        BY <3>1 DEF FoldedAt
      <3>2. CASE s # {}
        <4>0. k \in Nat /\ k + 1 \in Nat /\ \A y \in s : y \in 1 .. k + 1
          OBVIOUS
        <4>1. Max(s) \in s /\ \A y \in s : Max(s) >= y
          BY <3>2, <4>0, GreatestOf
        <4>2. \A y \in s \ {Max(s)} : y \in 1 .. k
          <5> TAKE y \in s \ {Max(s)}
          <5>1. y \in 1 .. k + 1 /\ Max(s) \in 1 .. k + 1 /\ Max(s) >= y /\ y # Max(s)
            BY <4>0, <4>1
          <5>2. QED
            BY <5>1
        <4>3. s \ {Max(s)} \in SUBSET (1 .. k) /\ s \ {Max(s)} \in SUBSET (1 .. k + 1)
          BY <4>2
        <4>4. h[s \ {Max(s)}] = g[s \ {Max(s)}]
          BY <2>1, <4>3
        <4> HIDE DEF h
        <4>5. Folded(h, s) = Folded(g, s)
          BY <3>2, <4>4 DEF FoldedAt
        <4>6. QED
          BY <4>5 DEF h
      <3>3. QED
        BY <3>1, <3>2
    <2> HIDE DEF h
    <2>3. \E x : \A s \in SUBSET (1 .. k + 1) : x[s] = Folded(x, s)
      BY <2>2
    <2>4. k + 1 \in 0 .. n
      OBVIOUS
    <2>5. QED
      BY <2>3, <2>4
  <1>3. n \in S
    <2> HIDE DEF S
    <2>1. \A k \in 0 .. n : k \in S
      BY <1>1, <1>2, UpTo
    <2>2. QED
      BY <2>1
  <1>4. PICK g : \A s \in SUBSET (1 .. n) : g[s] = Folded(g, s)
    BY <1>3
  <1> DEFINE h == [s \in SUBSET (1 .. n) |-> Folded(g, s)]
  <1>5. ASSUME NEW s \in SUBSET (1 .. n) PROVE Folded(h, s) = Folded(g, s)
    <2>1. CASE s # {}
      <3>1. Max(s) \in s
        BY <2>1, GreatestOf
      <3>2. h[s \ {Max(s)}] = g[s \ {Max(s)}]
        BY <1>4
      <3> HIDE DEF h
      <3>3. QED
        BY <2>1, <3>2 DEF FoldedAt
    <2>2. CASE s = {}
      BY <2>2 DEF FoldedAt
    <2>3. QED
      BY <2>1, <2>2
  <1>6. IsFold(kind, base, seq, n, h)
    <2>1. h = [s \in SUBSET (1 .. n) |-> Folded(h, s)]
      <3> HIDE DEF Folded
      <3>1. QED
        BY <1>5
    <2> HIDE DEF h
    <2>2. QED
      BY <2>1 DEF IsFold
  <1>7. QED
    BY <1>6

\* The partial results on the first indices, one by one.
LEMMA FoldParts ==
  ASSUME NEW kind, NEW base, NEW seq, NEW n \in Nat, NEW g, IsFold(kind, base, seq, n, g)
  PROVE  /\ g[{}] = base
         /\ \A k \in 0 .. n - 1 : g[1 .. k + 1] = FoldStep(kind, g[1 .. k], seq[k + 1])
  <1>1. \A s \in SUBSET (1 .. n) : g[s] = FoldedAt(kind, base, seq, g, s)
    BY DEF IsFold
  <1>2. g[{}] = base
    BY <1>1 DEF FoldedAt
  <1>3. ASSUME NEW k \in 0 .. n - 1 PROVE g[1 .. k + 1] = FoldStep(kind, g[1 .. k], seq[k + 1])
    <2>1. 1 .. k + 1 \in SUBSET (1 .. n) /\ k + 1 \in 1 .. k + 1
      OBVIOUS
    <2>2. Max(1 .. k + 1) \in 1 .. k + 1 /\ Max(1 .. k + 1) >= k + 1
      BY <2>1, GreatestOf
    <2>3. Max(1 .. k + 1) = k + 1 /\ (1 .. k + 1) \ {k + 1} = 1 .. k
      BY <2>2
    <2>4. QED
      BY <1>1, <2>1, <2>3 DEF FoldedAt
  <1>4. QED
    BY <1>2, <1>3

\* The partial results of a fold, numbered.
Parts(kind, base, seq, n, part) ==
  /\ part[0] = base
  /\ \A k \in 0 .. n - 1 : part[k + 1] = FoldStep(kind, part[k], seq[k + 1])

LEMMA PartsOf ==
  ASSUME NEW kind, NEW base, NEW seq, NEW n \in Nat, NEW g, IsFold(kind, base, seq, n, g)
  PROVE  \E part : Parts(kind, base, seq, n, part) /\ part[n] = g[1 .. n]
  <1> DEFINE part == [k \in 0 .. n |-> g[1 .. k]]
  <1>1. g[{}] = base /\ \A k \in 0 .. n - 1 : g[1 .. k + 1] = FoldStep(kind, g[1 .. k], seq[k + 1])
    BY FoldParts
  <1>2. part[0] = base
    <2>1. 1 .. 0 = {}
      OBVIOUS
    <2>2. QED
      BY <1>1, <2>1
  <1>3. \A k \in 0 .. n - 1 : part[k + 1] = FoldStep(kind, part[k], seq[k + 1])
    BY <1>1
  <1>4. part[n] = g[1 .. n]
    OBVIOUS
  <1> HIDE DEF part
  <1>5. QED
    BY <1>2, <1>3, <1>4 DEF Parts

LEMMA AccumulateFolds ==
  ASSUME NEW acc, NEW facts, NEW n \in Nat, DOMAIN facts = 1 .. n
  PROVE  \E part : Parts("facts", acc, facts, n, part) /\ Accumulate(acc, facts) = part[n]
  <1> DEFINE Whole(g) == g = [s \in SUBSET (DOMAIN facts) |->
                                IF s = {} THEN acc ELSE AccumulateOne(g[s \ {Max(s)}], facts[Max(s)])]
             whole == CHOOSE g : Whole(g)
  <1>1. \A g : Whole(g) <=> IsFold("facts", acc, facts, n, g)
    BY DEF IsFold, FoldedAt, FoldStep
  <1>2. \E g : Whole(g)
    <2> HIDE DEF Whole
    <2>1. QED
      BY <1>1, FoldExists
  <1>3. Whole(whole)
    <2> HIDE DEF Whole
    <2>1. QED
      BY <1>2
  <1>4. Accumulate(acc, facts) = whole[DOMAIN facts]
    BY DEF Accumulate, FoldLeft, MapThenFoldSet
  <1> HIDE DEF Whole, whole
  <1>5. QED
    BY <1>1, <1>3, <1>4, PartsOf

NoRows == [findings |-> <<>>, overflow |-> 0]

LEMMA VisitsFold ==
  ASSUME NEW visits, NEW n \in Nat, DOMAIN visits = 1 .. n
  PROVE  \E part : /\ Parts("visits", NoRows, visits, n, part)
                   /\ FoldLeft(VisitOne, NoRows, visits) = part[n]
  <1> DEFINE Whole(g) == g = [s \in SUBSET (DOMAIN visits) |->
                                IF s = {} THEN NoRows ELSE VisitOne(g[s \ {Max(s)}], visits[Max(s)])]
             whole == CHOOSE g : Whole(g)
  <1>1. \A g : Whole(g) <=> IsFold("visits", NoRows, visits, n, g)
    BY DEF IsFold, FoldedAt, FoldStep
  <1>2. \E g : Whole(g)
    <2> HIDE DEF Whole
    <2>1. QED
      BY <1>1, FoldExists
  <1>3. Whole(whole)
    <2> HIDE DEF Whole
    <2>1. QED
      BY <1>2
  <1>4. FoldLeft(VisitOne, NoRows, visits) = whole[DOMAIN visits]
    BY DEF FoldLeft, MapThenFoldSet
  <1> HIDE DEF Whole, whole
  <1>5. QED
    BY <1>1, <1>3, <1>4, PartsOf

LEMMA ToldFolds ==
  ASSUME NEW visits, NEW n \in Nat, DOMAIN visits = 1 .. n
  PROVE  \E part : /\ Parts("told", 0, visits, n, part)
                   /\ AllTold(visits) = part[n]
  <1> DEFINE Whole(g) == g = [s \in SUBSET (DOMAIN visits) |->
                                IF s = {} THEN 0 ELSE g[s \ {Max(s)}] + Told(visits[Max(s)])]
             whole == CHOOSE g : Whole(g)
  <1>1. \A g : Whole(g) <=> IsFold("told", 0, visits, n, g)
    BY DEF IsFold, FoldedAt, FoldStep
  <1>2. \E g : Whole(g)
    <2> HIDE DEF Whole
    <2>1. QED
      BY <1>1, FoldExists
  <1>3. Whole(whole)
    <2> HIDE DEF Whole
    <2>1. QED
      BY <1>2
  <1>4. AllTold(visits) = whole[DOMAIN visits]
    BY DEF AllTold, FoldLeft, MapThenFoldSet
  <1> HIDE DEF Whole, whole
  <1>5. QED
    BY <1>1, <1>3, <1>4, PartsOf

LEMMA TotalFolds ==
  ASSUME NEW acc, NEW n \in Nat, DOMAIN acc.findings = 1 .. n
  PROVE  \E part : /\ Parts("occurs", 0, acc.findings, n, part)
                   /\ TotalFor(acc, EvidenceTypes) = part[n]
  <1> DEFINE rows == acc.findings
             Whole(g) == g = [s \in SUBSET (DOMAIN rows) |->
                                IF s = {} THEN 0
                                ELSE IF rows[Max(s)].fact.type \in EvidenceTypes
                                     THEN g[s \ {Max(s)}] + rows[Max(s)].occurrences
                                     ELSE g[s \ {Max(s)}]]
             whole == CHOOSE g : Whole(g)
  <1>1. \A g : Whole(g) <=> IsFold("occurs", 0, rows, n, g)
    BY DEF IsFold, FoldedAt, FoldStep
  <1>2. \E g : Whole(g)
    <2> HIDE DEF Whole
    <2>1. QED
      BY <1>1, FoldExists
  <1>3. Whole(whole)
    <2> HIDE DEF Whole
    <2>1. QED
      BY <1>2
  <1>4. TotalFor(acc, EvidenceTypes) = whole[DOMAIN rows]
    BY DEF TotalFor, FoldLeft, MapThenFoldSet
  <1> HIDE DEF Whole, whole
  <1>5. QED
    BY <1>1, <1>3, <1>4, PartsOf

-----------------------------------------------------------------------------
(* The rows.  What AccumulateOne makes of them, and what their total is.   *)

IsRow(row) ==
  /\ DOMAIN row = {"fact", "occurrences"}
  /\ row.fact.type \in EvidenceTypes
  /\ row.occurrences \in Nat

IsAcc(acc) ==
  /\ acc = [findings |-> acc.findings, overflow |-> acc.overflow]
  /\ acc.findings \in Seq({acc.findings[i] : i \in DOMAIN acc.findings})
  /\ \A i \in DOMAIN acc.findings : IsRow(acc.findings[i])
  /\ acc.overflow \in Nat

\* A function on the first numbers is a sequence of its values.
LEMMA SequenceOf ==
  ASSUME NEW s, NEW n \in Nat, NEW S, s \in [1 .. n -> S]
  PROVE  s \in Seq({s[i] : i \in DOMAIN s}) /\ Len(s) = n
  <1> DEFINE T == {s[i] : i \in DOMAIN s}
  <1>1. s \in [1 .. n -> T]
    OBVIOUS
  <1> HIDE DEF T
  <1>2. s \in Seq(T)
    BY <1>1, SeqDef
  <1>3. Len(s) = n
    BY <1>1
  <1>4. QED
    BY <1>2, <1>3 DEF T

LEMMA OwnSequence ==
  ASSUME NEW s, s \in Seq({s[i] : i \in DOMAIN s})
  PROVE  Len(s) \in Nat /\ DOMAIN s = 1 .. Len(s)
  <1> DEFINE S == {s[i] : i \in DOMAIN s}
  <1>1. s \in Seq(S)
    OBVIOUS
  <1> HIDE DEF S
  <1>2. QED
    BY <1>1

LEMMA RowsAre ==
  ASSUME NEW acc, IsAcc(acc)
  PROVE  Len(acc.findings) \in Nat /\ DOMAIN acc.findings = 1 .. Len(acc.findings)
  BY OwnSequence DEF IsAcc

\* The partial totals of rows are numbers.
LEMMA TotalParts ==
  ASSUME NEW acc, IsAcc(acc), NEW part,
         Parts("occurs", 0, acc.findings, Len(acc.findings), part)
  PROVE  \A k \in 0 .. Len(acc.findings) : part[k] \in Nat
  <1> DEFINE n == Len(acc.findings)
             S == {k \in 0 .. n : part[k] \in Nat}
  <1>1. n \in Nat /\ DOMAIN acc.findings = 1 .. n
    BY RowsAre
  <1>2. 0 \in S
    BY <1>1 DEF Parts
  <1>3. ASSUME NEW k \in 0 .. n - 1, k \in S PROVE k + 1 \in S
    <2>1. k + 1 \in 1 .. n /\ k + 1 \in 0 .. n
      BY <1>1
    <2>2. acc.findings[k + 1].occurrences \in Nat
      BY <1>1, <2>1 DEF IsAcc, IsRow
    <2>3. part[k + 1] = FoldStep("occurs", part[k], acc.findings[k + 1])
      BY DEF Parts
    <2>4. part[k] \in Nat
      BY <1>3
    <2>5. part[k + 1] \in Nat
      BY <2>2, <2>3, <2>4 DEF FoldStep
    <2>6. QED
      BY <2>1, <2>5
  <1> HIDE DEF S
  <1>4. \A k \in 0 .. n : k \in S
    BY <1>1, <1>2, <1>3, UpTo
  <1>5. QED
    BY <1>4 DEF S

LEMMA TotalIsNat ==
  ASSUME NEW acc, IsAcc(acc)
  PROVE  TotalFor(acc, EvidenceTypes) \in Nat
  <1>1. Len(acc.findings) \in Nat /\ DOMAIN acc.findings = 1 .. Len(acc.findings)
    BY RowsAre
  <1>2. PICK part : /\ Parts("occurs", 0, acc.findings, Len(acc.findings), part)
                    /\ TotalFor(acc, EvidenceTypes) = part[Len(acc.findings)]
    BY <1>1, TotalFolds
  <1>3. QED
    BY <1>1, <1>2, TotalParts

LEMMA TotalOfNone == TotalFor(NoRows, EvidenceTypes) = 0
  <1>1. DOMAIN NoRows.findings = 1 .. 0
    BY DEF NoRows
  <1>2. PICK part : /\ Parts("occurs", 0, NoRows.findings, 0, part)
                    /\ TotalFor(NoRows, EvidenceTypes) = part[0]
    BY <1>1, TotalFolds
  <1>3. QED
    BY <1>2 DEF Parts

\* One occurrence more on one row is one more in all.
LEMMA TotalOfRepeat ==
  ASSUME NEW acc, IsAcc(acc), NEW more, IsAcc(more), NEW i \in DOMAIN acc.findings,
         Len(more.findings) = Len(acc.findings),
         \A k \in DOMAIN acc.findings : k # i => more.findings[k] = acc.findings[k],
         more.findings[i].occurrences = acc.findings[i].occurrences + 1
  PROVE  TotalFor(more, EvidenceTypes) = TotalFor(acc, EvidenceTypes) + 1
  <1> DEFINE n == Len(acc.findings)
  <1>1. n \in Nat /\ DOMAIN acc.findings = 1 .. n /\ DOMAIN more.findings = 1 .. n
    BY RowsAre
  <1>2. PICK p : Parts("occurs", 0, acc.findings, n, p) /\ TotalFor(acc, EvidenceTypes) = p[n]
    BY <1>1, TotalFolds
  <1>3. PICK q : Parts("occurs", 0, more.findings, n, q) /\ TotalFor(more, EvidenceTypes) = q[n]
    BY <1>1, TotalFolds
  <1>4. \A k \in 0 .. n : p[k] \in Nat
    BY <1>2, TotalParts
  <1> DEFINE S == {k \in 0 .. n : q[k] = IF k >= i THEN p[k] + 1 ELSE p[k]}
  <1>5. 0 \in S
    BY <1>1, <1>2, <1>3 DEF Parts
  <1>6. ASSUME NEW k \in 0 .. n - 1, k \in S PROVE k + 1 \in S
    <2>1. k + 1 \in 1 .. n /\ k + 1 \in 0 .. n /\ k \in 0 .. n
      BY <1>1
    <2>2. p[k + 1] = FoldStep("occurs", p[k], acc.findings[k + 1])
      BY <1>2 DEF Parts
    <2>3. q[k + 1] = FoldStep("occurs", q[k], more.findings[k + 1])
      BY <1>3 DEF Parts
    <2>4. IsRow(acc.findings[k + 1]) /\ IsRow(more.findings[k + 1])
      BY <1>1, <2>1 DEF IsAcc
    <2>5. /\ p[k + 1] = p[k] + acc.findings[k + 1].occurrences
          /\ q[k + 1] = q[k] + more.findings[k + 1].occurrences
          /\ acc.findings[k + 1].occurrences \in Nat
      BY <2>2, <2>3, <2>4 DEF FoldStep, IsRow
    <2>6. p[k] \in Nat /\ i \in 1 .. n /\ k \in Nat /\ n \in Nat
      BY <1>1, <1>4, <2>1
    <2>7. q[k] = IF k >= i THEN p[k] + 1 ELSE p[k]
      BY <1>6
    <2>8. CASE k + 1 = i
      BY <2>1, <2>5, <2>6, <2>7, <2>8
    <2>9. CASE k + 1 # i
      <3>1. more.findings[k + 1] = acc.findings[k + 1]
        BY <1>1, <2>1, <2>9
      <3>2. QED
        BY <2>1, <2>5, <2>6, <2>7, <2>9, <3>1
    <2>10. QED
      BY <2>8, <2>9
  <1>7. \A k \in 0 .. n : k \in S
    <2> HIDE DEF S
    <2>1. QED
      BY <1>1, <1>5, <1>6, UpTo
  <1>8. n \in 0 .. n /\ n >= i
    BY <1>1
  <1>9. q[n] = p[n] + 1
    BY <1>7, <1>8
  <1>10. QED
    BY <1>2, <1>3, <1>9

\* A new row adds its occurrences.
LEMMA TotalOfAppend ==
  ASSUME NEW acc, IsAcc(acc), NEW more, IsAcc(more),
         Len(more.findings) = Len(acc.findings) + 1,
         \A k \in DOMAIN acc.findings : more.findings[k] = acc.findings[k]
  PROVE  TotalFor(more, EvidenceTypes)
           = TotalFor(acc, EvidenceTypes) + more.findings[Len(more.findings)].occurrences
  <1> DEFINE n == Len(acc.findings)
  <1>1. n \in Nat /\ DOMAIN acc.findings = 1 .. n /\ DOMAIN more.findings = 1 .. n + 1 /\ n + 1 \in Nat
    BY RowsAre
  <1>2. PICK p : Parts("occurs", 0, acc.findings, n, p) /\ TotalFor(acc, EvidenceTypes) = p[n]
    BY <1>1, TotalFolds
  <1>3. PICK q : Parts("occurs", 0, more.findings, n + 1, q) /\ TotalFor(more, EvidenceTypes) = q[n + 1]
    BY <1>1, TotalFolds
  <1> DEFINE S == {k \in 0 .. n : q[k] = p[k]}
  <1>4. 0 \in S
    BY <1>1, <1>2, <1>3 DEF Parts
  <1>5. ASSUME NEW k \in 0 .. n - 1, k \in S PROVE k + 1 \in S
    <2>1. k + 1 \in 1 .. n /\ k + 1 \in 0 .. n /\ k \in 0 .. (n + 1) - 1
      BY <1>1
    <2>2. p[k + 1] = FoldStep("occurs", p[k], acc.findings[k + 1])
      BY <1>2 DEF Parts
    <2>3. q[k + 1] = FoldStep("occurs", q[k], more.findings[k + 1])
      BY <1>3, <2>1 DEF Parts
    <2>4. more.findings[k + 1] = acc.findings[k + 1]
      BY <1>1, <2>1
    <2>5. q[k] = p[k]
      BY <1>5
    <2>6. QED
      BY <2>1, <2>2, <2>3, <2>4, <2>5
  <1>6. \A k \in 0 .. n : k \in S
    <2> HIDE DEF S
    <2>1. QED
      BY <1>1, <1>4, <1>5, UpTo
  <1>7. q[n] = p[n]
    BY <1>1, <1>6
  <1>8. q[n + 1] = FoldStep("occurs", q[n], more.findings[n + 1])
    <2>1. n \in 0 .. (n + 1) - 1
      BY <1>1
    <2>2. QED
      BY <1>3, <2>1 DEF Parts
  <1>9. IsRow(more.findings[n + 1])
    BY <1>1 DEF IsAcc
  <1>10. QED
    BY <1>2, <1>3, <1>7, <1>8, <1>9 DEF FoldStep, IsRow

\* The rows of a location.
Here(acc, loc) == {i \in 1 .. Len(acc.findings) : acc.findings[i].fact.loc = loc}

Capped(acc) ==
  \/ Len(acc.findings) = MaxFindings
  \/ \E i \in DOMAIN acc.findings :
       Cardinality(Here(acc, acc.findings[i].fact.loc)) = MaxFindingsPerLocation

\* What the rows are after so many occurrences: each is counted once, and one
\* is refused for a reason only.
Accounts(acc, occurrences) ==
  /\ IsAcc(acc)
  /\ \A i, j \in DOMAIN acc.findings :
       Fingerprint(acc.findings[i].fact) = Fingerprint(acc.findings[j].fact) => i = j
  /\ Len(acc.findings) <= MaxFindings
  /\ \A loc : Cardinality(Here(acc, loc)) <= MaxFindingsPerLocation
  /\ acc.overflow > 0 => Capped(acc)
  /\ TotalFor(acc, EvidenceTypes) + acc.overflow = occurrences

LEMMA HereIs ==
  ASSUME NEW acc, IsAcc(acc), NEW loc
  PROVE  IsFiniteSet(Here(acc, loc)) /\ Cardinality(Here(acc, loc)) \in Nat
  <1>1. IsFiniteSet(1 .. Len(acc.findings)) /\ Here(acc, loc) \subseteq 1 .. Len(acc.findings)
    BY RowsAre, FS_Interval DEF Here
  <1>2. QED
    BY <1>1, FS_Subset, FS_CardinalityType

LEMMA NoRowsAccount == Accounts(NoRows, 0)
  <1>1. NoRows.findings = <<>> /\ NoRows.overflow = 0 /\ Len(NoRows.findings) = 0 /\ DOMAIN NoRows.findings = {}
    BY DEF NoRows
  <1>2. IsAcc(NoRows)
    BY <1>1 DEF IsAcc, NoRows
  <1>3. \A loc : Here(NoRows, loc) = {}
    BY <1>1 DEF Here
  <1>4. \A loc : Cardinality(Here(NoRows, loc)) = 0
    BY <1>3, FS_EmptySet
  <1>5. QED
    BY <1>1, <1>2, <1>4, TotalOfNone, BoundsAssumption DEF Accounts

LEMMA RepeatCounted ==
  ASSUME NEW acc, NEW m \in Nat, Accounts(acc, m), NEW i \in DOMAIN acc.findings,
         NEW more, more = [acc EXCEPT !.findings[i].occurrences = @ + 1]
  PROVE  Accounts(more, m + 1)
  <1> DEFINE rows == acc.findings
             one == [rows[i] EXCEPT !.occurrences = @ + 1]
             n == Len(rows)
  <1>1. IsAcc(acc) /\ n \in Nat /\ DOMAIN rows = 1 .. n
    BY RowsAre DEF Accounts
  <1>2. IsRow(rows[i])
    BY <1>1 DEF IsAcc
  <1>3. IsRow(one) /\ one.fact = rows[i].fact /\ one.occurrences = rows[i].occurrences + 1
    BY <1>2 DEF IsRow
  <1>4. more = [findings |-> [rows EXCEPT ![i] = one], overflow |-> acc.overflow]
    <2>1. acc = [findings |-> rows, overflow |-> acc.overflow]
      BY <1>1 DEF IsAcc
    <2>2. QED
      BY <2>1
  <1>5. more.findings = [rows EXCEPT ![i] = one] /\ more.overflow = acc.overflow
    BY <1>4
  <1>6. /\ DOMAIN more.findings = 1 .. n
        /\ more.findings[i] = one
        /\ \A k \in 1 .. n : k # i => more.findings[k] = rows[k]
    BY <1>1, <1>5
  <1>7. more.findings \in Seq({more.findings[k] : k \in DOMAIN more.findings})
    <2> DEFINE S == {more.findings[k] : k \in 1 .. n}
    <2>1. more.findings \in [1 .. n -> S]
      BY <1>5, <1>6
    <2> HIDE DEF S
    <2>2. QED
      BY <1>1, <2>1, SequenceOf
  <1>8. Len(more.findings) = n
    BY <1>1, <1>6, <1>7
  <1>9. IsAcc(more)
    <2>1. \A k \in DOMAIN more.findings : IsRow(more.findings[k])
      BY <1>1, <1>3, <1>6 DEF IsAcc
    <2>2. more.overflow \in Nat
      BY <1>1, <1>5 DEF IsAcc
    <2>3. QED
      BY <1>4, <1>5, <1>7, <2>1, <2>2 DEF IsAcc
  <1>10. \A k \in 1 .. n : more.findings[k].fact = rows[k].fact
    BY <1>3, <1>6
  <1>11. \A loc : Here(more, loc) = Here(acc, loc)
    BY <1>8, <1>10 DEF Here
  <1>12. TotalFor(more, EvidenceTypes) = TotalFor(acc, EvidenceTypes) + 1
    <2>1. more.findings[i].occurrences = acc.findings[i].occurrences + 1
      BY <1>3, <1>6
    <2>2. \A k \in DOMAIN acc.findings : k # i => more.findings[k] = acc.findings[k]
      BY <1>1, <1>6
    <2> HIDE DEF one
    <2>3. QED
      BY <1>1, <1>8, <1>9, <2>1, <2>2, TotalOfRepeat
  <1>13. TotalFor(more, EvidenceTypes) + more.overflow = m + 1
    <2>1. TotalFor(acc, EvidenceTypes) \in Nat /\ acc.overflow \in Nat
      BY <1>1, TotalIsNat DEF IsAcc
    <2>2. QED
      BY <1>5, <1>12, <2>1 DEF Accounts
  <1>14. more.overflow > 0 => Capped(more)
    <2>1. acc.overflow > 0 => Capped(acc)
      BY DEF Accounts
    <2>2. Capped(acc) => Capped(more)
      BY <1>1, <1>6, <1>8, <1>10, <1>11 DEF Capped
    <2>3. QED
      BY <1>5, <2>1, <2>2
  <1>15. \A k, j \in DOMAIN more.findings :
           Fingerprint(more.findings[k].fact) = Fingerprint(more.findings[j].fact) => k = j
    BY <1>1, <1>6, <1>10 DEF Accounts
  <1>16. Len(more.findings) <= MaxFindings /\ \A loc : Cardinality(Here(more, loc)) <= MaxFindingsPerLocation
    BY <1>8, <1>11 DEF Accounts
  <1>17. QED
    BY <1>9, <1>13, <1>14, <1>15, <1>16 DEF Accounts

LEMMA RefusalCounted ==
  ASSUME NEW acc, NEW m \in Nat, Accounts(acc, m), NEW loc,
         Len(acc.findings) >= MaxFindings \/ Cardinality(Here(acc, loc)) >= MaxFindingsPerLocation,
         NEW more, more = [acc EXCEPT !.overflow = @ + 1]
  PROVE  Accounts(more, m + 1)
  <1>1. IsAcc(acc) /\ Len(acc.findings) \in Nat /\ DOMAIN acc.findings = 1 .. Len(acc.findings)
    BY RowsAre DEF Accounts
  <1>2. more = [findings |-> acc.findings, overflow |-> acc.overflow + 1]
    <2>1. acc = [findings |-> acc.findings, overflow |-> acc.overflow]
      BY <1>1 DEF IsAcc
    <2>2. QED
      BY <2>1
  <1>3. more.findings = acc.findings /\ more.overflow = acc.overflow + 1 /\ acc.overflow \in Nat
    BY <1>1, <1>2 DEF IsAcc
  <1>4. IsAcc(more)
    <2>1. {more.findings[i] : i \in DOMAIN more.findings} = {acc.findings[i] : i \in DOMAIN acc.findings}
      BY <1>3
    <2>2. more.findings \in Seq({more.findings[i] : i \in DOMAIN more.findings})
      BY <1>1, <1>3, <2>1 DEF IsAcc
    <2>3. more = [findings |-> more.findings, overflow |-> more.overflow]
      BY <1>2
    <2>4. more.overflow \in Nat
      BY <1>3
    <2>5. \A i \in DOMAIN more.findings : IsRow(more.findings[i])
      BY <1>1, <1>3 DEF IsAcc
    <2>6. QED
      BY <2>2, <2>3, <2>4, <2>5 DEF IsAcc
  <1>5. \A l : Here(more, l) = Here(acc, l)
    BY <1>3 DEF Here
  <1>6. TotalFor(more, EvidenceTypes) = TotalFor(acc, EvidenceTypes)
    BY <1>3 DEF TotalFor
  <1>7. TotalFor(more, EvidenceTypes) + more.overflow = m + 1
    <2>1. TotalFor(acc, EvidenceTypes) \in Nat /\ TotalFor(acc, EvidenceTypes) + acc.overflow = m
      BY <1>1, TotalIsNat DEF Accounts
    <2>2. QED
      BY <1>3, <1>6, <2>1
  <1>8. Capped(acc)
    <2>1. CASE Len(acc.findings) >= MaxFindings
      BY <1>1, <2>1, BoundsAssumption DEF Accounts, Capped
    <2>2. CASE Cardinality(Here(acc, loc)) >= MaxFindingsPerLocation
      <3>1. Cardinality(Here(acc, loc)) = MaxFindingsPerLocation
        <4>1. Cardinality(Here(acc, loc)) <= MaxFindingsPerLocation /\ Cardinality(Here(acc, loc)) \in Nat
          BY <1>1, HereIs DEF Accounts
        <4>2. QED
          BY <2>2, <4>1, BoundsAssumption
      <3>2. Here(acc, loc) # {}
        BY <3>1, BoundsAssumption, FS_EmptySet
      <3>3. PICK i \in DOMAIN acc.findings : acc.findings[i].fact.loc = loc
        BY <1>1, <3>2 DEF Here
      <3>4. QED
        BY <3>1, <3>3 DEF Capped
    <2>3. QED
      BY <2>1, <2>2
  <1>9. Capped(more)
    BY <1>3, <1>5, <1>8 DEF Capped
  <1>10. QED
    BY <1>3, <1>4, <1>5, <1>7, <1>9 DEF Accounts

LEMMA RowCounted ==
  ASSUME NEW acc, NEW m \in Nat, Accounts(acc, m), NEW f, f.type \in EvidenceTypes,
         \A i \in DOMAIN acc.findings : Fingerprint(acc.findings[i].fact) # Fingerprint(f),
         Len(acc.findings) < MaxFindings, Cardinality(Here(acc, f.loc)) < MaxFindingsPerLocation,
         NEW more, more = [acc EXCEPT !.findings = Append(@, [fact |-> f, occurrences |-> 1])]
  PROVE  Accounts(more, m + 1)
  <1> DEFINE rows == acc.findings
             one == [fact |-> f, occurrences |-> 1]
             n == Len(rows)
             S == {rows[k] : k \in DOMAIN rows} \cup {one}
  <1>1. IsAcc(acc) /\ n \in Nat /\ DOMAIN rows = 1 .. n
    BY RowsAre DEF Accounts
  <1>2. IsRow(one) /\ one.fact = f /\ one.occurrences = 1
    BY DEF IsRow
  <1>3. more = [findings |-> Append(rows, one), overflow |-> acc.overflow]
    <2>1. acc = [findings |-> rows, overflow |-> acc.overflow]
      BY <1>1 DEF IsAcc
    <2>2. QED
      BY <2>1
  <1>4. more.findings = Append(rows, one) /\ more.overflow = acc.overflow
    BY <1>3
  <1>5. rows \in Seq(S) /\ one \in S
    <2>1. rows \in [1 .. n -> S]
      <3>1. rows \in Seq({rows[k] : k \in DOMAIN rows})
        BY <1>1 DEF IsAcc
      <3>2. QED
        BY <1>1, <3>1
    <2>2. QED
      BY <1>1, <2>1, SeqDef
  <1>6. /\ Len(more.findings) = n + 1
        /\ DOMAIN more.findings = 1 .. n + 1
        /\ more.findings[n + 1] = one
        /\ \A k \in 1 .. n : more.findings[k] = rows[k]
    <2> HIDE DEF S, one
    <2>1. QED
      BY <1>1, <1>4, <1>5, AppendProperties
  <1>7. more.findings \in Seq({more.findings[k] : k \in DOMAIN more.findings})
    <2>1. more.findings \in Seq(S)
      <3> HIDE DEF S, one
      <3>1. QED
        BY <1>4, <1>5, AppendProperties
    <2> HIDE DEF S, one
    <2>2. more.findings \in [1 .. n + 1 -> S] /\ n + 1 \in Nat
      <3>1. more.findings \in [1 .. Len(more.findings) -> S]
        BY <2>1, LenProperties
      <3>2. QED
        BY <1>1, <1>6, <3>1
    <2>3. QED
      BY <2>2, SequenceOf
  <1>8. \A k \in 1 .. n + 1 : k = n + 1 \/ k \in 1 .. n
    BY <1>1
  <1>9. IsAcc(more)
    <2>1. \A k \in DOMAIN more.findings : IsRow(more.findings[k])
      BY <1>1, <1>2, <1>6, <1>8 DEF IsAcc
    <2>2. more.overflow \in Nat
      BY <1>1, <1>4 DEF IsAcc
    <2>3. QED
      BY <1>3, <1>4, <1>7, <2>1, <2>2 DEF IsAcc
  <1>10. \A k, j \in DOMAIN more.findings :
           Fingerprint(more.findings[k].fact) = Fingerprint(more.findings[j].fact) => k = j
    BY <1>1, <1>2, <1>6, <1>8 DEF Accounts
  <1>11. ASSUME NEW loc, loc # f.loc PROVE Here(more, loc) = Here(acc, loc)
    BY <1>1, <1>2, <1>6, <1>8, <1>11 DEF Here
  <1>12. Here(more, f.loc) = Here(acc, f.loc) \cup {n + 1} /\ n + 1 \notin Here(acc, f.loc)
    BY <1>1, <1>2, <1>6, <1>8 DEF Here
  <1>13. Cardinality(Here(more, f.loc)) = Cardinality(Here(acc, f.loc)) + 1
    BY <1>1, <1>12, HereIs, FS_AddElement
  <1>14. \A loc : Cardinality(Here(more, loc)) <= MaxFindingsPerLocation
    <2> TAKE loc
    <2>1. CASE loc = f.loc
      BY <1>1, <1>13, <2>1, HereIs, BoundsAssumption
    <2>2. CASE loc # f.loc
      BY <1>11, <2>2 DEF Accounts
    <2>3. QED
      BY <2>1, <2>2
  <1>15. Len(more.findings) <= MaxFindings
    BY <1>1, <1>6, BoundsAssumption
  <1>16. ASSUME more.overflow > 0 PROVE Capped(more)
    <2>1. Capped(acc) /\ Len(acc.findings) # MaxFindings
      BY <1>1, <1>4, <1>16, BoundsAssumption DEF Accounts
    <2>2. PICK i \in DOMAIN rows : Cardinality(Here(acc, rows[i].fact.loc)) = MaxFindingsPerLocation
      BY <2>1 DEF Capped
    <2>3. rows[i].fact.loc # f.loc
      BY <1>1, <2>2, HereIs, BoundsAssumption
    <2>4. i \in DOMAIN more.findings /\ more.findings[i] = rows[i]
      BY <1>1, <1>6
    <2>5. Cardinality(Here(more, more.findings[i].fact.loc)) = MaxFindingsPerLocation
      BY <1>11, <2>2, <2>3, <2>4
    <2>6. QED
      BY <2>4, <2>5 DEF Capped
  <1>17. TotalFor(more, EvidenceTypes) + more.overflow = m + 1
    <2>1. TotalFor(acc, EvidenceTypes) \in Nat /\ acc.overflow \in Nat
      BY <1>1, TotalIsNat DEF IsAcc
    <2>3. more.findings[Len(more.findings)].occurrences = 1
      BY <1>2, <1>6
    <2> HIDE DEF one, S
    <2>2. TotalFor(more, EvidenceTypes) = TotalFor(acc, EvidenceTypes) + more.findings[Len(more.findings)].occurrences
      BY <1>1, <1>6, <1>9, TotalOfAppend
    <2>4. QED
      BY <1>4, <2>1, <2>2, <2>3 DEF Accounts
  <1>18. QED
    BY <1>9, <1>10, <1>14, <1>15, <1>16, <1>17 DEF Accounts

\* A fact is one occurrence more, on its row, on a new one, or refused.
LEMMA FactCounted ==
  ASSUME NEW acc, NEW m \in Nat, Accounts(acc, m), NEW f, f.type \in EvidenceTypes
  PROVE  Accounts(AccumulateOne(acc, f), m + 1)
  <1> DEFINE seen == {i \in 1 .. Len(acc.findings) : Fingerprint(acc.findings[i].fact) = Fingerprint(f)}
  <1>1. IsAcc(acc) /\ Len(acc.findings) \in Nat /\ DOMAIN acc.findings = 1 .. Len(acc.findings)
    BY RowsAre DEF Accounts
  <1>2. CASE seen # {}
    <2>1. (CHOOSE i \in seen : TRUE) \in DOMAIN acc.findings
      BY <1>1, <1>2
    <2>2. AccumulateOne(acc, f) = [acc EXCEPT !.findings[CHOOSE i \in seen : TRUE].occurrences = @ + 1]
      BY <1>2 DEF AccumulateOne
    <2>3. QED
      BY <2>1, <2>2, RepeatCounted
  <1>3. CASE seen = {} /\ (\/ Len(acc.findings) >= MaxFindings
                           \/ Cardinality(Here(acc, f.loc)) >= MaxFindingsPerLocation)
    <2>1. AccumulateOne(acc, f) = [acc EXCEPT !.overflow = @ + 1]
      BY <1>3 DEF AccumulateOne, Here
    <2>2. QED
      BY <1>3, <2>1, RefusalCounted
  <1>4. CASE /\ seen = {}
             /\ ~ (\/ Len(acc.findings) >= MaxFindings
                   \/ Cardinality(Here(acc, f.loc)) >= MaxFindingsPerLocation)
    <2>1. AccumulateOne(acc, f) = [acc EXCEPT !.findings = Append(@, [fact |-> f, occurrences |-> 1])]
      BY <1>4 DEF AccumulateOne, Here
    <2>2. \A i \in DOMAIN acc.findings : Fingerprint(acc.findings[i].fact) # Fingerprint(f)
      BY <1>1, <1>4
    <2>3. Len(acc.findings) < MaxFindings /\ Cardinality(Here(acc, f.loc)) < MaxFindingsPerLocation
      BY <1>1, <1>4, HereIs, BoundsAssumption
    <2>4. QED
      BY <2>1, <2>2, <2>3, RowCounted
  <1>5. QED
    BY <1>2, <1>3, <1>4

-----------------------------------------------------------------------------
(* Places.  The entries at some places of a sequence are as many, each at  *)
(* a place of its own.                                                     *)

Rank(places, i) == Cardinality({j \in places : j <= i})

LEMMA PlacesAre ==
  ASSUME NEW n \in Nat, NEW places \in SUBSET (1 .. n)
  PROVE  /\ IsFiniteSet(places) /\ Cardinality(places) \in Nat
         /\ \A j \in places : j \in Nat /\ 1 <= j /\ j <= n
  <1>1. IsFiniteSet(1 .. n)
    BY FS_Interval
  <1>2. IsFiniteSet(places) /\ Cardinality(places) \in Nat
    BY <1>1, FS_Subset, FS_CardinalityType
  <1>3. ASSUME NEW j \in places PROVE j \in Nat /\ 1 <= j /\ j <= n
    <2>1. j \in 1 .. n
      OBVIOUS
    <2>2. QED
      BY <2>1
  <1>4. QED
    BY <1>2, <1>3

LEMMA RankIs ==
  ASSUME NEW n \in Nat, NEW places \in SUBSET (1 .. n), NEW i \in Nat
  PROVE  /\ IsFiniteSet({j \in places : j <= i})
         /\ Rank(places, i) \in Nat /\ Rank(places, i) <= Cardinality(places)
         /\ i >= n => Rank(places, i) = Cardinality(places)
  <1>1. \A j \in places : j \in Nat /\ j <= n
    BY PlacesAre
  <1>2. IsFiniteSet(places) /\ Cardinality(places) \in Nat
    BY PlacesAre
  <1>3. {j \in places : j <= i} \in SUBSET places
    OBVIOUS
  <1>4. IsFiniteSet({j \in places : j <= i}) /\ Cardinality({j \in places : j <= i}) <= Cardinality(places)
    BY <1>2, <1>3, FS_Subset
  <1>5. Cardinality({j \in places : j <= i}) \in Nat
    BY <1>4, FS_CardinalityType
  <1>6. ASSUME i >= n PROVE {j \in places : j <= i} = places
    <2>1. \A j \in places : j <= i
      <3> TAKE j \in places
      <3>1. j \in Nat /\ j <= n
        BY <1>1
      <3>2. QED
        BY <1>6, <3>1
    <2>2. QED
      BY <2>1
  <1>7. QED
    BY <1>2, <1>4, <1>5, <1>6 DEF Rank

LEMMA RankNext ==
  ASSUME NEW n \in Nat, NEW places \in SUBSET (1 .. n), NEW i \in Nat
  PROVE  Rank(places, i + 1) = IF i + 1 \in places THEN Rank(places, i) + 1 ELSE Rank(places, i)
  <1> DEFINE before == {j \in places : j <= i}
             after == {j \in places : j <= i + 1}
  <1>1. \A j \in places : (j <= i + 1 <=> j <= i \/ j = i + 1) /\ ~ (i + 1 <= i)
    <2> TAKE j \in places
    <2>1. j \in Nat
      BY PlacesAre
    <2>2. QED
      BY <2>1
  <1>2. IsFiniteSet(before) /\ Rank(places, i) = Cardinality(before) /\ Rank(places, i + 1) = Cardinality(after)
    BY RankIs DEF Rank
  <1>3. CASE i + 1 \in places
    <2>1. after = before \cup {i + 1} /\ i + 1 \notin before
      BY <1>1, <1>3
    <2> HIDE DEF before, after
    <2>2. Cardinality(before \cup {i + 1}) = Cardinality(before) + 1
      BY <1>2, <2>1, FS_AddElement
    <2>3. QED
      BY <1>2, <1>3, <2>1, <2>2
  <1>4. CASE i + 1 \notin places
    <2>1. after = before
      BY <1>1, <1>4
    <2>2. QED
      BY <1>2, <1>4, <2>1
  <1>5. QED
    BY <1>3, <1>4

\* No two places have the same rank.
LEMMA RankIsOwn ==
  ASSUME NEW n \in Nat, NEW places \in SUBSET (1 .. n), NEW i \in places, NEW k \in places, i < k
  PROVE  Rank(places, i) # Rank(places, k)
  <1> DEFINE low == {j \in places : j <= i}
             high == {j \in places : j <= k}
  <1>1. i \in Nat /\ k \in Nat /\ ~ (k <= i) /\ k <= k
    BY PlacesAre
  <1>0. \A j \in places : j <= i => j <= k
    <2> TAKE j \in places
    <2>1. j \in Nat
      BY PlacesAre
    <2>2. QED
      BY <1>1, <2>1
  <1>2. low \in SUBSET high /\ k \in high /\ k \notin low
    BY <1>0, <1>1
  <1>3. IsFiniteSet(high)
    BY <1>1, RankIs
  <1> HIDE DEF low, high
  <1>4. Cardinality(low) # Cardinality(high)
    BY <1>2, <1>3, FS_Subset
  <1>5. QED
    BY <1>4 DEF Rank, low, high

\* Each number up to how many places there are is the rank of one.
LEMMA RankTaken ==
  ASSUME NEW n \in Nat, NEW places \in SUBSET (1 .. n), NEW k \in 1 .. Cardinality(places)
  PROVE  \E i \in places : Rank(places, i) = k
  <1> DEFINE reached == {i \in Nat : Rank(places, i) >= k}
  <1>1. Cardinality(places) \in Nat /\ k \in Nat /\ k >= 1 /\ k <= Cardinality(places)
    BY PlacesAre
  <1>2. n \in reached
    <2>1. Rank(places, n) = Cardinality(places)
      <3>1. n >= n
        OBVIOUS
      <3>2. QED
        BY <3>1, RankIs
    <2>2. QED
      BY <1>1, <2>1
  <1>3. PICK i \in reached : \A m \in reached : i <= m
    <2>1. reached \subseteq Nat /\ reached # {}
      BY <1>2
    <2> HIDE DEF reached
    <2>2. QED
      BY <2>1, LeastNumber
  <1>4. i # 0
    <2>0. \A j \in places : ~ (j <= 0)
      <3> TAKE j \in places
      <3>1. j \in Nat /\ 1 <= j
        BY PlacesAre
      <3>2. QED
        BY <3>1
    <2>1. {j \in places : j <= 0} = {}
      BY <2>0
    <2>2. Rank(places, 0) = 0
      BY <2>1, FS_EmptySet DEF Rank
    <2>3. QED
      BY <1>1, <1>3, <2>2
  <1>5. i - 1 \in Nat /\ (i - 1) + 1 = i /\ i - 1 \notin reached
    BY <1>3, <1>4
  <1>6. Rank(places, i - 1) < k /\ Rank(places, i - 1) \in Nat
    <2>1. Rank(places, i - 1) \in Nat
      BY <1>5, RankIs
    <2>2. ~ (Rank(places, i - 1) >= k)
      BY <1>5
    <2>3. QED
      BY <1>1, <2>1, <2>2
  <1>7. Rank(places, i) = IF i \in places THEN Rank(places, i - 1) + 1 ELSE Rank(places, i - 1)
    BY <1>5, RankNext
  <1>8. Rank(places, i) >= k
    BY <1>3
  <1>9. QED
    BY <1>1, <1>6, <1>7, <1>8

LEMMA NthIs ==
  ASSUME NEW n \in Nat, NEW places \in SUBSET (1 .. n)
  PROVE  /\ \A k \in 1 .. Cardinality(places) : Nth(places, k) \in places
         /\ \A k, l \in 1 .. Cardinality(places) : Nth(places, k) = Nth(places, l) => k = l
         /\ \A i \in places : \E k \in 1 .. Cardinality(places) : Nth(places, k) = i
  <1>1. ASSUME NEW k \in 1 .. Cardinality(places)
        PROVE  Nth(places, k) \in places /\ Rank(places, Nth(places, k)) = k
    <2>1. PICK i \in places : Rank(places, i) = k
      BY RankTaken
    <2>2. \E m \in places : Cardinality({j \in places : j <= m}) = k
      BY <2>1 DEF Rank
    <2>3. QED
      BY <2>2 DEF Nth, Rank
  <1>2. ASSUME NEW i \in places PROVE \E k \in 1 .. Cardinality(places) : Nth(places, k) = i
    <2>0. i \in Nat /\ i >= 1
      BY PlacesAre
    <2>1. i \in Nat /\ (i - 1) \in Nat /\ (i - 1) + 1 = i
      BY <2>0
    <2>2. Rank(places, i) \in 1 .. Cardinality(places)
      <3>0. Rank(places, (i - 1) + 1)
              = IF (i - 1) + 1 \in places THEN Rank(places, i - 1) + 1 ELSE Rank(places, i - 1)
        BY <2>1, RankNext
      <3>1. Rank(places, i) = Rank(places, i - 1) + 1
        BY <2>1, <3>0
      <3>2. /\ Rank(places, i - 1) \in Nat /\ Cardinality(places) \in Nat
            /\ Rank(places, i) \in Nat /\ Rank(places, i) <= Cardinality(places)
        BY <2>1, RankIs, PlacesAre
      <3>3. QED
        BY <3>1, <3>2
    <2> DEFINE k == Rank(places, i)
               m == Nth(places, k)
    <2>3. m \in places /\ Rank(places, m) = Rank(places, i)
      BY <1>1, <2>2
    <2>4. m \in Nat /\ i \in Nat
      BY <2>3, PlacesAre
    <2>5. m = i
      <3>1. ~ (m < i) /\ ~ (i < m)
        <4> HIDE DEF m, k
        <4>1. QED
          BY <2>3, RankIsOwn
      <3>2. QED
        BY <2>4, <3>1
    <2>6. QED
      BY <2>2, <2>5
  <1>3. QED
    BY <1>1, <1>2

LEMMA OnlyIs ==
  ASSUME NEW n \in Nat, NEW places \in SUBSET (1 .. n), NEW s
  PROVE  /\ Cardinality(places) \in Nat
         /\ DOMAIN Only(s, places) = 1 .. Cardinality(places)
         /\ Len(Only(s, places)) = Cardinality(places)
         /\ \A k \in 1 .. Cardinality(places) : Only(s, places)[k] = s[Nth(places, k)]
  <1> DEFINE S == {s[Nth(places, k)] : k \in 1 .. Cardinality(places)}
  <1>1. Cardinality(places) \in Nat
    BY PlacesAre
  <1>2. Only(s, places) \in [1 .. Cardinality(places) -> S]
    BY DEF Only
  <1> HIDE DEF S
  <1>3. Len(Only(s, places)) = Cardinality(places)
    BY <1>1, <1>2, SequenceOf
  <1>4. QED
    BY <1>1, <1>3 DEF Only

\* As many ranks as places, among those that are picked by their place.
LEMMA SameNumber ==
  ASSUME NEW n \in Nat, NEW places \in SUBSET (1 .. n), NEW some \in SUBSET places
  PROVE  LET ranks == {k \in 1 .. Cardinality(places) : Nth(places, k) \in some}
         IN  IsFiniteSet(ranks) /\ Cardinality(ranks) = Cardinality(some)
  <1> DEFINE ranks == {k \in 1 .. Cardinality(places) : Nth(places, k) \in some}
             f == [k \in ranks |-> Nth(places, k)]
  <1>1. Cardinality(places) \in Nat
    BY PlacesAre
  <1>2. IsFiniteSet(1 .. Cardinality(places)) /\ ranks \in SUBSET (1 .. Cardinality(places))
    BY <1>1, FS_Interval
  <1>3. IsFiniteSet(ranks)
    <2> HIDE DEF ranks
    <2>1. QED
      BY <1>2, FS_Subset
  <1>4. f \in [ranks -> some]
    OBVIOUS
  <1>5. \A a, b \in ranks : f[a] = f[b] => a = b
    BY NthIs
  <1>6. ASSUME NEW t \in some PROVE \E a \in ranks : f[a] = t
    <2>1. PICK k \in 1 .. Cardinality(places) : Nth(places, k) = t
      BY NthIs
    <2>2. k \in ranks /\ f[k] = t
      BY <2>1
    <2>3. QED
      BY <2>2
  <1>7. f \in Bijection(ranks, some)
    <2> HIDE DEF f, ranks
    <2>1. QED
      BY <1>4, <1>5, <1>6, Fun_IsBij
  <1>8. ExistsBijection(ranks, some)
    <2> HIDE DEF f, ranks
    <2>1. QED
      BY <1>7 DEF ExistsBijection
  <1> HIDE DEF ranks
  <1>9. Cardinality(some) = Cardinality(ranks)
    BY <1>3, <1>8, FS_Bijection
  <1>10. QED
    BY <1>3, <1>9 DEF ranks

-----------------------------------------------------------------------------
(* A visit.  What its logs leave is what it is said to have told.          *)

LEMMA LogsAre ==
  ASSUME NEW v, IsVisit(v)
  PROVE  /\ Len(v.console) \in Nat /\ DOMAIN v.console = 1 .. Len(v.console)
         /\ Len(v.network) \in Nat /\ DOMAIN v.network = 1 .. Len(v.network)
         /\ SpokenIn(v) \in SUBSET (1 .. Len(v.console))
         /\ FailedIn(v) \in SUBSET (1 .. Len(v.network))
         /\ SpokenIn(v) = {i \in DOMAIN v.console : v.console[i].level \in {"ERROR", "WARNING"}}
         /\ EchoesIn(v) \in SUBSET SpokenIn(v)
  <1>1. Len(v.console) \in Nat /\ DOMAIN v.console = 1 .. Len(v.console)
    BY OwnSequence DEF IsVisit
  <1>2. Len(v.network) \in Nat /\ DOMAIN v.network = 1 .. Len(v.network)
    BY OwnSequence DEF IsVisit
  <1>3. \A i \in DOMAIN v.console : v.console[i].level # "INFO" <=> v.console[i].level \in {"ERROR", "WARNING"}
    BY DEF IsVisit
  <1>4. QED
    BY <1>1, <1>2, <1>3 DEF SpokenIn, FailedIn, EchoesIn

LEMMA ConsoleFacts ==
  ASSUME NEW v, IsVisit(v)
  PROVE  LET con == ClassifyConsole(v)
             m == Cardinality(SpokenIn(v))
         IN  /\ m \in Nat /\ con \in [1 .. m -> {con[k] : k \in 1 .. m}]
             /\ \A k \in 1 .. m :
                  LET c == v.console[Nth(SpokenIn(v), k)]
                  IN  /\ con[k].type = (IF c.level = "ERROR" THEN "CONSOLE_ERROR" ELSE "CONSOLE_WARNING")
                      /\ con[k].text = c.text /\ con[k].source = c.source
                      /\ DOMAIN con[k] = {"type", "loc", "text", "source", "suspect"}
  <1> DEFINE C == SpokenIn(v)
             said == Only(v.console, C)
             con == ClassifyConsole(v)
             m == Cardinality(C)
  <1>1. C \in SUBSET (1 .. Len(v.console)) /\ Len(v.console) \in Nat
    BY LogsAre
  <1>2. m \in Nat /\ Len(said) = m /\ \A k \in 1 .. m : said[k] = v.console[Nth(C, k)]
    <2> HIDE DEF C
    <2>1. QED
      BY <1>1, OnlyIs
  <1>3. con = [i \in 1 .. Len(said) |->
                 Fact(IF said[i].level = "ERROR" THEN "CONSOLE_ERROR" ELSE "CONSOLE_WARNING",
                      v, said[i].text, said[i].source)]
    BY LogsAre DEF ClassifyConsole
  <1> HIDE DEF con, said, C
  <1>4. ASSUME NEW k \in 1 .. m
        PROVE  con[k] = Fact(IF said[k].level = "ERROR" THEN "CONSOLE_ERROR" ELSE "CONSOLE_WARNING",
                             v, said[k].text, said[k].source)
    BY <1>2, <1>3
  <1>5. con \in [1 .. m -> {con[k] : k \in 1 .. m}]
    BY <1>2, <1>3
  <1>6. ASSUME NEW k \in 1 .. m
        PROVE  LET c == v.console[Nth(C, k)]
               IN  /\ con[k].type = (IF c.level = "ERROR" THEN "CONSOLE_ERROR" ELSE "CONSOLE_WARNING")
                   /\ con[k].text = c.text /\ con[k].source = c.source
                   /\ DOMAIN con[k] = {"type", "loc", "text", "source", "suspect"}
    <2> DEFINE kind == IF said[k].level = "ERROR" THEN "CONSOLE_ERROR" ELSE "CONSOLE_WARNING"
    <2>1. said[k] = v.console[Nth(C, k)]
      BY <1>2
    <2> HIDE DEF kind
    <2>2. con[k] = [type |-> kind, loc |-> v.loc, text |-> said[k].text, source |-> said[k].source, suspect |-> FALSE]
      BY <1>4 DEF Fact, kind
    <2>3. /\ con[k].type = kind /\ con[k].text = said[k].text /\ con[k].source = said[k].source
          /\ DOMAIN con[k] = {"type", "loc", "text", "source", "suspect"}
      BY <2>2
    <2>4. QED
      BY <2>1, <2>3 DEF kind
  <1>7. QED
    BY <1>2, <1>5, <1>6 DEF con, C

LEMMA NetworkFacts ==
  ASSUME NEW v, IsVisit(v)
  PROVE  LET net == ClassifyNetwork(v)
             m == Cardinality(FailedIn(v))
         IN  /\ m \in Nat /\ net \in [1 .. m -> {net[k] : k \in 1 .. m}]
             /\ \A k \in 1 .. m :
                  /\ net[k].type \in NetworkTypes
                  /\ net[k].source = v.network[Nth(FailedIn(v), k)].url
                  /\ DOMAIN net[k] = {"type", "loc", "text", "source", "suspect"}
  <1> DEFINE F == FailedIn(v)
             sent == Only(v.network, F)
             net == ClassifyNetwork(v)
             m == Cardinality(F)
  <1>1. F \in SUBSET (1 .. Len(v.network)) /\ Len(v.network) \in Nat
    BY LogsAre
  <1>2. m \in Nat /\ Len(sent) = m /\ \A k \in 1 .. m : sent[k] = v.network[Nth(F, k)]
    <2> HIDE DEF F
    <2>1. QED
      BY <1>1, OnlyIs
  <1>3. net = [i \in 1 .. Len(sent) |->
                 Fact(IF sent[i].static THEN "BROKEN_RESOURCE" ELSE "REQUEST_FAILED",
                      v, sent[i].url, sent[i].url)]
    BY DEF ClassifyNetwork, FailedIn
  <1> HIDE DEF net, sent, F
  <1>4. ASSUME NEW k \in 1 .. m
        PROVE  net[k] = Fact(IF sent[k].static THEN "BROKEN_RESOURCE" ELSE "REQUEST_FAILED",
                             v, sent[k].url, sent[k].url)
    BY <1>2, <1>3
  <1>5. net \in [1 .. m -> {net[k] : k \in 1 .. m}]
    BY <1>2, <1>3
  <1>6. ASSUME NEW k \in 1 .. m
        PROVE  /\ net[k].type \in NetworkTypes
               /\ net[k].source = v.network[Nth(F, k)].url
               /\ DOMAIN net[k] = {"type", "loc", "text", "source", "suspect"}
    <2>1. (IF sent[k].static THEN "BROKEN_RESOURCE" ELSE "REQUEST_FAILED") \in NetworkTypes
      BY DEF NetworkTypes
    <2> DEFINE kind == IF sent[k].static THEN "BROKEN_RESOURCE" ELSE "REQUEST_FAILED"
    <2>2. sent[k] = v.network[Nth(F, k)] /\ kind \in NetworkTypes
      BY <1>2, <2>1
    <2> HIDE DEF kind
    <2>3. net[k] = [type |-> kind, loc |-> v.loc, text |-> sent[k].url, source |-> sent[k].url, suspect |-> FALSE]
      BY <1>4 DEF Fact, kind
    <2>4. /\ net[k].type = kind /\ net[k].source = sent[k].url
          /\ DOMAIN net[k] = {"type", "loc", "text", "source", "suspect"}
      BY <2>3
    <2>5. QED
      BY <2>2, <2>4
  <1>7. QED
    BY <1>2, <1>5, <1>6 DEF net, F

\* A sequence of so many facts that rows can be made of.
AreFacts(facts, n) ==
  /\ n \in Nat
  /\ DOMAIN facts = 1 .. n
  /\ \A k \in 1 .. n : facts[k].type \in EvidenceTypes

LEMMA LoadTells ==
  ASSUME NEW v, IsVisit(v), v.outcome \in {"READ", "HALF_READ"}
  PROVE  AreFacts(LoadFacts(v), Told(v))
  <1> DEFINE C == SpokenIn(v)
             F == FailedIn(v)
             con == ClassifyConsole(v)
             net == IF v.outcome = "READ" THEN ClassifyNetwork(v) ELSE <<>>
             m == Cardinality(C)
             q == IF v.outcome = "READ" THEN Cardinality(F) ELSE 0
             all == con \o net
             Echoed(k) == /\ all[k].type = "CONSOLE_ERROR" /\ all[k].text = EchoText
                          /\ \E i \in 1 .. Len(all) : all[i].type \in NetworkTypes /\ all[i].source = all[k].source
             keep == {k \in 1 .. Len(all) : ~ Echoed(k)}
             told == IF v.outcome = "READ" THEN C \ EchoesIn(v) ELSE C
             early == {k \in 1 .. m : Nth(C, k) \in told}
  <1>1. /\ m \in Nat /\ con \in [1 .. m -> {con[k] : k \in 1 .. m}]
        /\ \A k \in 1 .. m :
             LET c == v.console[Nth(C, k)]
             IN  /\ con[k].type = (IF c.level = "ERROR" THEN "CONSOLE_ERROR" ELSE "CONSOLE_WARNING")
                 /\ con[k].text = c.text /\ con[k].source = c.source
                 /\ DOMAIN con[k] = {"type", "loc", "text", "source", "suspect"}
    BY ConsoleFacts
  <1>2. /\ Cardinality(F) \in Nat /\ q \in Nat /\ net \in [1 .. q -> {net[k] : k \in 1 .. q}]
        /\ \A k \in 1 .. q :
             /\ net[k].type \in NetworkTypes
             /\ net[k].source = v.network[Nth(F, k)].url
             /\ DOMAIN net[k] = {"type", "loc", "text", "source", "suspect"}
    <2>1. CASE v.outcome = "READ"
      <3> DEFINE w == ClassifyNetwork(v)
                 c == Cardinality(F)
      <3>1. /\ c \in Nat /\ w \in [1 .. c -> {w[k] : k \in 1 .. c}]
            /\ \A k \in 1 .. c :
                 /\ w[k].type \in NetworkTypes
                 /\ w[k].source = v.network[Nth(F, k)].url
                 /\ DOMAIN w[k] = {"type", "loc", "text", "source", "suspect"}
        BY NetworkFacts
      <3>2. net = w /\ q = c
        BY <2>1
      <3> HIDE DEF w, c, net, q, F
      <3>3. QED
        BY <3>1, <3>2 DEF c
    <2>2. CASE v.outcome # "READ"
      <3>1. net = <<>> /\ q = 0 /\ Cardinality(F) \in Nat
        BY <2>2, NetworkFacts
      <3>2. 1 .. 0 = {} /\ <<>> \in [1 .. 0 -> {}]
        OBVIOUS
      <3> HIDE DEF net, q, F
      <3>3. QED
        BY <3>1, <3>2
    <2>3. QED
      BY <2>1, <2>2
  <1>3. /\ Len(all) = m + q /\ m + q \in Nat
        /\ \A k \in 1 .. m : all[k] = con[k] /\ k \in 1 .. m + q
        /\ \A k \in 1 .. q : all[m + k] = net[k] /\ m + k \in 1 .. m + q
    <2> DEFINE S == {con[k] : k \in 1 .. m} \cup {net[k] : k \in 1 .. q}
    <2> HIDE DEF con, net, m, q
    <2>1. con \in [1 .. m -> S] /\ net \in [1 .. q -> S]
      BY <1>1, <1>2
    <2> HIDE DEF S
    <2>2. con \in Seq(S) /\ Len(con) = m /\ net \in Seq(S) /\ Len(net) = q
      <3>1. con \in Seq(S) /\ net \in Seq(S)
        BY <1>1, <1>2, <2>1, SeqDef
      <3>2. Len(con) = m
        BY <1>1, <2>1, SequenceOf
      <3>3. Len(net) = q
        BY <1>2, <2>1, SequenceOf
      <3>4. QED
        BY <3>1, <3>2, <3>3
    <2>3. /\ Len(all) = m + q
          /\ \A i \in 1 .. m + q : all[i] = IF i <= m THEN con[i] ELSE net[i - m]
      BY <2>2, ConcatProperties
    <2>4. ASSUME NEW k \in 1 .. m PROVE all[k] = con[k] /\ k \in 1 .. m + q
      <3>1. k \in 1 .. m + q /\ k <= m
        BY <1>1, <1>2
      <3> HIDE DEF all
      <3>2. QED
        BY <2>3, <3>1
    <2>5. ASSUME NEW k \in 1 .. q PROVE all[m + k] = net[k] /\ m + k \in 1 .. m + q
      <3>1. m + k \in 1 .. m + q /\ ~ (m + k <= m) /\ (m + k) - m = k
        BY <1>1, <1>2
      <3> HIDE DEF all
      <3>2. QED
        BY <2>3, <3>1
    <2>6. QED
      BY <1>1, <1>2, <2>3, <2>4, <2>5
  <1>4. \A k \in 1 .. m + q : k \in 1 .. m \/ \E l \in 1 .. q : k = m + l
    <2> HIDE DEF m, q
    <2> TAKE k \in 1 .. m + q
    <2>1. k <= m \/ (k - m \in 1 .. q /\ k = m + (k - m))
      BY <1>1, <1>2
    <2>2. QED
      BY <1>1, <1>2, <2>1
  <1>5. C \in SUBSET (1 .. Len(v.console)) /\ F \in SUBSET (1 .. Len(v.network))
        /\ Len(v.console) \in Nat /\ Len(v.network) \in Nat /\ EchoesIn(v) \in SUBSET C
        /\ C \in SUBSET DOMAIN v.console
    BY LogsAre
  <1>6. ASSUME NEW k \in 1 .. m PROVE Echoed(k) <=> v.outcome = "READ" /\ Nth(C, k) \in EchoesIn(v)
    <2> DEFINE c == v.console[Nth(C, k)]
    <2>1. Nth(C, k) \in C
      BY <1>5, NthIs
    <2>2. /\ all[k].type = "CONSOLE_ERROR" <=> c.level = "ERROR"
          /\ all[k].text = c.text /\ all[k].source = c.source
      BY <1>1, <1>3
    <2>3. (\E i \in 1 .. Len(all) : all[i].type \in NetworkTypes /\ all[i].source = all[k].source)
            <=> \E l \in 1 .. q : net[l].source = c.source
      <3>1. \A i \in 1 .. m : all[i].type \notin NetworkTypes
        <4> TAKE i \in 1 .. m
        <4>1. con[i].type \in {"CONSOLE_ERROR", "CONSOLE_WARNING"}
          BY <1>1
        <4>2. QED
          BY <1>3, <4>1 DEF NetworkTypes
      <3>2. \A l \in 1 .. q : all[m + l].type \in NetworkTypes /\ all[m + l].source = net[l].source /\ m + l \in 1 .. Len(all)
        BY <1>2, <1>3
      <3>3. \A i \in 1 .. Len(all) : i \in 1 .. m \/ \E l \in 1 .. q : i = m + l
        BY <1>3, <1>4
      <3> HIDE DEF all, net, m, q, c
      <3>4. QED
        BY <2>2, <3>1, <3>2, <3>3
    <2>4. (\E l \in 1 .. q : net[l].source = c.source)
            <=> v.outcome = "READ" /\ \E f \in F : v.network[f].url = c.source
      <3>1. CASE v.outcome = "READ"
        <4>1. q = Cardinality(F)
          BY <3>1
        <4>2. /\ \A l \in 1 .. q : Nth(F, l) \in F /\ net[l].source = v.network[Nth(F, l)].url
              /\ \A f \in F : \E l \in 1 .. q : Nth(F, l) = f
          BY <1>2, <1>5, <4>1, NthIs
        <4> HIDE DEF net, q, F, c
        <4>2a. QED
          BY <3>1, <4>2
      <3>2. CASE v.outcome # "READ"
        <4>1. q = 0
          BY <3>2
        <4> HIDE DEF q, net, c
        <4>2. QED
          BY <3>2, <4>1
      <3>3. QED
        BY <3>1, <3>2
    <2>5. Nth(C, k) \in EchoesIn(v)
            <=> /\ c.level = "ERROR" /\ c.text = EchoText
                /\ \E f \in F : v.network[f].url = c.source
      BY <1>5, <2>1 DEF EchoesIn
    <2> HIDE DEF all, net, m, q, c, C, F
    <2>6. QED
      BY <2>2, <2>3, <2>4, <2>5
  <1>7. keep = early \cup (m + 1 .. m + q)
    <2>1. \A k \in 1 .. m : k \in keep <=> k \in early
      <3> TAKE k \in 1 .. m
      <3>1. k \in 1 .. Len(all) /\ Nth(C, k) \in C
        BY <1>3, <1>5, NthIs
      <3> HIDE DEF all, m, C, Echoed
      <3>2. QED
        BY <1>6, <3>1
    <2>2. \A l \in 1 .. q : m + l \in keep
      <3> TAKE l \in 1 .. q
      <3>1. all[m + l].type # "CONSOLE_ERROR"
        BY <1>2, <1>3 DEF NetworkTypes
      <3>2. m + l \in 1 .. Len(all)
        BY <1>3
      <3> HIDE DEF all, m
      <3>3. QED
        BY <3>1, <3>2
    <2>3. keep \subseteq 1 .. m + q /\ early \subseteq 1 .. m
      BY <1>3
    <2>4. \A k \in m + 1 .. m + q : \E l \in 1 .. q : k = m + l
      <3> HIDE DEF m, q
      <3> TAKE k \in m + 1 .. m + q
      <3>1. k - m \in 1 .. q /\ k = m + (k - m)
        BY <1>1, <1>2
      <3>2. QED
        BY <3>1
    <2>5. \A l \in 1 .. q : m + l \in m + 1 .. m + q
      <3> HIDE DEF m, q
      <3>1. QED
        BY <1>1, <1>2
    <2> HIDE DEF keep, early, m, q
    <2>6. ASSUME NEW k \in keep PROVE k \in early \/ k \in m + 1 .. m + q
      <3>1. k \in 1 .. m \/ \E l \in 1 .. q : k = m + l
        BY <1>4, <2>3
      <3>2. QED
        BY <2>1, <2>5, <3>1
    <2>7. ASSUME NEW k \in m + 1 .. m + q PROVE k \in keep
      BY <2>2, <2>4
    <2>8. ASSUME NEW k \in early PROVE k \in keep
      BY <2>1, <2>3
    <2>9. QED
      BY <2>6, <2>7, <2>8
  <1>8. Cardinality(keep) = Told(v)
    <2>1. IsFiniteSet(early) /\ Cardinality(early) = Cardinality(told)
      <3>1. told \in SUBSET C
        OBVIOUS
      <3> HIDE DEF told, C
      <3>2. QED
        BY <1>5, <3>1, SameNumber
    <2>2. IsFiniteSet(m + 1 .. m + q) /\ Cardinality(m + 1 .. m + q) = q
      <3> HIDE DEF m, q
      <3>1. m + 1 \in Int /\ m + q \in Int
        BY <1>1, <1>2
      <3>2. Cardinality(m + 1 .. m + q) = IF m + 1 > m + q THEN 0 ELSE (m + q) - (m + 1) + 1
        BY <3>1, FS_Interval
      <3>3. IsFiniteSet(m + 1 .. m + q)
        BY <3>1, FS_Interval
      <3>4. QED
        BY <1>1, <1>2, <3>2, <3>3
    <2>3. early \cap (m + 1 .. m + q) = {}
      <3>1. early \subseteq 1 .. m
        OBVIOUS
      <3> HIDE DEF early, m, q
      <3>2. QED
        BY <1>1, <1>2, <3>1
    <2>4. Cardinality(early) \in Nat /\ Cardinality({}) = 0
      BY <2>1, FS_CardinalityType, FS_EmptySet
    <2>5. Cardinality(keep) = Cardinality(told) + q
      <3> HIDE DEF early, m, q, keep, told
      <3>1. Cardinality(early \cup (m + 1 .. m + q))
              = Cardinality(early) + Cardinality(m + 1 .. m + q) - Cardinality(early \cap (m + 1 .. m + q))
        BY <2>1, <2>2, FS_Union
      <3>2. Cardinality(keep) = Cardinality(early) + q - 0
        BY <1>7, <2>2, <2>3, <2>4, <3>1
      <3>3. q \in Nat
        BY <1>2
      <3>4. QED
        BY <2>1, <2>4, <3>2, <3>3
    <2>6. CASE v.outcome = "READ"
      <3>1. Told(v) = Cardinality(F) + Cardinality(told) /\ q = Cardinality(F)
        BY <2>6 DEF Told
      <3> HIDE DEF q, told, F, keep
      <3>2. QED
        BY <1>2, <2>1, <2>4, <2>5, <3>1
    <2>7. CASE v.outcome = "HALF_READ"
      <3>1. Told(v) = Cardinality(told) /\ q = 0
        BY <2>7 DEF Told
      <3> HIDE DEF q, told, F, keep
      <3>2. QED
        BY <2>1, <2>4, <2>5, <3>1
    <2>8. QED
      BY <2>6, <2>7
  <1>9. \A k \in 1 .. m + q : /\ all[k].type \in EvidenceTypes
                              /\ DOMAIN all[k] = {"type", "loc", "text", "source", "suspect"}
    <2>1. ASSUME NEW k \in 1 .. m PROVE all[k].type \in EvidenceTypes
                                        /\ DOMAIN all[k] = {"type", "loc", "text", "source", "suspect"}
      <3>1. con[k].type \in {"CONSOLE_ERROR", "CONSOLE_WARNING"}
            /\ DOMAIN con[k] = {"type", "loc", "text", "source", "suspect"}
        BY <1>1
      <3>2. all[k] = con[k]
        BY <1>3
      <3> HIDE DEF all, con
      <3>3. QED
        BY <3>1, <3>2 DEF EvidenceTypes
    <2>2. ASSUME NEW l \in 1 .. q PROVE all[m + l].type \in EvidenceTypes
                                        /\ DOMAIN all[m + l] = {"type", "loc", "text", "source", "suspect"}
      <3>1. all[m + l] = net[l]
        BY <1>3
      <3>2. net[l].type \in NetworkTypes /\ DOMAIN net[l] = {"type", "loc", "text", "source", "suspect"}
        BY <1>2
      <3> HIDE DEF all, net
      <3>3. QED
        BY <3>1, <3>2 DEF EvidenceTypes
    <2> HIDE DEF all, m, q
    <2>3. QED
      BY <1>4, <2>1, <2>2
  <1> DEFINE kept == Only(all, keep)
             facts == [i \in 1 .. Len(kept) |-> [kept[i] EXCEPT !.suspect = v.singleUse]]
  <1>10. LoadFacts(v) = facts
    BY DEF LoadFacts, MarkReplaySuspects, DropRedundantResourceEchoes
  <1>11. keep \in SUBSET (1 .. m + q)
    BY <1>3
  <1> HIDE DEF keep, all, m, q
  <1>12. /\ Cardinality(keep) \in Nat /\ Len(kept) = Cardinality(keep)
         /\ \A k \in 1 .. Cardinality(keep) : kept[k] = all[Nth(keep, k)] /\ Nth(keep, k) \in keep
    <2>1. Cardinality(keep) \in Nat
      BY <1>3, <1>11, PlacesAre
    <2>2. Len(kept) = Cardinality(keep) /\ \A k \in 1 .. Cardinality(keep) : kept[k] = all[Nth(keep, k)]
      BY <1>3, <1>11, OnlyIs
    <2>3. \A k \in 1 .. Cardinality(keep) : Nth(keep, k) \in keep
      BY <1>3, <1>11, NthIs
    <2> HIDE DEF kept
    <2>4. QED
      BY <2>1, <2>2, <2>3
  <1>13. ASSUME NEW k \in 1 .. Cardinality(keep) PROVE facts[k].type \in EvidenceTypes
    <2>1. /\ kept[k].type \in EvidenceTypes
          /\ DOMAIN kept[k] = {"type", "loc", "text", "source", "suspect"}
      BY <1>9, <1>11, <1>12
    <2>2. facts[k] = [kept[k] EXCEPT !.suspect = v.singleUse]
      BY <1>12
    <2> HIDE DEF facts, kept
    <2>3. QED
      BY <2>1, <2>2
  <1>14. DOMAIN facts = 1 .. Cardinality(keep)
    BY <1>12
  <1> HIDE DEF facts
  <1>15. QED
    BY <1>8, <1>10, <1>12, <1>13, <1>14 DEF AreFacts

-----------------------------------------------------------------------------
(* All visits.  Facts are counted one by one, and visits in turn.          *)

LEMMA FactsCounted ==
  ASSUME NEW acc, NEW m \in Nat, Accounts(acc, m), NEW n, NEW facts, AreFacts(facts, n)
  PROVE  Accounts(Accumulate(acc, facts), m + n)
  <1>1. n \in Nat /\ DOMAIN facts = 1 .. n /\ \A k \in 1 .. n : facts[k].type \in EvidenceTypes
    BY DEF AreFacts
  <1>2. PICK part : Parts("facts", acc, facts, n, part) /\ Accumulate(acc, facts) = part[n]
    BY <1>1, AccumulateFolds
  <1> DEFINE S == {k \in 0 .. n : Accounts(part[k], m + k)}
  <1>3. 0 \in S
    <2>1. part[0] = acc /\ m + 0 = m
      BY <1>2 DEF Parts
    <2>2. QED
      BY <1>1, <2>1
  <1>4. ASSUME NEW k \in 0 .. n - 1, k \in S PROVE k + 1 \in S
    <2>1. k \in Nat /\ k + 1 \in 1 .. n /\ k + 1 \in 0 .. n /\ m + k \in Nat /\ (m + k) + 1 = m + (k + 1)
      BY <1>1
    <2>2. part[k + 1] = AccumulateOne(part[k], facts[k + 1])
      BY <1>2, <2>1 DEF Parts, FoldStep
    <2>3. Accounts(part[k], m + k)
      BY <1>4
    <2>4. facts[k + 1].type \in EvidenceTypes
      BY <1>1, <2>1
    <2>5. Accounts(AccumulateOne(part[k], facts[k + 1]), (m + k) + 1)
      BY <2>1, <2>3, <2>4, FactCounted
    <2>6. QED
      BY <2>1, <2>2, <2>5
  <1> HIDE DEF S
  <1>5. \A k \in 0 .. n : k \in S
    BY <1>1, <1>3, <1>4, UpTo
  <1>6. n \in S
    BY <1>1, <1>5
  <1>7. QED
    BY <1>2, <1>6 DEF S

LEMMA VisitCounted ==
  ASSUME NEW acc, NEW m \in Nat, Accounts(acc, m), NEW v, IsVisit(v)
  PROVE  Told(v) \in Nat /\ Accounts(VisitOne(acc, v), m + Told(v))
  <1>0. v.outcome \in {"OFF_ORIGIN", "UNREACHABLE", "HALF_READ", "READ"}
    BY DEF IsVisit
  <1>1. CASE v.outcome = "OFF_ORIGIN"
    <2>1. Told(v) = 0 /\ VisitOne(acc, v) = acc
      BY <1>1 DEF Told, VisitOne
    <2>2. m + 0 = m
      OBVIOUS
    <2>3. QED
      BY <2>1, <2>2
  <1>2. CASE v.outcome = "UNREACHABLE"
    <2> DEFINE one == Fact("NAVIGATION_FAILED", v, "Could not open", v.loc)
    <2>1. Told(v) = 1 /\ VisitOne(acc, v) = Accumulate(acc, <<one>>)
      BY <1>2 DEF Told, VisitOne
    <2>2. one.type \in EvidenceTypes
      BY DEF Fact, EvidenceTypes
    <2> HIDE DEF one
    <2>3. AreFacts(<<one>>, 1)
      BY <2>2 DEF AreFacts
    <2>4. QED
      BY <2>1, <2>3, FactsCounted
  <1>3. CASE v.outcome \in {"HALF_READ", "READ"}
    <2>1. AreFacts(LoadFacts(v), Told(v))
      BY <1>3, LoadTells
    <2>2. VisitOne(acc, v) = Accumulate(acc, LoadFacts(v))
      BY <1>3 DEF VisitOne
    <2>3. Told(v) \in Nat
      BY <2>1 DEF AreFacts
    <2>4. QED
      BY <2>1, <2>2, <2>3, FactsCounted
  <1>4. QED
    BY <1>0, <1>1, <1>2, <1>3

LEMMA VisitsCounted ==
  ASSUME NEW visits, NEW n \in Nat, DOMAIN visits = 1 .. n, \A i \in 1 .. n : IsVisit(visits[i])
  PROVE  Accounts(FoldLeft(VisitOne, NoRows, visits), AllTold(visits))
  <1>1. PICK p : Parts("visits", NoRows, visits, n, p) /\ FoldLeft(VisitOne, NoRows, visits) = p[n]
    BY VisitsFold
  <1>2. PICK q : Parts("told", 0, visits, n, q) /\ AllTold(visits) = q[n]
    BY ToldFolds
  <1> DEFINE S == {k \in 0 .. n : q[k] \in Nat /\ Accounts(p[k], q[k])}
  <1>3. 0 \in S
    BY <1>1, <1>2, NoRowsAccount DEF Parts
  <1>4. ASSUME NEW k \in 0 .. n - 1, k \in S PROVE k + 1 \in S
    <2>1. k + 1 \in 1 .. n /\ k + 1 \in 0 .. n
      OBVIOUS
    <2>2. p[k + 1] = VisitOne(p[k], visits[k + 1]) /\ q[k + 1] = q[k] + Told(visits[k + 1])
      BY <1>1, <1>2 DEF Parts, FoldStep
    <2>3. q[k] \in Nat /\ Accounts(p[k], q[k]) /\ IsVisit(visits[k + 1])
      BY <1>4, <2>1
    <2>4. Told(visits[k + 1]) \in Nat
          /\ Accounts(VisitOne(p[k], visits[k + 1]), q[k] + Told(visits[k + 1]))
      BY <2>3, VisitCounted
    <2>5. q[k] + Told(visits[k + 1]) \in Nat
      BY <2>3, <2>4
    <2>6. QED
      BY <2>1, <2>2, <2>4, <2>5
  <1> HIDE DEF S
  <1>5. \A k \in 0 .. n : k \in S
    BY <1>3, <1>4, UpTo
  <1>6. n \in S
    BY <1>5
  <1>7. QED
    BY <1>1, <1>2, <1>6 DEF S

\* What EvidenceAccounted says of an artifact and the visits it was made of.
AccountsFor(made, visits) ==
  /\ \A i, j \in DOMAIN made.findings :
       Fingerprint(made.findings[i].fact) = Fingerprint(made.findings[j].fact) => i = j
  /\ {made.locations[i].requestedUrl : i \in DOMAIN made.locations} = {visits[i].loc : i \in DOMAIN visits}
  /\ AllTold(visits) = TotalFor(made, EvidenceTypes) + made.overflow
  /\ made.overflow > 0 =>
       \/ Len(made.findings) = MaxFindings
       \/ \E i \in DOMAIN made.findings :
            Cardinality({j \in DOMAIN made.findings :
                           made.findings[j].fact.loc = made.findings[i].fact.loc})
              = MaxFindingsPerLocation

LEMMA EvidenceAccounts ==
  ASSUME NEW visits, visits \in Seq({visits[i] : i \in DOMAIN visits}),
         \A i \in DOMAIN visits : IsVisit(visits[i]), NEW made, made = BuildEvidence(visits)
  PROVE  AccountsFor(made, visits)
  <1> DEFINE rows == made.findings
             acc == FoldLeft(VisitOne, NoRows, visits)
  <1>1. Len(visits) \in Nat /\ DOMAIN visits = 1 .. Len(visits)
    BY OwnSequence
  <1>2. Accounts(acc, AllTold(visits))
    BY <1>1, VisitsCounted
  <1>3. made = [locations |-> [i \in 1 .. Len(visits) |-> LocationOf(visits[i])],
                findings |-> acc.findings, overflow |-> acc.overflow]
    BY DEF BuildEvidence, NoRows
  <1> HIDE DEF acc
  <1>4. rows = acc.findings /\ made.findings = acc.findings /\ made.overflow = acc.overflow
        /\ made.locations = [i \in 1 .. Len(visits) |-> LocationOf(visits[i])]
    BY <1>3
  <1> HIDE DEF rows
  <1>5. \A i, j \in DOMAIN rows : Fingerprint(rows[i].fact) = Fingerprint(rows[j].fact) => i = j
    BY <1>2, <1>4 DEF Accounts
  <1>6. {made.locations[i].requestedUrl : i \in DOMAIN made.locations} = {visits[i].loc : i \in DOMAIN visits}
    BY <1>1, <1>4 DEF LocationOf
  <1>7. AllTold(visits) = TotalFor(made, EvidenceTypes) + made.overflow
    <2>1. TotalFor(made, EvidenceTypes) = TotalFor(acc, EvidenceTypes)
      BY <1>4 DEF TotalFor
    <2>2. QED
      BY <1>2, <1>4, <2>1 DEF Accounts
  <1>8. ASSUME made.overflow > 0
        PROVE  \/ Len(rows) = MaxFindings
               \/ \E i \in DOMAIN rows :
                    Cardinality({j \in DOMAIN rows : rows[j].fact.loc = rows[i].fact.loc})
                      = MaxFindingsPerLocation
    <2>1. Capped(acc) /\ IsAcc(acc)
      BY <1>2, <1>4, <1>8 DEF Accounts
    <2>2. DOMAIN rows = 1 .. Len(acc.findings)
      BY <1>4, <2>1, RowsAre
    <2>3. \A loc : Here(acc, loc) = {j \in DOMAIN rows : rows[j].fact.loc = loc}
      BY <1>4, <2>2 DEF Here
    <2>4. QED
      BY <1>4, <2>1, <2>3 DEF Capped
  <1>9. QED
    BY <1>5, <1>6, <1>7, <1>8 DEF AccountsFor, rows

LEMMA EvidenceState == IInv => EvidenceAccounted
  <1> SUFFICES ASSUME IInv, visited # Nothing PROVE EvidenceAccounted
    BY DEF EvidenceAccounted
  <1>1. visited \in Visits
    BY DEF IInv, TypeOK
  <1>2. visited \in Seq({visited[i] : i \in DOMAIN visited}) /\ \A i \in DOMAIN visited : IsVisit(visited[i])
    BY <1>1, CandidateAssumption
  <1>3. AccountsFor(BuildEvidence(visited), visited)
    BY <1>2, EvidenceAccounts
  <1> DEFINE made == BuildEvidence(visited)
  <1>4. EvidenceAccounted <=> AccountsFor(made, visited)
    <2>1. Evidence = made
      BY DEF Evidence
    <2> HIDE DEF made
    <2>2. QED
      BY <2>1 DEF EvidenceAccounted, AccountsFor
  <1>5. QED
    BY <1>3, <1>4

-----------------------------------------------------------------------------
(* Theorems.                                                               *)

\* What is on disk is of what was submitted, and a report's text is one that
\* extraction can have made, whoever wrote its status (IInv, qa-artifacts.ts:517).
THEOREM ArtifactsTyped == Spec => []IInv
  <1>1. QED
    BY InitIInv, StepIInv, PTL DEF Spec

\* A result the inspection finds nothing in is traceable end to end, for all
\* candidates and contexts (semantic-validate.ts:1198-2138, phase1-gate.ts:147).
THEOREM Traceable == Spec => []CleanIsTraceable
  <1>1. QED
    BY ArtifactsTyped, TraceableState, PTL

\* In such a result what a confirmed report expects rests on more than what it
\* reports (defects.ts:196, defects.ts:360).
THEOREM ConfirmedIndependently == Spec => []ConfirmedIsIndependent
  <1>1. QED
    BY ConfirmedState, PTL

\* Nothing hard is made up on the way from what the run was told to what it
\* reports (semantic-validate.ts:511-740); of a prioritization's reasons this is
\* about routes and accounts only, which is what is checked (line 2115).
THEOREM NothingMadeUpAnywhere == Spec => []NothingInvented
  <1>1. QED
    BY ArtifactsTyped, InventedState, PTL

\* Whenever an agent's turn comes an answer in full is accepted, whatever the
\* candidates, the context and the artifacts so far (qa-artifacts.ts:296).
THEOREM AlwaysAnswerable == Spec => []Answerable
  <1>1. QED
    BY ArtifactsTyped, AnswerableState, PTL

\* Nothing a browser reported is lost between the pages and the evidence on
\* disk, for any sequences of visits and any limits (browser-evidence.ts:337).
THEOREM NothingIsLost == Spec => []EvidenceAccounted
  <1>1. QED
    BY ArtifactsTyped, EvidenceState, PTL
=============================================================================
