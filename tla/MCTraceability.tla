---------------------------- MODULE MCTraceability ----------------------------
(* Instances of Traceability: two behaviors, one documented operation with   *)
(* one probe, two requirements and two test cases.                           *)
EXTENDS Traceability
CONSTANTS b1, b2, o1, p1, r1, r2, t1, t2, l1, l2, l3, echo, remark,
  login, save, fails, notes, mail, captcha, get, delete   \* what texts speak of

\* Every text is about the login, as most are, so that evidence and claims meet.
M(as, what) == [as |-> as, what |-> what]
On(mentions) == {M("WORD", login)} \cup mentions

MCFeatures == {captcha}
MCAddresses == {mail}

MCRequestOf == [o \in {o1} |-> [method |-> get, path |-> notes]]
MCToldBy ==
  [e \in {o1, p1} |-> On({M("REQUEST", MCRequestOf[o1])} \cup (IF e = p1 THEN {M("WORD", fails)} ELSE {}))]

Context(mode, docs, probes, violations) ==
  [mode |-> mode, docs |-> docs, probes |-> probes, violations |-> violations]

MCContexts ==
  {Context("UI_ONLY", {}, {}, {}), Context("AUTOMATIC", {}, {}, {}),
   Context("AUTOMATIC", {o1}, {p1}, {p1}), Context("API_ONLY", {o1}, {p1}, {})}

Saw(status, suspected, aux, says) ==
  [status |-> status, suspected |-> suspected, aux |-> aux, sure |-> ~suspected, says |-> On(says)]

\* The product has a button, named in the prose or quoted, or none was seen.
Button == {M("WORD", save)}
Label  == {M("NAME", save), M("ROUTE", notes)}

MCDiscoveries ==
  {[b \in {b1, b2} |-> IF b = b1 THEN Saw("OBSERVED", FALSE, FALSE, Label) ELSE Saw("OBSERVED", TRUE, FALSE, {})],
   [b \in {b1, b2} |-> IF b = b1 THEN Saw("INFERRED", FALSE, FALSE, Button) ELSE Saw("OBSERVED", TRUE, FALSE, {})],
   [b \in {b1, b2} |-> IF b = b1 THEN Saw("CONFIRMED", FALSE, FALSE, {}) ELSE Saw("OBSERVED", FALSE, TRUE, {})]}

Requirement(evidence, testable, type) ==
  [evidence |-> evidence, testable |-> testable, type |-> type, says |-> On({})]
Stating(r, mentions) == [r EXCEPT !.says = On(mentions)]

Worded ==
  {Stating(Requirement({b1}, TRUE, "NONE"), x) :
     x \in {{M("WORDING", save)}, {M("FEATURE", captcha)}, {M("LACKS", save)}}}
  \cup {[Requirement({b1}, TRUE, "NONE") EXCEPT !.says = {M("WORD", fails)}]}

Firsts ==
  {Requirement(e, TRUE, "NONE") : e \in {{b1}, {b1, o1}, {b1, b2}}}
  \cup {Requirement({o1}, TRUE, "API"), Requirement({b1}, FALSE, "NONE")}
Seconds == {Requirement({b2}, TRUE, "NONE"), Requirement({o1}, TRUE, "NONE")}

MCAnalyses ==
  {[items |-> i, excluded |-> x] :
     i \in {[r \in {} |-> Nothing]} \cup [{r1} -> Firsts \cup Worded]
           \cup {[r \in {r1, r2} |-> IF r = r1 THEN f ELSE s] : f \in Firsts, s \in Seconds},
     x \in {{}, {b2}, {b1, b2}}}

MCHandEdits ==
  {[items |-> [r \in {r1} |-> Requirement({b1}, TRUE, "NONE")], excluded |-> {b2}]}

Case(id, covers, evidence, level) ==
  [id |-> id, covers |-> covers, evidence |-> evidence, level |-> level, types |-> "positive",
   says |-> On({})]
Telling(tc, mentions) == [tc EXCEPT !.says = On(mentions)]

MCSuites ==
  {{}, {Case(t1, {r1, r2}, {r1}, "UI")}, {Case(t1, {r1, r2}, {b1, o1}, "API")}}
  \cup {{Case(t1, {r1}, {r1}, l)} : l \in {"UI", "API"}}
  \cup {{Telling(Case(t1, {r1}, {r1}, "UI"), x)} :
      x \in {{M("WORDING", save), M("ROUTE", notes)}, {M("FEATURE", captcha)}, {M("SECRET", mail), M("EMAIL", mail)}}}
  \cup {{Telling(Case(t1, {r1}, {r1}, "API"), {M("REQUEST", [method |-> m, path |-> notes])})} :
      m \in {get, delete}}
  \cup {{Case(t1, {r1}, {r1}, l), Case(t2, {r2}, e, m)} :
      l \in {"UI", "API"}, m \in {"UI", "API"}, e \in {{r2}, {b1}}}
  \cup {{Case(t1, {r1}, {r1}, "UI"), Case(t2, {r1}, {r1}, "API")}}

Entry(id, mode, priority, strategy) ==
  [case |-> id, mode |-> mode, priority |-> priority, strategy |-> strategy, says |-> {}]

MCPrioritizations ==
  {{}, {[Entry(t1, "MANUAL", "NONE", "MANUAL") EXCEPT !.says = {M("ROUTE", notes), M("EMAIL", mail)}]},
   {Entry(t2, "MANUAL", "NONE", "MANUAL")}, {Entry(t1, "AUTOMATION", "HIGH", "API")},
   {Entry(t1, "AUTOMATION", "HIGH", "NONE")}}
  \cup {{Entry(t1, "MANUAL", "NONE", "MANUAL")} \cup x :
          x \in {{}, {Entry(t2, "MANUAL", "NONE", "UNKNOWN")}, {Entry(t1, "MANUAL", "LOW", "MANUAL")}}}

Finding(behaviors, requirements, cases, class) ==
  [behaviors |-> behaviors, requirements |-> requirements, cases |-> cases, class |-> class,
   expected |-> IF IsDefect(class) THEN On({}) ELSE {},
   actual |-> IF IsDefect(class) THEN On({M("WORD", fails)}) ELSE {}]

Flagged == Finding({b2}, {r1}, {t1}, "CONFIRMED_DEFECT")
Other   == Finding({b2}, {}, {}, "NOT_A_DEFECT")
Probed  == Finding({p1}, {r1}, {}, "POTENTIAL_DEFECT")

MCDefectFindings ==
  {<<>>, <<Flagged>>, <<Other>>, <<[Flagged EXCEPT !.expected = @ \cup {M("FEATURE", captcha)}]>>,
   <<[Flagged EXCEPT !.actual = @ \cup {M("WORDING", save), M("ROUTE", notes)}]>>, <<Finding({b1, b2}, {r1}, {t1}, "CONFIRMED_DEFECT")>>, <<Finding({b2, p1}, {}, {}, "NOT_A_DEFECT")>>,
   <<Flagged, Probed>>, <<Finding({p1}, {}, {}, "NOT_A_DEFECT")>>}

Visit(loc, outcome, singleUse, console, network) ==
  [loc |-> loc, outcome |-> outcome, singleUse |-> singleUse, console |-> console, network |-> network]

Said(level, text, source) == [level |-> level, text |-> text, source |-> source]
Request(url, static, ok) == [url |-> url, static |-> static, ok |-> ok]

\* A first page that repeats, echoes and overflows, one that leads elsewhere,
\* one that is half read and one that cannot be opened.
MCVisits ==
  {<<Visit(l2, "OFF_ORIGIN", FALSE, <<>>, <<>>),
     Visit(l3, "HALF_READ", FALSE, <<Said("ERROR", echo, l2)>>, <<Request(l2, FALSE, FALSE)>>),
     Visit(l1, "READ", TRUE,
       <<Said("INFO", remark, l1), Said("WARNING", remark, l1), Said("ERROR", remark, l2), Said("ERROR", remark, l2),
         Said("ERROR", echo, l2)>>,
       <<Request(l1, FALSE, TRUE), Request(l2, FALSE, FALSE), Request(l1, TRUE, FALSE)>>),
     Visit(l2, "UNREACHABLE", FALSE, <<>>, <<>>)>>}
=============================================================================
