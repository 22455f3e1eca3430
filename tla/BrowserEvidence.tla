--------------------------- MODULE BrowserEvidence ---------------------------
(***************************************************************************)
(* What the host makes of a browser's console and network log              *)
(* (src/src/lib/browser-evidence.ts, src/scripts/lib/evidence.mjs): it     *)
(* opens every location discovery reached in a session of its own, reads   *)
(* both logs, and folds them into the bounded, deduplicated rows of        *)
(* discovery-evidence.json.                                                *)
(*                                                                         *)
(* A visit is what happens at one location:                                *)
(*   [loc, outcome, singleUse, console, network]                           *)
(* its outcome "OFF_ORIGIN", "UNREACHABLE", "HALF_READ" (the console was   *)
(* read and the network log was not) or "READ"; singleUse says whether the *)
(* URL carries a one-time credential.  A console message is                *)
(* [level, text, source], a request [url, static, ok].  A text is an       *)
(* application's own or EchoText, the browser's remark that a resource did *)
(* not load.  Parsing of the logs' rendered text is left out.              *)
(***************************************************************************)
EXTENDS Naturals, Sequences, FiniteSets, SequencesExt

CONSTANTS
  MaxFindings,             \* rows an artifact may hold
  MaxFindingsPerLocation,  \* rows one location may fill
  EchoText

\* Caps are numbers (MAX_FINDINGS, MAX_FINDINGS_PER_LOCATION), and a location
\* may fill a row.
ASSUME BoundsAssumption == MaxFindings \in Nat /\ MaxFindingsPerLocation \in Nat \ {0}

\* What the parsers of the two logs and of a URL's parameters leave of a page;
\* INFO is any level that is neither of the other two.
IsVisit(v) ==
  /\ DOMAIN v = {"loc", "outcome", "singleUse", "console", "network"}
  /\ v.outcome \in {"OFF_ORIGIN", "UNREACHABLE", "HALF_READ", "READ"}
  /\ v.singleUse \in BOOLEAN
  /\ v.console \in Seq({v.console[i] : i \in DOMAIN v.console})
  /\ v.network \in Seq({v.network[i] : i \in DOMAIN v.network})
  /\ \A i \in DOMAIN v.console :
       /\ DOMAIN v.console[i] = {"level", "text", "source"}
       /\ v.console[i].level \in {"ERROR", "WARNING", "INFO"}
  /\ \A i \in DOMAIN v.network : v.network[i].static \in BOOLEAN /\ v.network[i].ok \in BOOLEAN

NetworkTypes == {"REQUEST_FAILED", "BROKEN_RESOURCE"}

EvidenceTypes == NetworkTypes \cup {"CONSOLE_ERROR", "CONSOLE_WARNING", "NAVIGATION_FAILED"}

Fact(type, v, text, source) ==
  [type |-> type, loc |-> v.loc, text |-> text, source |-> source, suspect |-> FALSE]

\* The entries of a sequence at some places, in their order.
Nth(places, k) == CHOOSE i \in places : Cardinality({j \in places : j <= i}) = k

Only(s, places) == [k \in 1 .. Cardinality(places) |-> s[Nth(places, k)]]

\* Console levels other than these are noise.
ClassifyConsole(v) ==
  LET reported == Only(v.console, {i \in DOMAIN v.console : v.console[i].level \in {"ERROR", "WARNING"}})
  IN [i \in 1 .. Len(reported) |->
        Fact(IF reported[i].level = "ERROR" THEN "CONSOLE_ERROR" ELSE "CONSOLE_WARNING",
             v, reported[i].text, reported[i].source)]

\* A request that got an answer below 400 is no finding; one without any is.
ClassifyNetwork(v) ==
  LET failed == Only(v.network, {i \in DOMAIN v.network : ~v.network[i].ok})
  IN [i \in 1 .. Len(failed) |->
        Fact(IF failed[i].static THEN "BROKEN_RESOURCE" ELSE "REQUEST_FAILED",
             v, failed[i].url, failed[i].url)]

\* The browser's own echo of a failed request is the same problem; an
\* application's error about the same URL is another.
MutantDropRedundantResourceEchoes(facts) ==
  Only(facts, {k \in 1 .. Len(facts) :
    ~ (/\ facts[k].type = "CONSOLE_ERROR"
       /\ \E i \in 1 .. Len(facts) : facts[i].type \in NetworkTypes /\ facts[i].source = facts[k].source)})

DropRedundantResourceEchoes(facts) ==
  Only(facts, {k \in 1 .. Len(facts) :
    ~ (/\ facts[k].type = "CONSOLE_ERROR" /\ facts[k].text = EchoText
       /\ \E i \in 1 .. Len(facts) : facts[i].type \in NetworkTypes /\ facts[i].source = facts[k].source)})

MarkReplaySuspects(facts, v) ==
  [i \in 1 .. Len(facts) |-> [facts[i] EXCEPT !.suspect = v.singleUse]]

\* The facts of a page load, in the order they are folded.
LoadFacts(v) ==
  MarkReplaySuspects(
    DropRedundantResourceEchoes(
      ClassifyConsole(v) \o (IF v.outcome = "READ" THEN ClassifyNetwork(v) ELSE <<>>)), v)

Fingerprint(f) == <<f.type, f.loc, f.text, f.source>>

\* A repeat is counted on its row; a new fact gets a row while there is room,
\* at its location and in all, and is counted as overflow otherwise.
MutantAccumulateOne(acc, f) ==
  IF \E i \in 1 .. Len(acc.findings) : Fingerprint(acc.findings[i].fact) = Fingerprint(f)
  THEN acc
  ELSE IF \/ Len(acc.findings) >= MaxFindings
          \/ Cardinality({i \in 1 .. Len(acc.findings) : acc.findings[i].fact.loc = f.loc})
               >= MaxFindingsPerLocation
  THEN [acc EXCEPT !.overflow = @ + 1]
  ELSE [acc EXCEPT !.findings = Append(@, [fact |-> f, occurrences |-> 1])]

AccumulateOne(acc, f) ==
  LET seen == {i \in 1 .. Len(acc.findings) : Fingerprint(acc.findings[i].fact) = Fingerprint(f)}
      here == {i \in 1 .. Len(acc.findings) : acc.findings[i].fact.loc = f.loc}
  IN IF seen # {}
     THEN [acc EXCEPT !.findings[CHOOSE i \in seen : TRUE].occurrences = @ + 1]
     ELSE IF Len(acc.findings) >= MaxFindings \/ Cardinality(here) >= MaxFindingsPerLocation
     THEN [acc EXCEPT !.overflow = @ + 1]
     ELSE [acc EXCEPT !.findings = Append(@, [fact |-> f, occurrences |-> 1])]

Accumulate(acc, facts) == FoldLeft(AccumulateOne, acc, facts)

\* A location off the run's origin is not opened; one that cannot be opened is
\* a finding of its own; a log that cannot be read leaves what was read.
VisitOne(acc, v) ==
  CASE v.outcome = "OFF_ORIGIN" -> acc
    [] v.outcome = "UNREACHABLE" ->
         Accumulate(acc, <<Fact("NAVIGATION_FAILED", v, "Could not open", v.loc)>>)
    [] OTHER -> Accumulate(acc, LoadFacts(v))

LocationOf(v) ==
  [requestedUrl |-> v.loc, collected |-> v.outcome = "READ",
   caveat |-> v.singleUse /\ v.outcome \in {"READ", "HALF_READ"}]

\* The artifact of a sequence of visits.
BuildEvidence(visits) ==
  LET acc == FoldLeft(VisitOne, [findings |-> <<>>, overflow |-> 0], visits)
  IN [locations |-> [i \in 1 .. Len(visits) |-> LocationOf(visits[i])],
      findings |-> acc.findings, overflow |-> acc.overflow]

\* A total is of occurrences, never of rows.
TotalFor(evidence, types) ==
  FoldLeft(LAMBDA n, f : IF f.fact.type \in types THEN n + f.occurrences ELSE n,
           0, evidence.findings)

SawRequests(evidence) ==
  \E i \in 1 .. Len(evidence.findings) : evidence.findings[i].fact.type \in NetworkTypes
=============================================================================
