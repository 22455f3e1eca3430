------------------------------- MODULE BugReview -------------------------------
(***************************************************************************)
(* What people decide about the bug reports, and what becomes of it when   *)
(* the defect analysis is made again (src/lib/defect-review.ts,            *)
(* src/lib/bug-reconciliation.ts and the reconciliation and rollback of    *)
(* scripts/lib/refresh.mjs).                                               *)
(*                                                                         *)
(* A report is a file, bugs/BUG-001.json and so on; its history is another *)
(* file.  A person, in the workspace or on the command line, loads a       *)
(* report, writes it back decided and appends to the history.  A refresh   *)
(* takes a snapshot of both, has an agent write new reports under new ids, *)
(* and carries the decisions over; a full run moves the reports away.      *)
(* They are different processes: their steps interleave, file by file.     *)
(*                                                                         *)
(* A claim is what a report says and rests on: two reports with one claim  *)
(* are worded alike enough to be the same claim, KeyOf is the evidence     *)
(* that claims share.  A model's rewording of a claim is the same claim.   *)
(* Reads that follow one another in one handler are one step.  Left out:   *)
(* decisions refused because the evidence no longer supports the report    *)
(* (they change nothing), the text of notes and edits, and the stages      *)
(* before the defect analysis (module Phase1Refresh).                      *)
(***************************************************************************)
EXTENDS Naturals, Sequences, SequencesExt

CONSTANTS
    Claims,         \* what a bug report can be about
    First,          \* the analysis of the full run before, a sequence of claims
    KeyOf,          \* the evidence each rests on, with its area and status
    Confirmed,      \* the claims the analyzer reports as CONFIRMED
    Actions,        \* what a person does about a report
    MaxBugs,        \* bound: reports of one analysis
    MaxRuns,        \* bound: refreshes and full runs
    MaxDecisions,   \* bound: decisions and edits by people
    Doubtful,       \* a model value: nothing is known of a decision
    None            \* no file, no person's page, no counterpart

Ids == 1..MaxBugs
People == {"ui", "cli"}
Outcome == [accept |-> "ACCEPTED", reject |-> "REJECTED", changes |-> "CHANGES_REQUESTED"]

(* at tells apart the times a report was decided: every decision changes   *)
(* the bytes of the file.                                                  *)
Review == [decision : {"PENDING", "ACCEPTED", "REJECTED", "CHANGES_REQUESTED"},
           downgraded : BOOLEAN, edited : BOOLEAN, at : 0..MaxDecisions]
Report == [claim : Claims, review : Review]
Undecided == [decision |-> "PENDING", downgraded |-> FALSE, edited |-> FALSE, at |-> 0]
New(c) == [claim |-> c, review |-> Undecided]

(* No two reports of one analysis cite the same observed behaviour, so     *)
(* none share their evidence.                                              *)
Analyses ==
    {s \in BoundedSeq(Claims, MaxBugs) :
        \A i, j \in DOMAIN s : KeyOf[s[i]] = KeyOf[s[j]] => i = j}

ASSUME ConstantsAssumption ==
    /\ MaxBugs \in Nat \ {0}
    /\ MaxRuns \in Nat
    /\ MaxDecisions \in Nat
    /\ Confirmed \subseteq Claims
    /\ Actions \subseteq {"accept", "reject", "downgrade", "changes", "edit"}
    /\ DOMAIN KeyOf = Claims
    /\ First \in Analyses
    /\ None \notin Report \cup Ids \cup Review
    /\ Doubtful \notin Review \cup {None}

VARIABLES
    report,     \* bugs/: the report under each id, None if there is none
    history,    \* reviews/bugs/: the rounds of review under each id
    job,        \* the refresh or full run at work
    runs,       \* how many there have been
    agent,      \* the analyzer the job awaits, and one a dead job left
    person,     \* what each person is in the middle of
    page,       \* the report the workspace shows, and the bytes it came from
    decisions,  \* how many decisions there have been
    standing    \* history variable, no guard reads it: what was last decided
                \* about each claim, Doubtful if something else overlapped

vars == <<report, history, job, runs, agent, person, page, decisions, standing>>

Reports == [Ids -> Report \cup {None}]
Histories == [Ids -> Seq(Report)]
JobSteps == {"agent", "reconcile", "carry", "histories", "finish", "restoreBugs", "restoreHistories"}
Nothing == [i \in Ids |-> None]
NoHistory == [i \in Ids |-> <<>>]
NoJob == [pc |-> "idle", kind |-> "none", wrote |-> FALSE, bugs |-> Nothing, saved |-> NoHistory,
          fresh |-> Nothing, old |-> NoHistory, carried |-> NoHistory, next |-> 1]
NoAgent == [up |-> FALSE, analysis |-> <<>>, next |-> 0]
NoAct == [pc |-> "idle", id |-> 1, next |-> None, clean |-> FALSE]

Job == [pc : {"idle"} \cup JobSteps, kind : {"none", "refresh", "manual"}, wrote : BOOLEAN,
        bugs : Reports, saved : Histories, fresh : Reports, old : Histories, carried : Histories,
        next : 1..(MaxBugs + 1)]
Analyzer == [up : BOOLEAN, analysis : Seq(Claims), next : 0..MaxBugs]
Person == [pc : {"idle", "arrived", "write", "append"}, id : Ids, next : Report \cup {None}, clean : BOOLEAN]

TypeOK ==
    /\ report \in Reports
    /\ history \in Histories
    /\ job \in Job
    /\ runs \in 0..MaxRuns
    /\ agent \in [{"awaited", "orphan"} -> Analyzer]
    /\ person \in [People -> Person]
    /\ page = None \/ page \in [id : Ids, shown : Report]
    /\ decisions \in 0..MaxDecisions
    /\ standing \in [Claims -> Review \cup {None, Doubtful}]

(* The claims that rest on the evidence of c. *)
Mates(c) == {d \in Claims : KeyOf[d] = KeyOf[c]}
Doubt(cs) == [c \in Claims |-> IF c \in cs THEN Doubtful ELSE standing[c]]
Deciding(p) == person[p].pc \in {"write", "append"}
Live == job.pc # "idle"
ClaimAt(r, i) == IF r[i] = None THEN {} ELSE {r[i].claim}
OnTable(r) == UNION {ClaimAt(r, i) : i \in Ids}

(* A full run has passed: its analysis, with nothing decided. *)
Init ==
    /\ report = [i \in Ids |-> IF i \in DOMAIN First THEN New(First[i]) ELSE None]
    /\ history = NoHistory
    /\ job = NoJob /\ runs = 0
    /\ agent = [k \in {"awaited", "orphan"} |-> NoAgent]
    /\ person = [p \in People |-> NoAct]
    /\ page = None /\ decisions = 0
    /\ standing = [c \in Claims |-> None]

-----------------------------------------------------------------------------
(* People. *)

(* The workspace shows a report, and keeps the hash of its file; after a   *)
(* decision it loads the report again.                                     *)
Open(i) ==
    /\ person["ui"].pc = "idle" /\ report[i] # None
    /\ decisions < MaxDecisions
    /\ page' = [id |-> i, shown |-> report[i]]
    /\ UNCHANGED <<report, history, job, runs, agent, person, decisions, standing>>

(* The report after a decision or an edit; a downgrade leaves the decision *)
(* as it is, and only a CONFIRMED report has one.                          *)
Allowed(a, r) == a = "downgrade" => r.claim \in Confirmed /\ ~r.review.downgraded
Decided(a, r, at) ==
    LET v == [r.review EXCEPT !.at = at]
    IN  [r EXCEPT !.review =
            CASE a = "downgrade" -> [v EXCEPT !.downgraded = TRUE]
              [] a = "edit" -> [v EXCEPT !.edited = TRUE]
              [] OTHER -> [v EXCEPT !.decision = Outcome[a]]]

(* The workspace, and only it, names the bytes it was looking at. *)
MutantCheckBase(p, i) == p = "ui" => page # None /\ page.id = i
CheckBase(p, i) == p = "ui" => page # None /\ page.id = i /\ page.shown = report[i]

(* The workspace takes no decisions while a full run is at work: it looks  *)
(* when the request arrives, before it has read the request's body.        *)
Arrive ==
    /\ person["ui"].pc = "idle" /\ page # None /\ decisions < MaxDecisions
    /\ job.kind # "manual"
    /\ person' = [person EXCEPT !["ui"].pc = "arrived"]
    /\ UNCHANGED <<report, history, job, runs, agent, page, decisions, standing>>

(* Not found, changed since the page was opened, or refused otherwise. *)
Refuse ==
    /\ person["ui"].pc = "arrived"
    /\ person' = [person EXCEPT !["ui"] = NoAct]
    /\ UNCHANGED <<report, history, job, runs, agent, page, decisions, standing>>

Load(p, i, a) ==
    /\ person[p].pc = IF p = "ui" THEN "arrived" ELSE "idle"
    /\ decisions < MaxDecisions
    /\ report[i] # None
    /\ Allowed(a, report[i])
    /\ CheckBase(p, i)
    /\ decisions' = decisions + 1
    /\ person' = [q \in People |->
          IF q = p
          THEN [pc |-> "write", id |-> i, next |-> Decided(a, report[i], decisions + 1),
                clean |-> /\ ~Live /\ ~agent["orphan"].up
                          /\ \A o \in People : ~Deciding(o)]
          ELSE [person[q] EXCEPT !.clean = FALSE]]
    /\ UNCHANGED <<report, history, job, runs, agent, page, standing>>

(* The whole report is written, as it was when it was loaded; one written  *)
(* over regenerated reports competes with those of the same evidence.      *)
Write(p) ==
    LET me == person[p] c == me.next.claim
    IN  /\ me.pc = "write"
        /\ report' = [report EXCEPT ![me.id] = me.next]
        /\ person' = [person EXCEPT ![p].pc = "append"]
        /\ page' = IF p = "ui" THEN None ELSE page
        /\ standing' =
              IF me.clean /\ \A i \in Ids \ {me.id} : c \notin ClaimAt(report, i)
              THEN [standing EXCEPT ![c] = me.next.review]
              ELSE Doubt(Mates(c) \cup ClaimAt(report, me.id))
        /\ UNCHANGED <<history, job, runs, agent, decisions>>

Record(p) ==
    LET me == person[p]
    IN  /\ me.pc = "append"
        /\ history' = [history EXCEPT ![me.id] = Append(@, me.next)]
        /\ person' = [person EXCEPT ![p] = NoAct]
        /\ standing' = IF me.clean THEN standing
                       ELSE Doubt({me.next.claim} \cup ClaimAt(report, me.id))
        /\ UNCHANGED <<report, job, runs, agent, page, decisions>>

(* The second write fails, or the process dies before it. *)
LoseEvent(p) ==
    /\ person[p].pc = "append"
    /\ person' = [person EXCEPT ![p] = NoAct]
    /\ standing' = Doubt({person[p].next.claim} \cup ClaimAt(report, person[p].id))
    /\ UNCHANGED <<report, history, job, runs, agent, page, decisions>>

-----------------------------------------------------------------------------
(* The analyzer, which a job awaits or left behind. *)

(* Bound: it writes once; a retry writes every file again. *)
Analyze(k) ==
    /\ agent[k].up /\ agent[k].next = 0 /\ ~(k = "awaited" /\ job.wrote)
    /\ \E s \in Analyses : agent' = [agent EXCEPT ![k].analysis = s, ![k].next = 1]
    /\ UNCHANGED <<report, history, job, runs, person, page, decisions, standing>>

(* One file at a time: a report of the analysis, or the removal of one it  *)
(* does not have.                                                          *)
WriteBugReports(k) ==
    LET me == agent[k] i == me.next
    IN  /\ me.up /\ i \in Ids
        /\ report' = [report EXCEPT ![i] = IF i \in DOMAIN me.analysis THEN New(me.analysis[i]) ELSE None]
        /\ IF i = MaxBugs
           THEN /\ agent' = [agent EXCEPT ![k] = [NoAgent EXCEPT !.up = k = "awaited"]]
                /\ job' = IF k = "awaited" THEN [job EXCEPT !.wrote = TRUE] ELSE job
           ELSE /\ agent' = [agent EXCEPT ![k].next = i + 1]
                /\ UNCHANGED job
        /\ standing' = IF k = "orphan" THEN Doubt(Claims) ELSE standing
        /\ UNCHANGED <<history, runs, person, page, decisions>>

OrphanEnds ==
    /\ agent["orphan"].up
    /\ agent' = [agent EXCEPT !["orphan"] = NoAgent]
    /\ UNCHANGED <<report, history, job, runs, person, page, decisions, standing>>

-----------------------------------------------------------------------------
(* The refresh, and the full run. *)

Interrupted == [p \in People |-> [person[p] EXCEPT !.clean = FALSE]]

(* The snapshot, of the reports and of their histories. *)
StartRefresh ==
    /\ ~Live /\ runs < MaxRuns
    /\ runs' = runs + 1
    /\ job' = [NoJob EXCEPT !.pc = "agent", !.kind = "refresh", !.bugs = report, !.saved = history]
    /\ agent' = [agent EXCEPT !["awaited"] = [NoAgent EXCEPT !.up = TRUE]]
    /\ person' = Interrupted
    /\ UNCHANGED <<report, history, page, decisions, standing>>

(* A full run archives the reports; what was decided goes with them. *)
StartFullRun ==
    /\ ~Live /\ runs < MaxRuns
    /\ runs' = runs + 1
    /\ job' = [NoJob EXCEPT !.pc = "agent", !.kind = "manual"]
    /\ report' = Nothing
    /\ agent' = [agent EXCEPT !["awaited"] = [NoAgent EXCEPT !.up = TRUE]]
    /\ person' = Interrupted
    /\ standing' = [c \in Claims |-> None]
    /\ UNCHANGED <<history, page, decisions>>

StagePasses ==
    /\ job.pc = "agent" /\ job.wrote /\ agent["awaited"].next = 0
    /\ job' = IF job.kind = "refresh" THEN [job EXCEPT !.pc = "reconcile"] ELSE NoJob
    /\ agent' = [agent EXCEPT !["awaited"] = NoAgent]
    /\ UNCHANGED <<report, history, runs, person, page, decisions, standing>>

Failed == [NoJob EXCEPT !.pc = "restoreBugs", !.kind = "refresh",
           !.bugs = job.bugs, !.saved = job.saved]

(* A full run restores nothing: killed in the middle of a write, its agent *)
(* leaves a mix of two analyses.                                           *)
StageFails ==
    /\ job.pc = "agent"
    /\ job' = IF job.kind = "refresh" THEN Failed ELSE NoJob
    /\ agent' = [agent EXCEPT !["awaited"] = NoAgent]
    /\ standing' = IF job.kind = "manual" /\ agent["awaited"].next # 0 THEN Doubt(Claims) ELSE standing
    /\ UNCHANGED <<report, history, runs, person, page, decisions>>

(* Earlier reports are paired with the new ones in the order of the new    *)
(* ids: the most similar of those left with the same key, then the lowest. *)
Likeness(r, s) == IF r.claim = s.claim THEN 1 ELSE 0
Left(previous, fresh, pairs, i) ==
    {o \in Ids : /\ previous[o] # None /\ fresh[i] # None
                 /\ KeyOf[previous[o].claim] = KeyOf[fresh[i].claim]
                 /\ \A j \in 1..(i - 1) : pairs[j] # o}
Best(previous, new, left) ==
    CHOOSE o \in left : \A q \in left \ {o} :
        \/ Likeness(previous[o], new) > Likeness(previous[q], new)
        \/ Likeness(previous[o], new) = Likeness(previous[q], new) /\ o < q
Paired(previous, fresh, pairs, i) ==
    LET left == Left(previous, fresh, pairs, i)
    IN  IF left = {} THEN pairs ELSE [pairs EXCEPT ![i] = Best(previous, fresh[i], left)]
Pairing(previous, fresh) ==
    LET Pair[i \in 0..MaxBugs] == IF i = 0 THEN Nothing ELSE Paired(previous, fresh, Pair[i - 1], i)
    IN  Pair[MaxBugs]

(* The earlier report whose review the new report i takes over, or None. *)
MutantSource(i) == Pairing(job.bugs, job.fresh)[i]
Source(i) ==
    LET o == Pairing(job.bugs, job.fresh)[i]
    IN  IF o # None /\ job.bugs[o].claim = job.fresh[i].claim THEN o ELSE None

(* The regenerated reports are read, with the histories as they are. *)
Reconcile ==
    /\ job.pc = "reconcile"
    /\ job' = [job EXCEPT !.pc = "carry", !.fresh = report, !.old = history]
    /\ UNCHANGED <<report, history, runs, agent, person, page, decisions, standing>>

(* A new report with the earlier review, with the edits or without. *)
CarryOver(from, to, withEdits) ==
    [to EXCEPT !.review = [from.review EXCEPT !.edited = @ /\ withEdits]]

(* The review goes to new report i if the evidence still supports it, its  *)
(* edits if it supports those too; otherwise i stays as it was made.       *)
Carry(i) ==
    /\ job.pc = "carry" /\ job.next = i
    /\ LET advance == [job EXCEPT !.next = i + 1] o == Source(i)
       IN  IF o = None
           THEN job' = advance /\ UNCHANGED <<report, standing>>
           ELSE \/ \E withEdits \in BOOLEAN :
                      LET next == CarryOver(job.bugs[o], job.fresh[i], withEdits)
                      IN  /\ report' = [report EXCEPT ![i] = next]
                          /\ job' = [advance EXCEPT !.carried[i] = Append(job.old[o], next)]
                          /\ UNCHANGED standing
                \/ /\ job' = advance
                   /\ standing' = Doubt({job.fresh[i].claim})
                   /\ UNCHANGED report
    /\ UNCHANGED <<history, runs, agent, person, page, decisions>>

(* Only carried reviews keep a history. *)
ReplaceHistories ==
    /\ job.pc = "carry" /\ job.next = MaxBugs + 1
    /\ history' = job.carried
    /\ job' = [Failed EXCEPT !.pc = "finish"]
    /\ UNCHANGED <<report, runs, agent, person, page, decisions, standing>>

(* The stamps are written.  A claim without a report is off the table.     *)
Finish ==
    /\ job.pc = "finish"
    /\ job' = NoJob
    /\ standing' = [c \in Claims |-> IF c \in OnTable(report) THEN standing[c] ELSE None]
    /\ UNCHANGED <<report, history, runs, agent, person, page, decisions>>

(* An error anywhere in the reconciliation or after it. *)
Throws ==
    /\ job.pc \in {"reconcile", "carry", "finish"}
    /\ job' = Failed
    /\ UNCHANGED <<report, history, runs, agent, person, page, decisions, standing>>

RestoreBugs ==
    /\ job.pc = "restoreBugs"
    /\ report' = job.bugs
    /\ job' = [job EXCEPT !.pc = "restoreHistories"]
    /\ UNCHANGED <<history, runs, agent, person, page, decisions, standing>>

MutantRestoreHistories ==
    /\ job.pc = "restoreHistories"
    /\ job' = NoJob
    /\ UNCHANGED <<report, history, runs, agent, person, page, decisions, standing>>

RestoreHistories ==
    /\ job.pc = "restoreHistories"
    /\ history' = job.saved
    /\ job' = NoJob
    /\ UNCHANGED <<report, runs, agent, person, page, decisions, standing>>

(* A job may die at any step; the agent it awaited lives on. *)
Crash ==
    /\ Live
    /\ job' = NoJob
    /\ agent' = [awaited |-> NoAgent,
                  orphan |-> IF agent["awaited"].up THEN agent["awaited"] ELSE agent["orphan"]]
    /\ standing' = Doubt(Claims)
    /\ UNCHANGED <<report, history, runs, person, page, decisions>>

-----------------------------------------------------------------------------
Next ==
    \/ \E i \in Ids : Open(i)
    \/ Arrive
    \/ Refuse
    \/ \E p \in People, i \in Ids, a \in Actions : Load(p, i, a)
    \/ \E p \in People : Write(p)
    \/ \E p \in People : Record(p)
    \/ \E p \in People : LoseEvent(p)
    \/ \E k \in {"awaited", "orphan"} : Analyze(k)
    \/ \E k \in {"awaited", "orphan"} : WriteBugReports(k)
    \/ OrphanEnds
    \/ StartRefresh
    \/ StartFullRun
    \/ StagePasses
    \/ StageFails
    \/ Reconcile
    \/ \E i \in Ids : Carry(i)
    \/ ReplaceHistories
    \/ Finish
    \/ Throws
    \/ RestoreBugs
    \/ RestoreHistories
    \/ Crash

Spec == Init /\ [][Next]_vars

-----------------------------------------------------------------------------
(***************************************************************************)
(* Properties.                                                             *)
(***************************************************************************)

Quiet == ~Live /\ \A p \in People : ~Deciding(p)
Sound(i) == report[i] # None /\ standing[report[i].claim] # Doubtful
Settled(i) == Sound(i) /\ standing[report[i].claim] # None
RightReview(v, w) == IF w = None THEN v = Undecided ELSE v = w \/ v = [w EXCEPT !.edited = FALSE]

(* A decision stays with the finding it was made about, and with no other: *)
(* whatever refreshes renumbered the reports, failed and were rolled back, *)
(* what stands in a report is what a person last decided about its claim,  *)
(* and a finding nobody decided is PENDING.  Only the edits may have gone. *)
DecisionKept ==
    Quiet => \A i \in Ids : Sound(i) => RightReview(report[i].review, standing[report[i].claim])

(* The history beside a decided report ends with that decision. *)
HistoryMatches ==
    Quiet => \A i \in Ids : Settled(i) =>
        history[i] # <<>> /\ Last(history[i]) = report[i]

(* defect-review.ts:49: what the workspace decides about is the report it  *)
(* showed: when nothing else is at work, that is what the decision         *)
(* replaces, whatever the ids have come to mean since it was opened.       *)
DecidesWhatWasShown ==
    [][\A p \in People : Write(p) /\ p = "ui" /\ person[p].clean =>
          report[person[p].id] = page.shown]_vars

(* docs/RUNBOOK.md:372, "the review history of each bug report": each      *)
(* round in the history of a report is about that report's claim.          *)
HistoryBelongs ==
    Quiet => \A i \in Ids : Sound(i) =>
        \A n \in DOMAIN history[i] : history[i][n].claim = report[i].claim

-----------------------------------------------------------------------------
(***************************************************************************)
(* The inductive invariant.                                                *)
(***************************************************************************)

(* Claims of people who have written a report and not yet its history.     *)
Pending == {person[p].next.claim : p \in {q \in People : person[q].pc = "append"}}
Clouded(c, known) == \A d \in Mates(c) : known[d] = Doubtful

(* Reports r with histories h as the decisions known have left them.       *)
Kept(r, h, known, pending) ==
    \A i \in Ids : r[i] # None /\ known[r[i].claim] # Doubtful =>
        /\ RightReview(r[i].review, known[r[i].claim])
        /\ known[r[i].claim] # None /\ r[i].claim \notin pending => h[i] # <<>> /\ Last(h[i]) = r[i]
        /\ \A j \in Ids \ {i} : r[j] # None => r[j].claim # r[i].claim
Held(r, known) ==
    \A c \in Claims : known[c] \notin {None, Doubtful} => \E i \in Ids : r[i] # None /\ r[i].claim = c

(* Reports as an analyzer writes them, whatever people wrote over them.    *)
Fresh(r, known) ==
    \A i \in Ids : r[i] # None /\ ~Clouded(r[i].claim, known) =>
        /\ r[i].review = Undecided
        /\ \A j \in Ids \ {i} : r[j] # None => KeyOf[r[j].claim] # KeyOf[r[i].claim]

(* The analyzer at work has written the reports below next.                *)
AgentWorks ==
    LET me == agent["awaited"]
    IN  /\ me.up => job.pc = "agent"
        /\ me.next # 0 => me.up /\ ~job.wrote /\ me.analysis \in Analyses
        /\ \A i \in 1..(me.next - 1) :
              report[i] # None /\ ~Clouded(report[i].claim, standing) => i \in DOMAIN me.analysis /\ report[i] = New(me.analysis[i])

(* The reports before next have their reviews, the others are as made.     *)
CarriedSoFar ==
    \A i \in Ids : report[i] # None /\ standing[report[i].claim] # Doubtful =>
        /\ job.fresh[i] # None /\ job.fresh[i].claim = report[i].claim
        /\ i >= job.next => report[i] = job.fresh[i]
        /\ i < job.next =>
              /\ RightReview(report[i].review, standing[report[i].claim])
              /\ standing[report[i].claim] # None => job.carried[i] # <<>> /\ Last(job.carried[i]) = report[i]

Restored ==
    \A i \in Ids :
        /\ report[i] # None /\ standing[report[i].claim] # Doubtful => report[i] = job.bugs[i]
        /\ job.bugs[i] # None /\ standing[job.bugs[i].claim] # Doubtful => report[i] = job.bugs[i]

Regenerated ==
    \/ job.kind = "manual" /\ agent["awaited"].next = 0
    \/ job.pc = "agent" /\ job.wrote
    \/ job.pc = "reconcile"

JobKnows ==
    /\ job.pc = "idle" <=> job.kind = "none"
    /\ job.kind = "none" => Kept(report, history, standing, Pending) /\ Held(report, standing)
    /\ job.kind = "refresh" => Kept(job.bugs, job.saved, standing, Pending) /\ Held(job.bugs, standing)
    /\ job.kind = "manual" => job.pc = "agent" /\ \A c \in Claims : standing[c] \in {None, Doubtful}
    /\ Regenerated => Fresh(report, standing)
    /\ job.pc \in {"agent", "reconcile"} => job.next = 1
    /\ job.pc = "carry" => Fresh(job.fresh, standing) /\ CarriedSoFar
    /\ job.pc = "finish" => Kept(report, history, standing, Pending)
    /\ job.pc = "restoreHistories" => Restored

(* Whoever decides undisturbed has before them what they loaded.           *)
PeopleKnow ==
    \A p \in People :
        /\ Deciding(p) => person[p].next # None
        /\ person[p].clean =>
              /\ Deciding(p) /\ ~Live /\ ~agent["orphan"].up
              /\ \A q \in People \ {p} : ~Deciding(q)
              /\ report[person[p].id] # None /\ report[person[p].id].claim = person[p].next.claim
              /\ person[p].pc = "write" /\ p = "ui" => page # None /\ page.shown = report[person[p].id]
              /\ person[p].pc = "append" => report[person[p].id] = person[p].next

IInv == TypeOK /\ AgentWorks /\ JobKnows /\ PeopleKnow
=============================================================================
