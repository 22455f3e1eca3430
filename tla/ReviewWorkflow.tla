---------------------------- MODULE ReviewWorkflow ----------------------------
(***************************************************************************)
(* The test-case review workflow: a person asks for a change to the test   *)
(* suite, a review agent (or, for a deletion, the host) proposes one, the  *)
(* person applies or turns it down (src/review/test-case-changes.ts over   *)
(* the file store of src/review/review-store.ts, driven by the HTTP        *)
(* handlers of src/ui-server/server.ts).                                   *)
(*                                                                         *)
(* Three kinds of process share the files.  The workspace server runs a    *)
(* handler without yielding once its body has arrived, so its handlers     *)
(* never interleave with each other, but the files they write are written  *)
(* one after the other and the server may die in between.  An agent        *)
(* process outlives the server that started it.  And every start of        *)
(* `npm run qa:ui' marks interrupted requests, even a start that then      *)
(* finds the port taken and exits.                                         *)
(*                                                                         *)
(* A case's content is the number of the proposal that last wrote it, 0 at *)
(* first; test-cases.json is written deterministically, so its SHA-256 is  *)
(* represented by the suite itself.  A draft that fails the schema or       *)
(* semantic checks of validateProposal, or leaves an issue unresolved, can *)
(* be turned down but not applied: it is a proposal nobody applies, which  *)
(* every proposal here may be.                                             *)
(***************************************************************************)
EXTENDS Integers, FiniteSets, FiniteSetsExt

CONSTANTS
    Requests,       \* the change request ids
    MaxProposals,   \* bound: proposal ids are 1..MaxProposals
    MaxCase,        \* bound: test case ids are 1..MaxCase
    InitialCases,   \* the cases of the suite the run produced
    Agents,         \* bound: agent processes that exist at one time
    Attempts,       \* ATTEMPTS: agent processes one job may start
    MaxStarts,      \* bound: starts of the server after the first
    None            \* no case, or no content

Proposals == 1..MaxProposals
Cases == 1..MaxCase
Contents == 0..MaxProposals

ASSUME ConstantsAssumption ==
    /\ MaxProposals \in Nat
    /\ MaxCase \in Nat
    /\ InitialCases \subseteq Cases
    /\ Attempts \in Nat \ {0}
    /\ MaxStarts \in Nat
    /\ None \notin Int \cup Requests

VARIABLES
    request,    \* review/requests/: one record per request id
    proposal,   \* review/proposals/: one record per proposal id
    suite,      \* test-cases.json: the content of each case, None if absent
    up,         \* the workspace server is running
    starts,     \* how often it has been started again
    handler,    \* the file writes its current handler still has to make
    agent,      \* the agent processes, and the jobs awaiting them
    (* History variables: no action's guard reads them. *)
    gone,       \* the case ids deleted from the suite
    written,    \* the requests of which a proposal reached the suite
    torn,       \* the requests a dying server left half handled
    disturbed   \* the requests whose proposals a late agent wrote over

vars == <<request, proposal, suite, up, starts, handler, agent, gone, written, torn, disturbed>>
history == <<gone, written, torn, disturbed>>

Operations == {"create", "update", "delete"}
Closed == {"APPLIED", "REJECTED"}
RequestStatuses ==
    {"NONE", "PENDING", "PROCESSING", "PROPOSAL_READY", "CHANGES_REQUESTED", "FAILED"} \cup Closed
ProposalStatuses == {"NONE", "READY", "SUPERSEDED", "REJECTED", "APPLIED"}
Suites == [Cases -> Contents \cup {None}]

Request == [op : Operations, target : Cases \cup {None},
            status : RequestStatuses, latest : 0..MaxProposals]

(* base is baseTestCasesSha256; fromBase, a history variable, says whether *)
(* that is the suite the author had read.                                  *)
Proposal == [req : Requests \cup {None}, op : Operations, target : Cases \cup {None},
             base : Suites, fromBase : BOOLEAN, new : SUBSET Cases,
             status : ProposalStatuses]

Handler == [todo : {"nothing", "propose", "mark", "close"}, req : Requests \cup {None},
            prop : 0..MaxProposals, status : RequestStatuses]

(* awaited: a job of the living server waits for this process.  before:   *)
(* the request's proposals when that job began.                            *)
Agent == [pc : {"exited", "working", "informed", "submitting", "saving"}, awaited : BOOLEAN,
          req : Requests \cup {None}, attempt : 0..Attempts, before : SUBSET Proposals,
          read : Suites, draft : Proposal, slot : 0..MaxProposals]

TypeOK ==
    /\ request \in [Requests -> Request]
    /\ proposal \in [Proposals -> Proposal]
    /\ suite \in Suites
    /\ up \in BOOLEAN
    /\ starts \in 0..MaxStarts
    /\ handler \in Handler
    /\ agent \in [Agents -> Agent]
    /\ gone \subseteq Cases
    /\ written \subseteq Requests
    /\ torn \subseteq Requests
    /\ disturbed \subseteq Requests

InitialSuite == [c \in Cases |-> IF c \in InitialCases THEN 0 ELSE None]
NoDraft == [req |-> None, op |-> "create", target |-> None, base |-> InitialSuite,
            fromBase |-> TRUE, new |-> {}, status |-> "NONE"]
Idle == [todo |-> "nothing", req |-> None, prop |-> 0, status |-> "NONE"]
NoAgent == [pc |-> "exited", awaited |-> FALSE, req |-> None, attempt |-> 0,
            before |-> {}, read |-> InitialSuite, draft |-> NoDraft, slot |-> 0]

Init ==
    /\ request = [r \in Requests |->
           [op |-> "create", target |-> None, status |-> "NONE", latest |-> 0]]
    /\ proposal = [p \in Proposals |-> NoDraft]
    /\ suite = InitialSuite
    /\ up = TRUE
    /\ starts = 0
    /\ handler = Idle
    /\ agent = [a \in Agents |-> NoAgent]
    /\ gone = {}
    /\ written = {}
    /\ torn = {}
    /\ disturbed = {}

-----------------------------------------------------------------------------
(* The store's records. *)

ActiveCases == {c \in Cases : suite[c] # None}
Stored == {p \in Proposals : proposal[p].status # "NONE"}
ProposalsOf(r) == {p \in Stored : proposal[p].req = r}
ReadyOf(r) == {p \in ProposalsOf(r) : proposal[p].status = "READY"}

(* nextId: one above the highest file name. *)
NextProposal == Max(Stored \cup {0}) + 1

(* updateRequestStatus; a proposal of 0 keeps latestProposalId. *)
WithStatus(r, status, p) ==
    [request EXCEPT ![r].status = status, ![r].latest = IF p = 0 THEN @ ELSE p]

WithProposalStatus(p, status) == [proposal EXCEPT ![p].status = status]

(* saveProposal's first half: earlier READY proposals of r are superseded. *)
Superseded(r) ==
    [p \in Proposals |->
        IF p \in ReadyOf(r) THEN [proposal[p] EXCEPT !.status = "SUPERSEDED"] ELSE proposal[p]]

(* A handler may start: the server runs and is between two handlers. *)
Free == up /\ handler.todo = "nothing"

(* The requests the server's jobs set holds. *)
Jobs == {agent[a].req : a \in {b \in Agents : agent[b].awaited}}

(* What applied proposals created or changed, and what requests are about. *)
AppliedIds ==
    UNION {proposal[p].new \cup ({proposal[p].target} \ {None}) :
              p \in {q \in Stored : proposal[q].status = "APPLIED"}}
TargetIds == {request[r].target : r \in Requests} \ {None}

(* Mutant of KnownCaseIds: the targets of the requests are not looked at. *)
MutantKnownCaseIds == ActiveCases \cup AppliedIds

(* knownCaseIds: the suite, what was applied, and every request's target. *)
KnownCaseIds == ActiveCases \cup AppliedIds \cup TargetIds

(* idAllocator: one above the highest known id.  No id when it is beyond   *)
(* the bound.                                                              *)
FreshIds ==
    {n \in Cases : n - 1 \in KnownCaseIds \cup {0} /\ \A k \in KnownCaseIds : k < n}

-----------------------------------------------------------------------------
(* A person's request. *)

(* createChangeRequest.  A deletion's proposal is the handler's next write. *)
CreateRequest(r, op, target) ==
    /\ Free
    /\ request[r].status = "NONE"
    /\ IF op = "create" THEN target = None ELSE target \in ActiveCases
    /\ request' = [request EXCEPT ![r] =
           [op |-> op, target |-> target, status |-> "PENDING", latest |-> 0]]
    /\ handler' = IF op = "delete"
                  THEN [todo |-> "propose", req |-> r, prop |-> 0, status |-> "NONE"]
                  ELSE handler
    /\ UNCHANGED <<proposal, suite, up, starts, agent, history>>

(* proposeDeletion: the host states the deletion exactly. *)
ProposeDeletion ==
    /\ up
    /\ handler.todo = "propose"
    /\ NextProposal \in Proposals
    /\ LET r == handler.req
           p == NextProposal
       IN  /\ proposal' = [Superseded(r) EXCEPT ![p] =
                  [req |-> r, op |-> "delete", target |-> request[r].target, base |-> suite,
                   fromBase |-> TRUE, new |-> {}, status |-> "READY"]]
           /\ handler' = [todo |-> "close", req |-> r, prop |-> p, status |-> "PROPOSAL_READY"]
    /\ UNCHANGED <<request, suite, up, starts, agent, history>>

-----------------------------------------------------------------------------
(* Processing: the job and its agent. *)

Processable == {"PENDING", "CHANGES_REQUESTED", "FAILED"}

(* An agent process is started for r; slot a is free for it. *)
Started(a, r, attempt, before) ==
    [agent EXCEPT ![a] = [NoAgent EXCEPT !.pc = "working", !.awaited = TRUE, !.req = r,
                                         !.attempt = attempt, !.before = before]]

(* Mutant of BeginProcessing: the server's jobs are not consulted. *)
MutantBeginIgnoresJobs(r, a) ==
    /\ Free
    /\ request[r].op # "delete"
    /\ request[r].status \in Processable
    /\ agent[a].pc = "exited" /\ ~agent[a].awaited
    /\ request' = WithStatus(r, "PROCESSING", 0)
    /\ agent' = Started(a, r, 1, ProposalsOf(r))
    /\ UNCHANGED <<proposal, suite, up, starts, handler, history>>

(* POST /process: PROCESSING is recorded and the job started.  runReviewAgent *)
(* takes the run lock and starts the first agent process.                     *)
BeginProcessing(r, a) ==
    /\ Free
    /\ r \notin Jobs
    /\ request[r].op # "delete"
    /\ request[r].status \in Processable
    /\ agent[a].pc = "exited" /\ ~agent[a].awaited
    /\ request' = WithStatus(r, "PROCESSING", 0)
    /\ agent' = Started(a, r, 1, ProposalsOf(r))
    /\ UNCHANGED <<proposal, suite, up, starts, handler, history>>

(* As above, but the run lock is refused: the job ends at once. *)
ProcessingRefused(r) ==
    /\ Free
    /\ r \notin Jobs
    /\ request[r].op # "delete"
    /\ request[r].status \in Processable
    /\ request' = WithStatus(r, "FAILED", 0)
    /\ UNCHANGED <<proposal, suite, up, starts, handler, agent, history>>

(* What the request has gained since the job awaiting agent a began. *)
Gained(a) == ProposalsOf(agent[a].req) \ agent[a].before

(* The agent ended without submitting and the job has an attempt left. *)
TryAgain(a) ==
    /\ Free
    /\ agent[a].awaited
    /\ agent[a].pc = "exited"
    /\ Gained(a) = {}
    /\ agent[a].attempt < Attempts
    /\ agent' = Started(a, agent[a].req, agent[a].attempt + 1, agent[a].before)
    /\ UNCHANGED <<request, proposal, suite, up, starts, handler, history>>

(* Mutant of FinishProcessing: a run that submitted nothing is not recorded. *)
MutantFinishLosesFailure(a) ==
    /\ Free
    /\ agent[a].awaited
    /\ agent[a].pc = "exited"
    /\ Gained(a) # {} \/ agent[a].attempt = Attempts
    /\ LET fresh == Gained(a) \cap ReadyOf(agent[a].req)
       IN  \/ fresh = {} /\ request' = request
           \/ \E p \in fresh :
                  /\ \A q \in fresh : q <= p
                  /\ request' = WithStatus(agent[a].req, "PROPOSAL_READY", p)
    /\ agent' = [agent EXCEPT ![a] = NoAgent]
    /\ UNCHANGED <<proposal, suite, up, starts, handler, history>>

(* finishProcessing: the latest READY proposal among the new ones - or      *)
(* FAILED, when there is none after the last attempt, or when runAgent      *)
(* throws at any attempt (the agent did not start, an error after its      *)
(* end), whatever the agent had saved by then.                              *)
FinishProcessing(a) ==
    /\ Free
    /\ agent[a].awaited
    /\ agent[a].pc = "exited"
    /\ LET fresh == Gained(a) \cap ReadyOf(agent[a].req)
       IN  \/ request' = WithStatus(agent[a].req, "FAILED", 0)
           \/ \E p \in fresh :
                  /\ \A q \in fresh : q <= p
                  /\ request' = WithStatus(agent[a].req, "PROPOSAL_READY", p)
    /\ agent' = [agent EXCEPT ![a] = NoAgent]
    /\ UNCHANGED <<proposal, suite, up, starts, handler, history>>

(* read_change_request: the agent reads the suite its draft will rest on. *)
ReadChangeRequest(a) ==
    /\ agent[a].pc \in {"working", "informed"}
    /\ agent' = [agent EXCEPT ![a].pc = "informed", ![a].read = suite]
    /\ UNCHANGED <<request, proposal, suite, up, starts, handler, history>>

(* submit_test_case_proposal, up to the save: refused unless the request is *)
(* PROCESSING; the base and the new ids are those of this moment.  An       *)
(* update keeps its target's id and may add a case; a creation adds one.    *)
SubmitDraft(a, extra) ==
    LET r == agent[a].req
    IN  /\ agent[a].pc = "informed"
        /\ request[r].status = "PROCESSING"
        /\ request[r].op = "create" => extra
        /\ extra => FreshIds # {}
        /\ agent' = [agent EXCEPT
               ![a].pc = "submitting",
               ![a].draft = [req |-> r, op |-> request[r].op, target |-> request[r].target,
                             base |-> suite, fromBase |-> agent[a].read = suite,
                             new |-> IF extra THEN FreshIds ELSE {},
                             status |-> "READY"]]
        /\ UNCHANGED <<request, proposal, suite, up, starts, handler, history>>

(* saveProposal: what the request had READY is superseded, the id chosen... *)
SupersedeAndNumber(a) ==
    /\ agent[a].pc = "submitting"
    /\ NextProposal \in Proposals
    /\ proposal' = Superseded(agent[a].req)
    /\ agent' = [agent EXCEPT ![a].pc = "saving", ![a].slot = NextProposal]
    /\ disturbed' = disturbed \cup
           {r \in {agent[a].req} : request[r].status # "PROCESSING"}
    /\ UNCHANGED <<request, suite, up, starts, handler, gone, written, torn>>

(* ... and the file written, over whatever has that name by now. *)
SaveProposal(a) ==
    LET p == agent[a].slot
    IN  /\ agent[a].pc = "saving"
        /\ proposal' = [proposal EXCEPT ![p] = agent[a].draft]
        /\ agent' = [agent EXCEPT ![a].pc = "informed", ![a].slot = 0, ![a].draft = NoDraft]
        /\ disturbed' = disturbed \cup {proposal[q].req : q \in Stored \cap {p}}
        /\ UNCHANGED <<request, suite, up, starts, handler, gone, written, torn>>

(* What is left of an agent process that ended: the job awaiting it, if any. *)
Ended(a) ==
    IF agent[a].awaited
    THEN [agent[a] EXCEPT !.pc = "exited", !.slot = 0, !.draft = NoDraft, !.read = InitialSuite]
    ELSE NoAgent

(* The agent process ends: done, failed, or killed in the middle of a call. *)
AgentExit(a) ==
    /\ agent[a].pc # "exited"
    /\ agent' = [agent EXCEPT ![a] = Ended(a)]
    /\ UNCHANGED <<request, proposal, suite, up, starts, handler, history>>

-----------------------------------------------------------------------------
(* A person's decision. *)

(* activeProposal: only the latest READY proposal can be acted on. *)
ActiveProposal(p) ==
    LET r == proposal[p].req
    IN  /\ proposal[p].status = "READY"
        /\ request[r].status = "PROPOSAL_READY"
        /\ request[r].latest = p

(* candidateSuite: why the proposal cannot be built on the suite, and what *)
(* it builds.                                                              *)
Buildable(p) ==
    /\ proposal[p].op # "create" => proposal[p].target \in ActiveCases
    /\ proposal[p].new \cap ActiveCases = {}

CandidateSuite(p) ==
    [c \in Cases |->
        IF c = proposal[p].target
        THEN IF proposal[p].op = "delete" THEN None ELSE p
        ELSE IF c \in proposal[p].new THEN p ELSE suite[c]]

(* validateProposal: not STALE, and a suite can be built. *)
Valid(p) == proposal[p].base = suite /\ Buildable(p)

(* applyProposal: the suite is replaced first, then the proposal marked,   *)
(* then the request closed.                                                *)
Apply(p) ==
    /\ Free
    /\ ActiveProposal(p)
    /\ Valid(p)
    /\ suite' = CandidateSuite(p)
    /\ gone' = gone \cup {c \in ActiveCases : suite'[c] = None}
    /\ written' = written \cup {proposal[p].req}
    /\ handler' = [todo |-> "mark", req |-> proposal[p].req, prop |-> p, status |-> "APPLIED"]
    /\ UNCHANGED <<request, proposal, up, starts, agent, torn, disturbed>>

MarkApplied ==
    /\ up
    /\ handler.todo = "mark"
    /\ proposal' = WithProposalStatus(handler.prop, "APPLIED")
    /\ handler' = [handler EXCEPT !.todo = "close"]
    /\ UNCHANGED <<request, suite, up, starts, agent, history>>

(* Mutant of TurnDown: an await lets it in between another handler's writes. *)
MutantTurnDownInterleaves(p, status) ==
    /\ up
    /\ ActiveProposal(p)
    /\ status = "CHANGES_REQUESTED" => proposal[p].op # "delete"
    /\ proposal' = WithProposalStatus(p, "REJECTED")
    /\ handler' = [todo |-> "close", req |-> proposal[p].req, prop |-> p, status |-> status]
    /\ UNCHANGED <<request, suite, up, starts, agent, history>>

(* Mutant of TurnDown: changes may be requested of a deletion. *)
MutantTurnDownRevisesDeletion(p, status) ==
    /\ Free
    /\ ActiveProposal(p)
    /\ proposal' = WithProposalStatus(p, "REJECTED")
    /\ handler' = [todo |-> "close", req |-> proposal[p].req, prop |-> p, status |-> status]
    /\ UNCHANGED <<request, suite, up, starts, agent, history>>

(* rejectProposal closes the request, requestProposalChanges reopens it;   *)
(* a deletion has nothing to revise.                                       *)
TurnDown(p, status) ==
    /\ Free
    /\ ActiveProposal(p)
    /\ status = "CHANGES_REQUESTED" => proposal[p].op # "delete"
    /\ proposal' = WithProposalStatus(p, "REJECTED")
    /\ handler' = [todo |-> "close", req |-> proposal[p].req, prop |-> p, status |-> status]
    /\ UNCHANGED <<request, suite, up, starts, agent, history>>

(* The handler's last write: updateRequestStatus. *)
CloseHandler ==
    /\ up
    /\ handler.todo = "close"
    /\ request' = WithStatus(handler.req, handler.status, handler.prop)
    /\ handler' = Idle
    /\ UNCHANGED <<proposal, suite, up, starts, agent, history>>

-----------------------------------------------------------------------------
(* The server's life. *)

(* The server dies; its agents do not.  Only a server that the bound lets  *)
(* start again does.                                                       *)
Crash ==
    /\ up
    /\ starts < MaxStarts
    /\ up' = FALSE
    /\ handler' = Idle
    /\ agent' = [a \in Agents |->
           IF agent[a].pc = "exited" THEN NoAgent
           ELSE [agent[a] EXCEPT !.awaited = FALSE, !.attempt = 0, !.before = {}]]
    /\ torn' = torn \cup (IF handler.todo = "nothing" THEN {} ELSE {handler.req})
    /\ UNCHANGED <<request, proposal, suite, starts, gone, written, disturbed>>

(* Mutant of StartServer: nothing is recovered. *)
MutantStartWithoutRecovery ==
    /\ starts < MaxStarts
    /\ starts' = starts + 1
    /\ up' = TRUE
    /\ UNCHANGED <<request, proposal, suite, handler, agent, history>>

(* createUiServer: recoverInterrupted, then listen.  Started beside a      *)
(* running server, the process exits because the port is taken.            *)
StartServer ==
    /\ starts < MaxStarts
    /\ starts' = starts + 1
    /\ up' = TRUE
    /\ request' = [r \in Requests |->
           IF request[r].status = "PROCESSING"
           THEN [request[r] EXCEPT !.status = "FAILED"] ELSE request[r]]
    /\ UNCHANGED <<proposal, suite, handler, agent, history>>

HandlerStep == ProposeDeletion \/ MarkApplied \/ CloseHandler
AfterAgent(a) == TryAgain(a) \/ FinishProcessing(a)

Next ==
    \/ \E r \in Requests, op \in Operations, target \in Cases \cup {None} :
           CreateRequest(r, op, target)
    \/ \E r \in Requests : ProcessingRefused(r)
    \/ \E r \in Requests, a \in Agents : BeginProcessing(r, a)
    \/ \E a \in Agents : AfterAgent(a) \/ AgentExit(a)
    \/ \E a \in Agents : ReadChangeRequest(a) \/ SupersedeAndNumber(a) \/ SaveProposal(a)
    \/ \E a \in Agents, extra \in BOOLEAN : SubmitDraft(a, extra)
    \/ \E p \in Proposals : Apply(p) \/ TurnDown(p, "REJECTED") \/ TurnDown(p, "CHANGES_REQUESTED")
    \/ HandlerStep
    \/ Crash
    \/ StartServer

Spec == Init /\ [][Next]_vars

(* A handler under way runs on; an agent process ends (the model run behind *)
(* it is taken to end, there is no timeout); and the continuation of a job  *)
(* whose agent has ended runs although other handlers may run before it.    *)
Fairness ==
    /\ WF_vars(HandlerStep)
    /\ \A a \in Agents : WF_vars(AgentExit(a)) /\ SF_vars(AfterAgent(a))

FairSpec == Spec /\ Fairness

-----------------------------------------------------------------------------
(***************************************************************************)
(* Properties.                                                             *)
(***************************************************************************)

(* A request says APPLIED exactly when a proposal of it reached the suite: *)
(* a person never sees a change as made that is not there, and one that is *)
(* there is never shown as rejected or still open, however the decisions,  *)
(* the agents, second starts and re-processing interleave.  The converse   *)
(* is lost only for a request whose handler the server died in, or while   *)
(* its handler has writes to make (applyProposal writes the suite first).  *)
DecisionMatchesSuite ==
    \A r \in Requests :
        /\ request[r].status = "APPLIED" => r \in written
        /\ r \in written \ torn =>
               \/ request[r].status = "APPLIED"
               \/ handler.todo # "nothing" /\ handler.req = r

(* recoverInterrupted: while the server runs, a request that says          *)
(* PROCESSING has a job of this server working on it, whatever crashed     *)
(* before; nothing else ever moves a request out of PROCESSING.            *)
ProcessingHasJob ==
    up => \A r \in Requests : request[r].status = "PROCESSING" => r \in Jobs

(* A person can always take an open request further: process it, wait for  *)
(* its job, or decide on its latest proposal, which is READY and its own.  *)
(* Lost only if the server died inside a handler of that request, or an    *)
(* agent saved over its proposals after the check that let it submit.      *)
NoDeadEnd ==
    \A r \in Requests \ (torn \cup disturbed) :
        Free =>
            \/ request[r].status \in {"NONE"} \cup Closed
            \/ request[r].status \in Processable /\ request[r].op # "delete"
            \/ request[r].status = "PROCESSING"
            \/ request[r].status = "PROPOSAL_READY" /\ request[r].latest \in ReadyOf(r)

(* An applied or rejected request is never reopened: not by a job that     *)
(* finishes late, by a second start of the server, or by recovery.         *)
ClosedStaysClosed ==
    [][\A r \in Requests : request[r].status \in Closed =>
           request'[r].status = request[r].status]_vars

(* "anything new gets an id no case has ever had" (test-case-changes.ts:   *)
(* 189), at the moment the id is given: no draft is given the id of a case *)
(* of the suite or of a deleted one, even if the record of the deletion    *)
(* was lost with the server.                                               *)
FreshIdsWhenGiven ==
    [][\A a \in Agents :
           agent'[a].pc = "submitting" /\ agent[a].pc # "submitting" =>
               agent'[a].draft.new \cap (ActiveCases \cup gone) = {}]_vars

(* A request being processed is answered, one way or another, unless the   *)
(* server goes down (whose next start recovers it: ProcessingHasJob).      *)
ProcessingEnds ==
    \A r \in Requests :
        (up /\ request[r].status = "PROCESSING") ~> (~up \/ request[r].status # "PROCESSING")

(* review-store.ts:73, of baseTestCasesSha256: "SHA-256 of the suite this  *)
(* proposal was generated from. Apply refuses any other."  The suite an    *)
(* author had read is the one the proposal says it is based on.            *)
GeneratedFromBase == \A p \in Stored : proposal[p].fromBase

(* test-case-changes.ts:225, of every case id: "deleted ones are never     *)
(* reissued".  No case of the suite carries the id of a deleted one.       *)
DeletedNeverReissued == ActiveCases \cap gone = {}

(* test-case-changes.ts:164: recovery is for a request "left PROCESSING by *)
(* a process that no longer exists".  A request with a live job is not     *)
(* marked as interrupted.                                                  *)
JobsAreProcessing ==
    \A a \in Agents : agent[a].awaited => request[agent[a].req].status = "PROCESSING"

-----------------------------------------------------------------------------
(***************************************************************************)
(* The inductive invariant behind DecisionMatchesSuite, ProcessingHasJob,  *)
(* ClosedStaysClosed and FreshIdsWhenGiven.                                *)
(***************************************************************************)

(* A job belongs to the running server and to a request that is being      *)
(* processed, or that a second start has meanwhile marked as interrupted.  *)
JobsBelong ==
    \A a \in Agents : agent[a].awaited =>
        /\ up
        /\ agent[a].req \in Requests
        /\ request[agent[a].req].status \in {"PROCESSING", "FAILED"}

OneJobPerRequest ==
    \A a, b \in Agents :
        agent[a].awaited /\ agent[b].awaited /\ agent[a].req = agent[b].req => a = b

(* While its handler has writes to make, a request has no job and is where *)
(* the handler found it.                                                   *)
HandlerOwnsRequest ==
    handler.todo # "nothing" =>
        /\ up
        /\ handler.req \in Requests
        /\ handler.todo = "propose" =>
               handler.status = "NONE" /\ request[handler.req].status = "PENDING"
        /\ handler.todo = "mark" => handler.status = "APPLIED"
        /\ handler.todo \in {"mark", "close"} =>
               /\ handler.prop \in Stored
               /\ \/ /\ handler.status = "PROPOSAL_READY"
                     /\ request[handler.req].status = "PENDING"
                  \/ /\ handler.status \in Closed \cup {"CHANGES_REQUESTED"}
                     /\ request[handler.req].status = "PROPOSAL_READY"

(* Proposals, and the drafts that may become proposals, are about the      *)
(* target of their request.                                                *)
About(d) ==
    /\ d.req \in Requests
    /\ request[d.req].status # "NONE"
    /\ d.target = request[d.req].target

ProposalsAreAbout == \A p \in Stored : About(proposal[p])

DraftsAreAbout ==
    \A a \in Agents :
        /\ agent[a].pc # "exited" =>
               agent[a].req \in Requests /\ request[agent[a].req].status # "NONE"
        /\ agent[a].pc \in {"submitting", "saving"} =>
               About(agent[a].draft) /\ agent[a].draft.status = "READY"
        /\ agent[a].pc = "saving" => agent[a].slot \in Proposals

(* Every deleted case is remembered as the target of a request. *)
DeletedAreTargets ==
    \A c \in gone : \E r \in Requests : request[r].status # "NONE" /\ request[r].target = c

(* DecisionMatchesSuite, made inductive: the handler that wrote the suite  *)
(* is going to say so.                                                     *)
WrittenIsDecided ==
    /\ handler.todo # "nothing" /\ handler.status = "APPLIED" => handler.req \in written
    /\ \A r \in Requests : request[r].status = "APPLIED" => r \in written
    /\ \A r \in Requests : r \in written /\ r \notin torn =>
           \/ request[r].status = "APPLIED"
           \/ handler.todo # "nothing" /\ handler.req = r /\ handler.status = "APPLIED"

IInv ==
    /\ TypeOK
    /\ JobsBelong
    /\ OneJobPerRequest
    /\ ProcessingHasJob
    /\ HandlerOwnsRequest
    /\ ProposalsAreAbout
    /\ DraftsAreAbout
    /\ DeletedAreTargets
    /\ WrittenIsDecided

(***************************************************************************)
(* What NoDeadEnd needs besides, also inductive.                           *)
(***************************************************************************)

Busy(r) == handler.todo # "nothing" /\ handler.req = r

(* Proposals and drafts do what their request asks for, and only the host  *)
(* proposes deletions.                                                     *)
AsAsked(d) == d.op = request[d.req].op
DoneAsAsked ==
    /\ \A p \in Stored : AsAsked(proposal[p])
    /\ \A a \in Agents :
          /\ agent[a].pc \in {"submitting", "saving"} => AsAsked(agent[a].draft)
          /\ agent[a].awaited => request[agent[a].req].op # "delete"
    /\ handler.todo = "propose" => request[handler.req].op = "delete"
    /\ handler.todo # "nothing" /\ handler.status = "CHANGES_REQUESTED" =>
           request[handler.req].op # "delete"

(* The latest proposal of a request that is ready for a decision is its    *)
(* own and READY, and not the one another's handler is about to mark.      *)
Decidable(r) ==
    /\ request[r].status = "PROPOSAL_READY" /\ ~Busy(r) =>
          /\ request[r].latest \in ReadyOf(r)
          /\ handler.todo = "mark" => request[r].latest # handler.prop
    /\ Busy(r) /\ handler.status = "PROPOSAL_READY" => handler.prop \in ReadyOf(r)

(* A deletion is proposed by the handler that took the request.            *)
DeletionStands(r) ==
    request[r].op = "delete" =>
        \/ request[r].status \in {"NONE", "PROPOSAL_READY"} \cup Closed
        \/ request[r].status = "PENDING" /\ Busy(r)

WaysOn ==
    /\ DoneAsAsked
    /\ \A r \in Requests \ (torn \cup disturbed) : Decidable(r)
    /\ \A r \in Requests \ torn : DeletionStands(r)
=============================================================================
